------------------------------ MODULE MCFanout ------------------------------
(* Small instances of Fanout for TLC. *)
EXTENDS Fanout

Src == <<"src">>
SrcX == <<"src", "x">>
Docs == <<"docs">>

(* b and c need a, d needs both; c writes below the scope of b, so these   *)
(* two never run together.  The declared order differs from the integration *)
(* order.                                                                   *)
Diamond == [tasks |-> <<"d", "c", "a", "b">>,
            hard |-> {<<"a", "b">>, <<"a", "c">>, <<"b", "d">>, <<"c", "d">>}, live |-> {},
            scope |-> [a |-> {Docs}, b |-> {Src}, c |-> {SrcX}, d |-> {}]]

(* b needs a; c is independent, and writes below the scope of a. *)
Independent == [tasks |-> <<"b", "a", "c">>, hard |-> {<<"a", "b">>}, live |-> {},
                scope |-> [a |-> {Src}, b |-> {Docs}, c |-> {SrcX}, d |-> {}]]

(* b starts on versions of a; c, which is read-only, needs b. *)
LivePlan == [tasks |-> <<"a", "b", "c">>, hard |-> {<<"b", "c">>}, live |-> {<<"a", "b">>},
             scope |-> [a |-> {Src}, b |-> {Docs}, c |-> {}, d |-> {}]]

OnlyLive == {LivePlan}
AllPlans == {Diamond, Independent, LivePlan}
============================================================================
