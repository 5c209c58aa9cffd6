------------------------- MODULE InOrderIntegration -------------------------
(***************************************************************************)
(* What a fanout promises about the code it integrates: tasks are trusted  *)
(* one by one in the plan's integration order, what is saved survives a    *)
(* crash and exactly that is continued, and the outcome names success only *)
(* when every task is trusted.  Fanout implements it.                      *)
(***************************************************************************)
EXTENDS Naturals, Sequences

CONSTANTS Orders,    \* the integration orders of the plans considered
          Verdicts   \* how a fanout may end

VARIABLES order,     \* the tasks in integration order
          trusted,   \* the tasks whose changes are in the tree
          saved,     \* how many of them the checkpoint holds
          outcome    \* "open" until the fanout has decided

integrationVars == <<order, trusted, saved, outcome>>

Init == order \in Orders /\ trusted = <<>> /\ saved = 0 /\ outcome = "open"

Trust ==
  /\ outcome = "open"
  /\ Len(trusted) < Len(order)
  /\ trusted' = Append(trusted, order[Len(trusted) + 1])
  /\ UNCHANGED <<order, saved, outcome>>

Save == saved' = Len(trusted) /\ UNCHANGED <<order, trusted, outcome>>

(* A crash loses what was not saved, and the decision if it was not. *)
Crash ==
  /\ trusted' = SubSeq(trusted, 1, saved)
  /\ outcome' \in {outcome, "open"}
  /\ UNCHANGED <<order, saved>>

Decide(verdict) ==
  /\ outcome = "open"
  /\ verdict = "passed" => Len(trusted) = Len(order)
  /\ outcome' = verdict
  /\ UNCHANGED <<order, trusted, saved>>

Next == Trust \/ Save \/ Crash \/ \E verdict \in Verdicts : Decide(verdict)

Spec == Init /\ [][Next]_integrationVars
============================================================================
