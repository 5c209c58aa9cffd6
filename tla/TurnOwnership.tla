--------------------------- MODULE TurnOwnership ---------------------------
(***************************************************************************)
(* What a conversation Thread promises its callers, whatever crashes       *)
(* between the writes of its files: at most one Turn is open, one Run owns *)
(* an open Turn, ownership passes only from the current owner to a new     *)
(* Run, an answer is accepted at most once per Turn and only while the     *)
(* Turn is open, and a closed Turn never changes again.  RunOwnership      *)
(* implements it (runtime/domain/thread.py, the contract of                *)
(* runtime/ports/thread.py).                                               *)
(***************************************************************************)
EXTENDS Naturals

CONSTANTS Turns, Runs, NoRun, Outcomes, Completed

VARIABLES state,     \* per Turn: "none", "open" or its outcome
          owner,     \* per Turn: its current Run
          attempts,  \* per Turn: every Run that ever owned it
          answered   \* the Turns with an accepted answer

ownershipVars == <<state, owner, attempts, answered>>

Init ==
  /\ state = [t \in Turns |-> "none"]
  /\ owner = [t \in Turns |-> NoRun]
  /\ attempts = [t \in Turns |-> {}]
  /\ answered = {}

Fresh(r) == \A t \in Turns : r \notin attempts[t]

Own(t, r) ==
  /\ owner' = [owner EXCEPT ![t] = r]
  /\ Fresh(r)
  /\ attempts' = [attempts EXCEPT ![t] = @ \cup {r}]
  /\ UNCHANGED answered

Open(t, r) ==
  /\ state[t] = "none"
  /\ \A u \in Turns : state[u] # "open"
  /\ state' = [state EXCEPT ![t] = "open"]
  /\ Own(t, r)

TakeOver(t, r) == state[t] = "open" /\ Own(t, r) /\ UNCHANGED state

Answer(t) ==
  /\ state[t] = "open" /\ t \notin answered
  /\ answered' = answered \cup {t}
  /\ UNCHANGED <<state, owner, attempts>>

Close(t, outcome) ==
  /\ state[t] = "open"
  /\ outcome = Completed => t \in answered
  /\ state' = [state EXCEPT ![t] = outcome]
  /\ UNCHANGED <<owner, attempts, answered>>

Next ==
  \E t \in Turns :
    \/ \E r \in Runs : Open(t, r) \/ TakeOver(t, r)
    \/ Answer(t)
    \/ \E outcome \in Outcomes : Close(t, outcome)

Spec == Init /\ [][Next]_ownershipVars
============================================================================
