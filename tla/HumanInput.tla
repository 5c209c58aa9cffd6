----------------------------- MODULE HumanInput -----------------------------
(***************************************************************************)
(* The durable questions of one Turn (human_input_json.py).  The identity  *)
(* of a request is a hash of thread, turn, question and invocation, never  *)
(* of the Run, so a resumed Run finds the request of its predecessor.      *)
(* Invocation 0 is the clarification of the task, i > 0 is call i of the   *)
(* current assistant batch; another batch has other invocations.           *)
(***************************************************************************)
EXTENDS Naturals

CONSTANT MaxCalls    \* the longest batch

ASSUME MaxCallsAssumption == MaxCalls \in Nat \ {0}

Invocations == 0..MaxCalls
RequestStates == {"absent", "pending", "responded", "cancelled"}

VARIABLES requests,  \* status of the request file of each invocation
          asked      \* ghost: how often a question was put to the operator

humanVars == <<requests, asked>>

HumanTypeOK ==
  /\ requests \in [Invocations -> RequestStates]
  /\ asked \in [Invocations -> 0..2]

HumanInit ==
  /\ requests = [i \in Invocations |-> "absent"]
  /\ asked = [i \in Invocations |-> 0]

(* Fault: only a request still pending is found again. *)
AskUnlessPending(i) ==
  IF requests[i] # "pending"
  THEN /\ requests' = [requests EXCEPT ![i] = "pending"]
       /\ asked' = [asked EXCEPT ![i] = IF @ = 2 THEN 2 ELSE @ + 1]
  ELSE UNCHANGED humanVars

(* request: create the question, or return the one that is there. *)
Ask(i) ==
  IF requests[i] = "absent"
  THEN /\ requests' = [requests EXCEPT ![i] = "pending"]
       /\ asked' = [asked EXCEPT ![i] = IF @ = 2 THEN 2 ELSE @ + 1]
  ELSE UNCHANGED humanVars

(* record_answer, cancel: a decision is taken once. *)
Decide(i, decision) ==
  /\ requests[i] = "pending"
  /\ requests' = [requests EXCEPT ![i] = decision]
  /\ UNCHANGED asked

(* A new assistant item: its calls are new invocations. *)
NewBatch ==
  /\ requests' = [i \in Invocations |-> IF i = 0 THEN requests[0] ELSE "absent"]
  /\ asked' = [i \in Invocations |-> IF i = 0 THEN asked[0] ELSE 0]
=============================================================================
