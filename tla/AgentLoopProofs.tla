-------------------------- MODULE AgentLoopProofs ---------------------------
(***************************************************************************)
(* Proofs about AgentLoop, for any budget of steps, any batches, any       *)
(* number of Runs and any faults: the type invariant, that nothing is done *)
(* on a stale response, that a stop is prompt, that a question is asked    *)
(* once, and that no cancel is lost.                                       *)
(***************************************************************************)
EXTENDS AgentLoop, SequenceTheorems, TLAPS

(* The Observations are those of calls of the batch. *)
ObsOK == obs \in Seq(ObsKinds) /\ Len(obs) <= Size

TurnTypes ==
  /\ clarification \in Clarifications /\ accepted \in BOOLEAN
  /\ batch \in [calls : Batches \cup {<<>>}, step : 0..MaxSteps]
  /\ ckpt \in [status : Verdicts \cup {"running"}, step : 0..MaxSteps, pending : BOOLEAN]

LocalTypes ==
  /\ run \in 0..MaxRuns /\ pc \in Points /\ step \in 0..MaxSteps + 1
  /\ response \in Responses /\ retried \in BOOLEAN
  /\ result \in ObsKinds /\ verdict \in Verdicts

GhostTypes == outdated \in BOOLEAN /\ late \in 0..1

(* Only the boundary before the model sees the step behind the budget.     *)
StepOK == pc # "before_model" => step <= MaxSteps

(* A call is worked on only while it has no Observation. *)
CallOK == pc \in {"control", "tool", "ask", "observe"} => Open

(* One call has begun since the stop was waiting: the Run is on its way to *)
(* a boundary and has no other call to begin.                              *)
LateOK ==
  late = 1 => Requested /\ pc \in {"model", "returned", "observe", "advance", "call", "close",
                                   "finish", "before_model", "ended"}

(* A response that guidance overtook is still in front of its boundary.    *)
FreshOK ==
  /\ outdated /\ pc = "returned" => Steered
  /\ pc \in {"dispatch", "point"} => ~outdated
  /\ accepted => ~outdated /\ pc \in {"finish", "ended", "before_run", "input", "restore"}

AskedOK == \A i \in Invocations : asked[i] = IF requests[i] = "absent" THEN 0 ELSE 1

Typed == ControlTypeOK /\ HumanTypeOK /\ TurnTypes /\ ObsOK /\ LocalTypes /\ GhostTypes
Ordered == StepOK /\ CallOK /\ LateOK /\ FreshOK /\ AskedOK
IInv == Typed /\ Ordered

----------------------------------------------------------------------------
(* A batch the model may propose has calls, no more than the bound. *)
LEMMA BatchFacts ==
  ASSUME NEW b \in Batches \cup {<<>>}
  PROVE  Len(b) \in 0..MaxCalls
<1>1. MaxCalls \in Nat
  BY MaxCallsAssumption
<1>2. CASE b = <<>>
  BY <1>1, <1>2
<1>3. CASE b \in Batches
  <2>1. PICK n \in 1..MaxCalls : b \in [1..n -> {"act", "ask"}]
    BY <1>3, LoopAssumption
  <2>2. n \in Nat
    BY <1>1, <2>1
  <2>3. b \in Seq({"act", "ask"})
    BY <2>1, <2>2
  <2>4. Len(b) = n
    BY <2>1, <2>2, <2>3
  <2> QED
    BY <2>4
<1> QED
  BY <1>2, <1>3

(* The two ways to say that there are at most n Observations. *)
LEMMA ObservationType ==
  ASSUME NEW n \in Nat, NEW S, NEW q \in Seq(S), Len(q) <= n
  PROVE  q \in UNION {[1..k -> S] : k \in 0..n}
<1>1. Len(q) \in 0..n
  OBVIOUS
<1>2. q \in [1..Len(q) -> S]
  OBVIOUS
<1> QED
  BY <1>1, <1>2

(* The sizes in reach of a Run. *)
LEMMA SizeFacts ==
  ASSUME IInv
  PROVE  /\ Size \in Nat /\ Size <= MaxCalls /\ MaxCalls \in Nat
         /\ Len(obs) \in Nat /\ Next1 \in Nat
         /\ Open => Next1 \in Invocations
         /\ MaxSteps \in Nat /\ MaxSteps > 0 /\ MaxRuns \in Nat
         /\ step \in Nat /\ ckpt.step \in 0..MaxSteps /\ batch.step \in 0..MaxSteps
         /\ (step <= MaxSteps => step \in 0..MaxSteps /\ step + 1 \in 0..MaxSteps + 1)
         /\ 0 \in 0..MaxSteps + 1 /\ 1 \in 0..MaxRuns /\ Open \in BOOLEAN
<1>1. batch.calls \in Batches \cup {<<>>} /\ batch.step \in 0..MaxSteps /\ ckpt.step \in 0..MaxSteps
  BY DEF IInv, Typed, TurnTypes
<1>2. Len(batch.calls) \in 0..MaxCalls /\ MaxCalls \in Nat
  BY <1>1, BatchFacts, MaxCallsAssumption
<1>3. Len(obs) \in Nat
  BY DEF IInv, Typed, ObsOK
<1>4. MaxSteps \in Nat \ {0} /\ MaxRuns \in Nat \ {0}
  BY LoopAssumption
<1>5. step \in 0..MaxSteps + 1
  BY DEF IInv, Typed, LocalTypes
<1> QED
  BY <1>1, <1>2, <1>3, <1>4, <1>5 DEF Size, Open, Next1, Invocations

(* A checkpoint is saved with a step of the budget. *)
LEMMA SavedType ==
  ASSUME NEW status \in Verdicts \cup {"running"}, NEW s \in 0..MaxSteps,
         NEW pending \in BOOLEAN, Save(status, s, pending)
  PROVE  ckpt' \in [status : Verdicts \cup {"running"}, step : 0..MaxSteps, pending : BOOLEAN]
  BY DEF Save

LEMMA InitIInv == Init => IInv
<1> SUFFICES ASSUME Init PROVE IInv
  OBVIOUS
<1>1. MaxSteps \in Nat \ {0} /\ MaxRuns \in Nat \ {0} /\ MaxCalls \in Nat \ {0}
  BY LoopAssumption, MaxCallsAssumption
<1>2. ControlTypeOK
  BY DEF Init, ControlInit, ControlTypeOK, Signals
<1>3. HumanTypeOK /\ AskedOK
  BY DEF Init, HumanInit, HumanTypeOK, AskedOK, RequestStates
<1>4. TurnTypes
  <2>1. 0 \in 0..MaxSteps
    BY <1>1
  <2>2. "none" \in Verdicts \cup {"running"} /\ <<>> \in Batches \cup {<<>>}
    BY DEF Verdicts
  <2>3. [status |-> "none", step |-> 0, pending |-> FALSE]
          \in [status : Verdicts \cup {"running"}, step : 0..MaxSteps, pending : BOOLEAN]
    BY <2>1, <2>2
  <2>4. [calls |-> <<>>, step |-> 0] \in [calls : Batches \cup {<<>>}, step : 0..MaxSteps]
    BY <2>1, <2>2
  <2> QED
    BY <2>3, <2>4 DEF Init, TurnTypes
<1>5. obs \in Seq(ObsKinds) /\ Len(obs) = 0 /\ batch.calls = <<>>
  BY DEF Init
<1>6. ObsOK
  BY <1>5 DEF ObsOK, Size
<1>7. LocalTypes /\ GhostTypes
  <2>1. run \in 0..MaxRuns /\ step \in 0..MaxSteps + 1 /\ late \in 0..1
    BY <1>1 DEF Init
  <2> QED
    BY <2>1 DEF Init, LocalTypes, GhostTypes, Points, Responses, ObsKinds, Verdicts
<1>8. StepOK /\ CallOK /\ LateOK /\ FreshOK
  BY <1>1 DEF Init, StepOK, CallOK, LateOK, FreshOK
<1> QED
  BY <1>2, <1>3, <1>4, <1>6, <1>7, <1>8 DEF IInv, Typed, Ordered

LEMMA BeginIInv ==
  ASSUME IInv, Begin PROVE IInv'
<1>1. ControlTypeOK' /\ HumanTypeOK' /\ AskedOK'
  BY SizeFacts, SavedType DEF IInv, Typed, Ordered, Begin, Save, turnVars, localVars, ghostVars,
         controlVars, humanVars, ControlTypeOK, HumanTypeOK, AskedOK, Keys, Signals,
         RequestStates
<1>2. TurnTypes' /\ ObsOK'
  BY SizeFacts, SavedType DEF IInv, Typed, Ordered, Begin, Save, turnVars, localVars, ghostVars,
         controlVars, humanVars, TurnTypes, ObsOK, Size, Open, StepOK, LocalTypes, Verdicts,
         ObsKinds
<1>3. LocalTypes' /\ GhostTypes'
  BY SizeFacts, SavedType DEF IInv, Typed, Ordered, Begin, Save, turnVars, localVars, ghostVars,
         controlVars, humanVars, LocalTypes, GhostTypes, TurnTypes, StepOK, LateOK, Points,
         Responses, ObsKinds, Verdicts, Steered, ControlTypeOK, Signals
<1>4. StepOK' /\ CallOK'
  BY SizeFacts, SavedType DEF IInv, Typed, Ordered, Begin, Save, turnVars, localVars, ghostVars,
         controlVars, humanVars, StepOK, CallOK, Open, Size
<1>5. LateOK' /\ FreshOK'
  BY SizeFacts, SavedType DEF IInv, Typed, Ordered, Begin, Save, turnVars, localVars, ghostVars,
         controlVars, humanVars, LateOK, FreshOK, Requested, Steered, GhostTypes, Keys,
         ControlTypeOK, LocalTypes
<1> QED
  BY <1>1, <1>2, <1>3, <1>4, <1>5 DEF IInv, Typed, Ordered

LEMMA ResumeIInv ==
  ASSUME IInv, Resume PROVE IInv'
<1>1. ControlTypeOK' /\ HumanTypeOK' /\ AskedOK'
  BY SizeFacts, SavedType DEF IInv, Typed, Ordered, Resume, Save, Unbind, turnVars, localVars,
         humanVars, ControlTypeOK, HumanTypeOK, AskedOK, Keys, Signals, RequestStates
<1>2. TurnTypes' /\ ObsOK'
  BY SizeFacts, SavedType DEF IInv, Typed, Ordered, Resume, Save, Unbind, turnVars, localVars,
         humanVars, TurnTypes, ObsOK, Size, Open, StepOK, LocalTypes, Verdicts, ObsKinds
<1>3. LocalTypes' /\ GhostTypes'
  BY SizeFacts, SavedType DEF IInv, Typed, Ordered, Resume, Save, Unbind, turnVars, localVars,
         humanVars, LocalTypes, GhostTypes, TurnTypes, StepOK, LateOK, Points, Responses,
         ObsKinds, Verdicts, Steered, ControlTypeOK, Signals
<1>4. StepOK' /\ CallOK'
  BY SizeFacts, SavedType DEF IInv, Typed, Ordered, Resume, Save, Unbind, turnVars, localVars,
         humanVars, StepOK, CallOK, Open, Size
<1>5. LateOK' /\ FreshOK'
  BY SizeFacts, SavedType DEF IInv, Typed, Ordered, Resume, Save, Unbind, turnVars, localVars,
         humanVars, LateOK, FreshOK, Requested, Steered, GhostTypes, Keys, ControlTypeOK,
         LocalTypes
<1> QED
  BY <1>1, <1>2, <1>3, <1>4, <1>5 DEF IInv, Typed, Ordered

LEMMA InterruptIInv ==
  ASSUME IInv, Interrupt PROVE IInv'
<1>1. ControlTypeOK' /\ HumanTypeOK' /\ AskedOK'
  BY SizeFacts, SavedType DEF IInv, Typed, Ordered, Interrupt, TakeTerminal, turnVars,
         humanVars, ControlTypeOK, HumanTypeOK, AskedOK, Keys, Signals, RequestStates
<1>2. TurnTypes' /\ ObsOK'
  BY SizeFacts, SavedType DEF IInv, Typed, Ordered, Interrupt, TakeTerminal, turnVars,
         humanVars, TurnTypes, ObsOK, Size, Open, StepOK, LocalTypes, Verdicts, ObsKinds
<1>3. LocalTypes' /\ GhostTypes'
  BY SizeFacts, SavedType DEF IInv, Typed, Ordered, Interrupt, TakeTerminal, turnVars,
         humanVars, LocalTypes, GhostTypes, TurnTypes, StepOK, LateOK, Points, Responses,
         ObsKinds, Verdicts, Steered, ControlTypeOK, Signals
<1>4. StepOK' /\ CallOK'
  BY SizeFacts, SavedType DEF IInv, Typed, Ordered, Interrupt, TakeTerminal, turnVars,
         humanVars, StepOK, CallOK, Open, Size
<1>5. LateOK' /\ FreshOK'
  BY SizeFacts, SavedType DEF IInv, Typed, Ordered, Interrupt, TakeTerminal, turnVars,
         humanVars, LateOK, FreshOK, Requested, Steered, GhostTypes, Keys, ControlTypeOK,
         LocalTypes
<1> QED
  BY <1>1, <1>2, <1>3, <1>4, <1>5 DEF IInv, Typed, Ordered

LEMMA BeforeRunIInv ==
  ASSUME IInv, BeforeRun PROVE IInv'
<1>1. ControlTypeOK' /\ HumanTypeOK' /\ AskedOK'
  BY SizeFacts, SavedType DEF IInv, Typed, Ordered, BeforeRun, KeepEnv, KeepTurn, turnVars,
         localVars, ghostVars, controlVars, humanVars, ControlTypeOK, HumanTypeOK, AskedOK,
         Keys, Signals, RequestStates
<1>2. TurnTypes' /\ ObsOK'
  BY SizeFacts, SavedType DEF IInv, Typed, Ordered, BeforeRun, KeepEnv, KeepTurn, turnVars,
         localVars, ghostVars, controlVars, humanVars, TurnTypes, ObsOK, Size, Open, StepOK,
         LocalTypes, Verdicts, ObsKinds
<1>3. LocalTypes' /\ GhostTypes'
  BY SizeFacts, SavedType DEF IInv, Typed, Ordered, BeforeRun, KeepEnv, KeepTurn, turnVars,
         localVars, ghostVars, controlVars, humanVars, LocalTypes, GhostTypes, TurnTypes,
         StepOK, LateOK, Points, Responses, ObsKinds, Verdicts, Steered, ControlTypeOK, Signals
<1>4. StepOK' /\ CallOK'
  BY SizeFacts, SavedType DEF IInv, Typed, Ordered, BeforeRun, KeepEnv, KeepTurn, turnVars,
         localVars, ghostVars, controlVars, humanVars, StepOK, CallOK, Open, Size
<1>5. LateOK' /\ FreshOK'
  BY SizeFacts, SavedType DEF IInv, Typed, Ordered, BeforeRun, KeepEnv, KeepTurn, turnVars,
         localVars, ghostVars, controlVars, humanVars, LateOK, FreshOK, Requested, Steered,
         GhostTypes, Keys, ControlTypeOK, LocalTypes
<1> QED
  BY <1>1, <1>2, <1>3, <1>4, <1>5 DEF IInv, Typed, Ordered

LEMMA CheckInputIInv ==
  ASSUME IInv, CheckInput PROVE IInv'
<1>1. ControlTypeOK' /\ HumanTypeOK' /\ AskedOK'
  BY SizeFacts, SavedType DEF IInv, Typed, Ordered, CheckInput, StopAs, Unanswered, Ask,
         KeepTurn, turnVars, ghostVars, controlVars, humanVars, ControlTypeOK, HumanTypeOK,
         AskedOK, Keys, Signals, RequestStates
<1>2. TurnTypes' /\ ObsOK'
  BY SizeFacts, SavedType DEF IInv, Typed, Ordered, CheckInput, StopAs, Unanswered, Ask,
         KeepTurn, turnVars, ghostVars, controlVars, humanVars, TurnTypes, ObsOK, Size, Open,
         StepOK, LocalTypes, Verdicts, ObsKinds
<1>3. LocalTypes' /\ GhostTypes'
  BY SizeFacts, SavedType DEF IInv, Typed, Ordered, CheckInput, StopAs, Unanswered, Ask,
         KeepTurn, turnVars, ghostVars, controlVars, humanVars, LocalTypes, GhostTypes,
         TurnTypes, StepOK, LateOK, Points, Responses, ObsKinds, Verdicts, Steered,
         ControlTypeOK, Signals
<1>4. StepOK' /\ CallOK'
  BY SizeFacts, SavedType DEF IInv, Typed, Ordered, CheckInput, StopAs, Unanswered, Ask,
         KeepTurn, turnVars, ghostVars, controlVars, humanVars, StepOK, CallOK, Open, Size
<1>5. LateOK' /\ FreshOK'
  BY SizeFacts, SavedType DEF IInv, Typed, Ordered, CheckInput, StopAs, Unanswered, Ask,
         KeepTurn, turnVars, ghostVars, controlVars, humanVars, LateOK, FreshOK, Requested,
         Steered, GhostTypes, Keys, ControlTypeOK, LocalTypes
<1> QED
  BY <1>1, <1>2, <1>3, <1>4, <1>5 DEF IInv, Typed, Ordered

LEMMA RestoreIInv ==
  ASSUME IInv, Restore PROVE IInv'
<1>1. ControlTypeOK' /\ HumanTypeOK' /\ AskedOK'
  BY SizeFacts, SavedType DEF IInv, Typed, Ordered, Restore, Save, StopAs, KeepEnv, KeepTurn,
         turnVars, ghostVars, controlVars, humanVars, ControlTypeOK, HumanTypeOK, AskedOK, Keys,
         Signals, RequestStates
<1>2. TurnTypes' /\ ObsOK'
  BY SizeFacts, SavedType DEF IInv, Typed, Ordered, Restore, Save, StopAs, KeepEnv, KeepTurn,
         turnVars, ghostVars, controlVars, humanVars, TurnTypes, ObsOK, Size, Open, StepOK,
         LocalTypes, Verdicts, ObsKinds
<1>3. LocalTypes' /\ GhostTypes'
  BY SizeFacts, SavedType DEF IInv, Typed, Ordered, Restore, Save, StopAs, KeepEnv, KeepTurn,
         turnVars, ghostVars, controlVars, humanVars, LocalTypes, GhostTypes, TurnTypes, StepOK,
         LateOK, Points, Responses, ObsKinds, Verdicts, Steered, ControlTypeOK, Signals
<1>4. StepOK' /\ CallOK'
  BY SizeFacts, SavedType DEF IInv, Typed, Ordered, Restore, Save, StopAs, KeepEnv, KeepTurn,
         turnVars, ghostVars, controlVars, humanVars, StepOK, CallOK, Open, Size
<1>5. LateOK' /\ FreshOK'
  BY SizeFacts, SavedType DEF IInv, Typed, Ordered, Restore, Save, StopAs, KeepEnv, KeepTurn,
         turnVars, ghostVars, controlVars, humanVars, LateOK, FreshOK, Requested, Steered,
         GhostTypes, Keys, ControlTypeOK, LocalTypes
<1> QED
  BY <1>1, <1>2, <1>3, <1>4, <1>5 DEF IInv, Typed, Ordered

LEMMA OutOfStepsIInv ==
  ASSUME IInv, OutOfSteps PROVE IInv'
<1>1. ControlTypeOK' /\ HumanTypeOK' /\ AskedOK'
  BY SizeFacts, SavedType DEF IInv, Typed, Ordered, OutOfSteps, StopAs, KeepEnv, KeepTurn,
         turnVars, ghostVars, controlVars, humanVars, ControlTypeOK, HumanTypeOK, AskedOK, Keys,
         Signals, RequestStates
<1>2. TurnTypes' /\ ObsOK'
  BY SizeFacts, SavedType DEF IInv, Typed, Ordered, OutOfSteps, StopAs, KeepEnv, KeepTurn,
         turnVars, ghostVars, controlVars, humanVars, TurnTypes, ObsOK, Size, Open, StepOK,
         LocalTypes, Verdicts, ObsKinds
<1>3. LocalTypes' /\ GhostTypes'
  BY SizeFacts, SavedType DEF IInv, Typed, Ordered, OutOfSteps, StopAs, KeepEnv, KeepTurn,
         turnVars, ghostVars, controlVars, humanVars, LocalTypes, GhostTypes, TurnTypes, StepOK,
         LateOK, Points, Responses, ObsKinds, Verdicts, Steered, ControlTypeOK, Signals
<1>4. StepOK' /\ CallOK'
  BY SizeFacts, SavedType DEF IInv, Typed, Ordered, OutOfSteps, StopAs, KeepEnv, KeepTurn,
         turnVars, ghostVars, controlVars, humanVars, StepOK, CallOK, Open, Size
<1>5. LateOK' /\ FreshOK'
  BY SizeFacts, SavedType DEF IInv, Typed, Ordered, OutOfSteps, StopAs, KeepEnv, KeepTurn,
         turnVars, ghostVars, controlVars, humanVars, LateOK, FreshOK, Requested, Steered,
         GhostTypes, Keys, ControlTypeOK, LocalTypes
<1> QED
  BY <1>1, <1>2, <1>3, <1>4, <1>5 DEF IInv, Typed, Ordered

LEMMA BeforeModelIInv ==
  ASSUME IInv, BeforeModel PROVE IInv'
<1>1. ControlTypeOK' /\ HumanTypeOK' /\ AskedOK'
  BY SizeFacts, SavedType DEF IInv, Typed, Ordered, BeforeModel, Save, InjectSteers,
         DrainSteers, KeepTurn, turnVars, localVars, ghostVars, humanVars, ControlTypeOK,
         HumanTypeOK, AskedOK, Keys, Signals, RequestStates
<1>2. TurnTypes' /\ ObsOK'
  BY SizeFacts, SavedType DEF IInv, Typed, Ordered, BeforeModel, Save, InjectSteers,
         DrainSteers, KeepTurn, turnVars, localVars, ghostVars, humanVars, TurnTypes, ObsOK,
         Size, Open, StepOK, LocalTypes, Verdicts, ObsKinds
<1>3. LocalTypes' /\ GhostTypes'
  BY SizeFacts, SavedType DEF IInv, Typed, Ordered, BeforeModel, Save, InjectSteers,
         DrainSteers, KeepTurn, turnVars, localVars, ghostVars, humanVars, LocalTypes,
         GhostTypes, TurnTypes, StepOK, LateOK, Points, Responses, ObsKinds, Verdicts, Steered,
         ControlTypeOK, Signals
<1>4. StepOK' /\ CallOK'
  BY SizeFacts, SavedType DEF IInv, Typed, Ordered, BeforeModel, Save, InjectSteers,
         DrainSteers, KeepTurn, turnVars, localVars, ghostVars, humanVars, StepOK, CallOK, Open,
         Size
<1>5. LateOK' /\ FreshOK'
  BY SizeFacts, SavedType DEF IInv, Typed, Ordered, BeforeModel, Save, InjectSteers,
         DrainSteers, KeepTurn, turnVars, localVars, ghostVars, humanVars, LateOK, FreshOK,
         Requested, Steered, GhostTypes, Keys, ControlTypeOK, LocalTypes
<1> QED
  BY <1>1, <1>2, <1>3, <1>4, <1>5 DEF IInv, Typed, Ordered

LEMMA PrepareIInv ==
  ASSUME IInv, Prepare PROVE IInv'
<1>1. ControlTypeOK' /\ HumanTypeOK' /\ AskedOK'
  BY SizeFacts, SavedType DEF IInv, Typed, Ordered, Prepare, Save, KeepEnv, KeepTurn, turnVars,
         localVars, controlVars, humanVars, ControlTypeOK, HumanTypeOK, AskedOK, Keys, Signals,
         RequestStates
<1>2. TurnTypes' /\ ObsOK'
  BY SizeFacts, SavedType DEF IInv, Typed, Ordered, Prepare, Save, KeepEnv, KeepTurn, turnVars,
         localVars, controlVars, humanVars, TurnTypes, ObsOK, Size, Open, StepOK, LocalTypes,
         Verdicts, ObsKinds
<1>3. LocalTypes' /\ GhostTypes'
  BY SizeFacts, SavedType DEF IInv, Typed, Ordered, Prepare, Save, KeepEnv, KeepTurn, turnVars,
         localVars, controlVars, humanVars, LocalTypes, GhostTypes, TurnTypes, StepOK, LateOK,
         Points, Responses, ObsKinds, Verdicts, Steered, ControlTypeOK, Signals
<1>4. StepOK' /\ CallOK'
  BY SizeFacts, SavedType DEF IInv, Typed, Ordered, Prepare, Save, KeepEnv, KeepTurn, turnVars,
         localVars, controlVars, humanVars, StepOK, CallOK, Open, Size
<1>5. LateOK' /\ FreshOK'
  BY SizeFacts, SavedType DEF IInv, Typed, Ordered, Prepare, Save, KeepEnv, KeepTurn, turnVars,
         localVars, controlVars, humanVars, LateOK, FreshOK, Requested, Steered, GhostTypes,
         Keys, ControlTypeOK, LocalTypes
<1> QED
  BY <1>1, <1>2, <1>3, <1>4, <1>5 DEF IInv, Typed, Ordered

LEMMA CallModelIInv ==
  ASSUME IInv, CallModel PROVE IInv'
<1>1. ControlTypeOK' /\ HumanTypeOK' /\ AskedOK'
  BY SizeFacts, SavedType DEF IInv, Typed, Ordered, CallModel, StopAs, BeginCall, KeepEnv,
         KeepTurn, turnVars, controlVars, humanVars, ControlTypeOK, HumanTypeOK, AskedOK, Keys,
         Signals, RequestStates
<1>2. TurnTypes' /\ ObsOK'
  BY SizeFacts, SavedType DEF IInv, Typed, Ordered, CallModel, StopAs, BeginCall, KeepEnv,
         KeepTurn, turnVars, controlVars, humanVars, TurnTypes, ObsOK, Size, Open, StepOK,
         LocalTypes, Verdicts, ObsKinds
<1>3. LocalTypes' /\ GhostTypes'
  BY SizeFacts, SavedType DEF IInv, Typed, Ordered, CallModel, StopAs, BeginCall, KeepEnv,
         KeepTurn, turnVars, controlVars, humanVars, LocalTypes, GhostTypes, TurnTypes, StepOK,
         LateOK, Points, Responses, ObsKinds, Verdicts, Steered, ControlTypeOK, Signals
<1>4. StepOK' /\ CallOK'
  BY SizeFacts, SavedType DEF IInv, Typed, Ordered, CallModel, StopAs, BeginCall, KeepEnv,
         KeepTurn, turnVars, controlVars, humanVars, StepOK, CallOK, Open, Size
<1>5. LateOK' /\ FreshOK'
  BY SizeFacts, SavedType DEF IInv, Typed, Ordered, CallModel, StopAs, BeginCall, KeepEnv,
         KeepTurn, turnVars, controlVars, humanVars, LateOK, FreshOK, Requested, Steered,
         GhostTypes, Keys, ControlTypeOK, LocalTypes
<1> QED
  BY <1>1, <1>2, <1>3, <1>4, <1>5 DEF IInv, Typed, Ordered

LEMMA ModelReturnsIInv ==
  ASSUME IInv, ModelReturns PROVE IInv'
<1>1. ControlTypeOK' /\ HumanTypeOK' /\ AskedOK'
  BY SizeFacts, SavedType DEF IInv, Typed, Ordered, ModelReturns, KeepEnv, KeepTurn, turnVars,
         controlVars, humanVars, ControlTypeOK, HumanTypeOK, AskedOK, Keys, Signals,
         RequestStates
<1>2. TurnTypes' /\ ObsOK'
  BY SizeFacts, SavedType DEF IInv, Typed, Ordered, ModelReturns, KeepEnv, KeepTurn, turnVars,
         controlVars, humanVars, TurnTypes, ObsOK, Size, Open, StepOK, LocalTypes, Verdicts,
         ObsKinds
<1>3. LocalTypes' /\ GhostTypes'
  BY SizeFacts, SavedType DEF IInv, Typed, Ordered, ModelReturns, KeepEnv, KeepTurn, turnVars,
         controlVars, humanVars, LocalTypes, GhostTypes, TurnTypes, StepOK, LateOK, Points,
         Responses, ObsKinds, Verdicts, Steered, ControlTypeOK, Signals
<1>4. StepOK' /\ CallOK'
  BY SizeFacts, SavedType DEF IInv, Typed, Ordered, ModelReturns, KeepEnv, KeepTurn, turnVars,
         controlVars, humanVars, StepOK, CallOK, Open, Size
<1>5. LateOK' /\ FreshOK'
  BY SizeFacts, SavedType DEF IInv, Typed, Ordered, ModelReturns, KeepEnv, KeepTurn, turnVars,
         controlVars, humanVars, LateOK, FreshOK, Requested, Steered, GhostTypes, Keys,
         ControlTypeOK, LocalTypes
<1> QED
  BY <1>1, <1>2, <1>3, <1>4, <1>5 DEF IInv, Typed, Ordered

LEMMA RefreshIInv ==
  ASSUME IInv, Refresh PROVE IInv'
<1>1. ControlTypeOK' /\ HumanTypeOK' /\ AskedOK'
  BY SizeFacts, SavedType DEF IInv, Typed, Ordered, Refresh, Save, InjectSteers, DrainSteers,
         KeepTurn, turnVars, ghostVars, humanVars, ControlTypeOK, HumanTypeOK, AskedOK, Keys,
         Signals, RequestStates
<1>2. TurnTypes' /\ ObsOK'
  BY SizeFacts, SavedType DEF IInv, Typed, Ordered, Refresh, Save, InjectSteers, DrainSteers,
         KeepTurn, turnVars, ghostVars, humanVars, TurnTypes, ObsOK, Size, Open, StepOK,
         LocalTypes, Verdicts, ObsKinds
<1>3. LocalTypes' /\ GhostTypes'
  BY SizeFacts, SavedType DEF IInv, Typed, Ordered, Refresh, Save, InjectSteers, DrainSteers,
         KeepTurn, turnVars, ghostVars, humanVars, LocalTypes, GhostTypes, TurnTypes, StepOK,
         LateOK, Points, Responses, ObsKinds, Verdicts, Steered, ControlTypeOK, Signals
<1>4. StepOK' /\ CallOK'
  BY SizeFacts, SavedType DEF IInv, Typed, Ordered, Refresh, Save, InjectSteers, DrainSteers,
         KeepTurn, turnVars, ghostVars, humanVars, StepOK, CallOK, Open, Size
<1>5. LateOK' /\ FreshOK'
  BY SizeFacts, SavedType DEF IInv, Typed, Ordered, Refresh, Save, InjectSteers, DrainSteers,
         KeepTurn, turnVars, ghostVars, humanVars, LateOK, FreshOK, Requested, Steered,
         GhostTypes, Keys, ControlTypeOK, LocalTypes
<1> QED
  BY <1>1, <1>2, <1>3, <1>4, <1>5 DEF IInv, Typed, Ordered

LEMMA KeepResponseIInv ==
  ASSUME IInv, KeepResponse PROVE IInv'
<1>1. ControlTypeOK' /\ HumanTypeOK' /\ AskedOK'
  BY SizeFacts, SavedType DEF IInv, Typed, Ordered, KeepResponse, StopAs, KeepEnv, KeepTurn,
         turnVars, ghostVars, controlVars, humanVars, ControlTypeOK, HumanTypeOK, AskedOK, Keys,
         Signals, RequestStates
<1>2. TurnTypes' /\ ObsOK'
  BY SizeFacts, SavedType DEF IInv, Typed, Ordered, KeepResponse, StopAs, KeepEnv, KeepTurn,
         turnVars, ghostVars, controlVars, humanVars, TurnTypes, ObsOK, Size, Open, StepOK,
         LocalTypes, Verdicts, ObsKinds
<1>3. LocalTypes' /\ GhostTypes'
  BY SizeFacts, SavedType DEF IInv, Typed, Ordered, KeepResponse, StopAs, KeepEnv, KeepTurn,
         turnVars, ghostVars, controlVars, humanVars, LocalTypes, GhostTypes, TurnTypes, StepOK,
         LateOK, Points, Responses, ObsKinds, Verdicts, Steered, ControlTypeOK, Signals
<1>4. StepOK' /\ CallOK'
  BY SizeFacts, SavedType DEF IInv, Typed, Ordered, KeepResponse, StopAs, KeepEnv, KeepTurn,
         turnVars, ghostVars, controlVars, humanVars, StepOK, CallOK, Open, Size
<1>5. LateOK' /\ FreshOK'
  BY SizeFacts, SavedType DEF IInv, Typed, Ordered, KeepResponse, StopAs, KeepEnv, KeepTurn,
         turnVars, ghostVars, controlVars, humanVars, LateOK, FreshOK, Requested, Steered,
         GhostTypes, Keys, ControlTypeOK, LocalTypes
<1> QED
  BY <1>1, <1>2, <1>3, <1>4, <1>5 DEF IInv, Typed, Ordered

LEMMA RecoverIInv ==
  ASSUME IInv, Recover PROVE IInv'
<1>1. ControlTypeOK' /\ HumanTypeOK' /\ AskedOK'
  BY SizeFacts, SavedType DEF IInv, Typed, Ordered, Recover, Save, StopAs, KeepEnv, KeepTurn,
         turnVars, controlVars, humanVars, ControlTypeOK, HumanTypeOK, AskedOK, Keys, Signals,
         RequestStates
<1>2. TurnTypes' /\ ObsOK'
  BY SizeFacts, SavedType DEF IInv, Typed, Ordered, Recover, Save, StopAs, KeepEnv, KeepTurn,
         turnVars, controlVars, humanVars, TurnTypes, ObsOK, Size, Open, StepOK, LocalTypes,
         Verdicts, ObsKinds
<1>3. LocalTypes' /\ GhostTypes'
  BY SizeFacts, SavedType DEF IInv, Typed, Ordered, Recover, Save, StopAs, KeepEnv, KeepTurn,
         turnVars, controlVars, humanVars, LocalTypes, GhostTypes, TurnTypes, StepOK, LateOK,
         Points, Responses, ObsKinds, Verdicts, Steered, ControlTypeOK, Signals
<1>4. StepOK' /\ CallOK'
  BY SizeFacts, SavedType DEF IInv, Typed, Ordered, Recover, Save, StopAs, KeepEnv, KeepTurn,
         turnVars, controlVars, humanVars, StepOK, CallOK, Open, Size
<1>5. LateOK' /\ FreshOK'
  BY SizeFacts, SavedType DEF IInv, Typed, Ordered, Recover, Save, StopAs, KeepEnv, KeepTurn,
         turnVars, controlVars, humanVars, LateOK, FreshOK, Requested, Steered, GhostTypes,
         Keys, ControlTypeOK, LocalTypes
<1> QED
  BY <1>1, <1>2, <1>3, <1>4, <1>5 DEF IInv, Typed, Ordered

LEMMA FailModelIInv ==
  ASSUME IInv, FailModel PROVE IInv'
<1>1. ControlTypeOK' /\ HumanTypeOK' /\ AskedOK'
  BY SizeFacts, SavedType DEF IInv, Typed, Ordered, FailModel, StopAs, KeepEnv, KeepTurn,
         turnVars, ghostVars, controlVars, humanVars, ControlTypeOK, HumanTypeOK, AskedOK, Keys,
         Signals, RequestStates
<1>2. TurnTypes' /\ ObsOK'
  BY SizeFacts, SavedType DEF IInv, Typed, Ordered, FailModel, StopAs, KeepEnv, KeepTurn,
         turnVars, ghostVars, controlVars, humanVars, TurnTypes, ObsOK, Size, Open, StepOK,
         LocalTypes, Verdicts, ObsKinds
<1>3. LocalTypes' /\ GhostTypes'
  BY SizeFacts, SavedType DEF IInv, Typed, Ordered, FailModel, StopAs, KeepEnv, KeepTurn,
         turnVars, ghostVars, controlVars, humanVars, LocalTypes, GhostTypes, TurnTypes, StepOK,
         LateOK, Points, Responses, ObsKinds, Verdicts, Steered, ControlTypeOK, Signals
<1>4. StepOK' /\ CallOK'
  BY SizeFacts, SavedType DEF IInv, Typed, Ordered, FailModel, StopAs, KeepEnv, KeepTurn,
         turnVars, ghostVars, controlVars, humanVars, StepOK, CallOK, Open, Size
<1>5. LateOK' /\ FreshOK'
  BY SizeFacts, SavedType DEF IInv, Typed, Ordered, FailModel, StopAs, KeepEnv, KeepTurn,
         turnVars, ghostVars, controlVars, humanVars, LateOK, FreshOK, Requested, Steered,
         GhostTypes, Keys, ControlTypeOK, LocalTypes
<1> QED
  BY <1>1, <1>2, <1>3, <1>4, <1>5 DEF IInv, Typed, Ordered

LEMMA AnswerIInv ==
  ASSUME IInv, Answer PROVE IInv'
<1>1. ControlTypeOK' /\ HumanTypeOK' /\ AskedOK'
  BY SizeFacts, SavedType DEF IInv, Typed, Ordered, Answer, StopAs, KeepEnv, ghostVars,
         controlVars, humanVars, ControlTypeOK, HumanTypeOK, AskedOK, Keys, Signals,
         RequestStates
<1>2. TurnTypes' /\ ObsOK'
  BY SizeFacts, SavedType DEF IInv, Typed, Ordered, Answer, StopAs, KeepEnv, ghostVars,
         controlVars, humanVars, TurnTypes, ObsOK, Size, Open, StepOK, LocalTypes, Verdicts,
         ObsKinds
<1>3. LocalTypes' /\ GhostTypes'
  BY SizeFacts, SavedType DEF IInv, Typed, Ordered, Answer, StopAs, KeepEnv, ghostVars,
         controlVars, humanVars, LocalTypes, GhostTypes, TurnTypes, StepOK, LateOK, Points,
         Responses, ObsKinds, Verdicts, Steered, ControlTypeOK, Signals
<1>4. StepOK' /\ CallOK'
  BY SizeFacts, SavedType DEF IInv, Typed, Ordered, Answer, StopAs, KeepEnv, ghostVars,
         controlVars, humanVars, StepOK, CallOK, Open, Size
<1>5. LateOK' /\ FreshOK'
  BY SizeFacts, SavedType DEF IInv, Typed, Ordered, Answer, StopAs, KeepEnv, ghostVars,
         controlVars, humanVars, LateOK, FreshOK, Requested, Steered, GhostTypes, Keys,
         ControlTypeOK, LocalTypes
<1> QED
  BY <1>1, <1>2, <1>3, <1>4, <1>5 DEF IInv, Typed, Ordered

LEMMA RefuseCallsIInv ==
  ASSUME IInv, RefuseCalls PROVE IInv'
<1>1. ControlTypeOK' /\ HumanTypeOK' /\ AskedOK'
  BY SizeFacts, SavedType DEF IInv, Typed, Ordered, RefuseCalls, StopAs, KeepEnv, KeepTurn,
         turnVars, ghostVars, controlVars, humanVars, ControlTypeOK, HumanTypeOK, AskedOK, Keys,
         Signals, RequestStates
<1>2. TurnTypes' /\ ObsOK'
  BY SizeFacts, SavedType DEF IInv, Typed, Ordered, RefuseCalls, StopAs, KeepEnv, KeepTurn,
         turnVars, ghostVars, controlVars, humanVars, TurnTypes, ObsOK, Size, Open, StepOK,
         LocalTypes, Verdicts, ObsKinds
<1>3. LocalTypes' /\ GhostTypes'
  BY SizeFacts, SavedType DEF IInv, Typed, Ordered, RefuseCalls, StopAs, KeepEnv, KeepTurn,
         turnVars, ghostVars, controlVars, humanVars, LocalTypes, GhostTypes, TurnTypes, StepOK,
         LateOK, Points, Responses, ObsKinds, Verdicts, Steered, ControlTypeOK, Signals
<1>4. StepOK' /\ CallOK'
  BY SizeFacts, SavedType DEF IInv, Typed, Ordered, RefuseCalls, StopAs, KeepEnv, KeepTurn,
         turnVars, ghostVars, controlVars, humanVars, StepOK, CallOK, Open, Size
<1>5. LateOK' /\ FreshOK'
  BY SizeFacts, SavedType DEF IInv, Typed, Ordered, RefuseCalls, StopAs, KeepEnv, KeepTurn,
         turnVars, ghostVars, controlVars, humanVars, LateOK, FreshOK, Requested, Steered,
         GhostTypes, Keys, ControlTypeOK, LocalTypes
<1> QED
  BY <1>1, <1>2, <1>3, <1>4, <1>5 DEF IInv, Typed, Ordered

LEMMA ProposeIInv ==
  ASSUME IInv, Propose PROVE IInv'
<1>1. ControlTypeOK' /\ HumanTypeOK' /\ AskedOK'
  BY SizeFacts, SavedType DEF IInv, Typed, Ordered, Propose, NewBatch, ghostVars, controlVars,
         ControlTypeOK, HumanTypeOK, AskedOK, Keys, Signals, RequestStates
<1>2. TurnTypes' /\ ObsOK'
  BY SizeFacts, SavedType DEF IInv, Typed, Ordered, Propose, NewBatch, ghostVars, controlVars,
         TurnTypes, ObsOK, Size, Open, StepOK, LocalTypes, Verdicts, ObsKinds
<1>3. LocalTypes' /\ GhostTypes'
  BY SizeFacts, SavedType DEF IInv, Typed, Ordered, Propose, NewBatch, ghostVars, controlVars,
         LocalTypes, GhostTypes, TurnTypes, StepOK, LateOK, Points, Responses, ObsKinds,
         Verdicts, Steered, ControlTypeOK, Signals
<1>4. StepOK' /\ CallOK'
  BY SizeFacts, SavedType DEF IInv, Typed, Ordered, Propose, NewBatch, ghostVars, controlVars,
         StepOK, CallOK, Open, Size
<1>5. LateOK' /\ FreshOK'
  BY SizeFacts, SavedType DEF IInv, Typed, Ordered, Propose, NewBatch, ghostVars, controlVars,
         LateOK, FreshOK, Requested, Steered, GhostTypes, Keys, ControlTypeOK, LocalTypes
<1> QED
  BY <1>1, <1>2, <1>3, <1>4, <1>5 DEF IInv, Typed, Ordered

LEMMA PointToBatchIInv ==
  ASSUME IInv, PointToBatch PROVE IInv'
<1>1. ControlTypeOK' /\ HumanTypeOK' /\ AskedOK'
  BY SizeFacts, SavedType DEF IInv, Typed, Ordered, PointToBatch, Save, KeepEnv, KeepTurn,
         turnVars, localVars, ghostVars, controlVars, humanVars, ControlTypeOK, HumanTypeOK,
         AskedOK, Keys, Signals, RequestStates
<1>2. TurnTypes' /\ ObsOK'
  BY SizeFacts, SavedType DEF IInv, Typed, Ordered, PointToBatch, Save, KeepEnv, KeepTurn,
         turnVars, localVars, ghostVars, controlVars, humanVars, TurnTypes, ObsOK, Size, Open,
         StepOK, LocalTypes, Verdicts, ObsKinds
<1>3. LocalTypes' /\ GhostTypes'
  BY SizeFacts, SavedType DEF IInv, Typed, Ordered, PointToBatch, Save, KeepEnv, KeepTurn,
         turnVars, localVars, ghostVars, controlVars, humanVars, LocalTypes, GhostTypes,
         TurnTypes, StepOK, LateOK, Points, Responses, ObsKinds, Verdicts, Steered,
         ControlTypeOK, Signals
<1>4. StepOK' /\ CallOK'
  BY SizeFacts, SavedType DEF IInv, Typed, Ordered, PointToBatch, Save, KeepEnv, KeepTurn,
         turnVars, localVars, ghostVars, controlVars, humanVars, StepOK, CallOK, Open, Size
<1>5. LateOK' /\ FreshOK'
  BY SizeFacts, SavedType DEF IInv, Typed, Ordered, PointToBatch, Save, KeepEnv, KeepTurn,
         turnVars, localVars, ghostVars, controlVars, humanVars, LateOK, FreshOK, Requested,
         Steered, GhostTypes, Keys, ControlTypeOK, LocalTypes
<1> QED
  BY <1>1, <1>2, <1>3, <1>4, <1>5 DEF IInv, Typed, Ordered

LEMMA DeferIInv ==
  ASSUME IInv, Defer PROVE IInv'
<1>1. ControlTypeOK' /\ HumanTypeOK' /\ AskedOK'
  BY SizeFacts, SavedType DEF IInv, Typed, Ordered, Defer, KeepEnv, KeepTurn, turnVars,
         ghostVars, controlVars, humanVars, ControlTypeOK, HumanTypeOK, AskedOK, Keys, Signals,
         RequestStates
<1>2. TurnTypes' /\ ObsOK'
  BY SizeFacts, SavedType DEF IInv, Typed, Ordered, Defer, KeepEnv, KeepTurn, turnVars,
         ghostVars, controlVars, humanVars, TurnTypes, ObsOK, Size, Open, StepOK, LocalTypes,
         Verdicts, ObsKinds
<1>3. LocalTypes' /\ GhostTypes'
  BY SizeFacts, SavedType DEF IInv, Typed, Ordered, Defer, KeepEnv, KeepTurn, turnVars,
         ghostVars, controlVars, humanVars, LocalTypes, GhostTypes, TurnTypes, StepOK, LateOK,
         Points, Responses, ObsKinds, Verdicts, Steered, ControlTypeOK, Signals
<1>4. StepOK' /\ CallOK'
  BY SizeFacts, SavedType DEF IInv, Typed, Ordered, Defer, KeepEnv, KeepTurn, turnVars,
         ghostVars, controlVars, humanVars, StepOK, CallOK, Open, Size
<1>5. LateOK' /\ FreshOK'
  BY SizeFacts, SavedType DEF IInv, Typed, Ordered, Defer, KeepEnv, KeepTurn, turnVars,
         ghostVars, controlVars, humanVars, LateOK, FreshOK, Requested, Steered, GhostTypes,
         Keys, ControlTypeOK, LocalTypes
<1> QED
  BY <1>1, <1>2, <1>3, <1>4, <1>5 DEF IInv, Typed, Ordered

LEMMA SkipCallIInv ==
  ASSUME IInv, SkipCall PROVE IInv'
<1>1. ControlTypeOK' /\ HumanTypeOK' /\ AskedOK'
  BY SizeFacts, SavedType DEF IInv, Typed, Ordered, SkipCall, KeepEnv, KeepTurn, turnVars,
         ghostVars, controlVars, humanVars, ControlTypeOK, HumanTypeOK, AskedOK, Keys, Signals,
         RequestStates
<1>2. TurnTypes' /\ ObsOK'
  BY SizeFacts, SavedType DEF IInv, Typed, Ordered, SkipCall, KeepEnv, KeepTurn, turnVars,
         ghostVars, controlVars, humanVars, TurnTypes, ObsOK, Size, Open, StepOK, LocalTypes,
         Verdicts, ObsKinds
<1>3. LocalTypes' /\ GhostTypes'
  BY SizeFacts, SavedType DEF IInv, Typed, Ordered, SkipCall, KeepEnv, KeepTurn, turnVars,
         ghostVars, controlVars, humanVars, LocalTypes, GhostTypes, TurnTypes, StepOK, LateOK,
         Points, Responses, ObsKinds, Verdicts, Steered, ControlTypeOK, Signals
<1>4. StepOK' /\ CallOK'
  BY SizeFacts, SavedType DEF IInv, Typed, Ordered, SkipCall, KeepEnv, KeepTurn, turnVars,
         ghostVars, controlVars, humanVars, StepOK, CallOK, Open, Size
<1>5. LateOK' /\ FreshOK'
  BY SizeFacts, SavedType DEF IInv, Typed, Ordered, SkipCall, KeepEnv, KeepTurn, turnVars,
         ghostVars, controlVars, humanVars, LateOK, FreshOK, Requested, Steered, GhostTypes,
         Keys, ControlTypeOK, LocalTypes
<1> QED
  BY <1>1, <1>2, <1>3, <1>4, <1>5 DEF IInv, Typed, Ordered

LEMMA TakeCallIInv ==
  ASSUME IInv, TakeCall PROVE IInv'
<1>1. ControlTypeOK' /\ HumanTypeOK' /\ AskedOK'
  BY SizeFacts, SavedType DEF IInv, Typed, Ordered, TakeCall, KeepEnv, KeepTurn, turnVars,
         localVars, ghostVars, controlVars, humanVars, ControlTypeOK, HumanTypeOK, AskedOK,
         Keys, Signals, RequestStates
<1>2. TurnTypes' /\ ObsOK'
  BY SizeFacts, SavedType DEF IInv, Typed, Ordered, TakeCall, KeepEnv, KeepTurn, turnVars,
         localVars, ghostVars, controlVars, humanVars, TurnTypes, ObsOK, Size, Open, StepOK,
         LocalTypes, Verdicts, ObsKinds
<1>3. LocalTypes' /\ GhostTypes'
  BY SizeFacts, SavedType DEF IInv, Typed, Ordered, TakeCall, KeepEnv, KeepTurn, turnVars,
         localVars, ghostVars, controlVars, humanVars, LocalTypes, GhostTypes, TurnTypes,
         StepOK, LateOK, Points, Responses, ObsKinds, Verdicts, Steered, ControlTypeOK, Signals
<1>4. StepOK' /\ CallOK'
  BY SizeFacts, SavedType DEF IInv, Typed, Ordered, TakeCall, KeepEnv, KeepTurn, turnVars,
         localVars, ghostVars, controlVars, humanVars, StepOK, CallOK, Open, Size
<1>5. LateOK' /\ FreshOK'
  BY SizeFacts, SavedType DEF IInv, Typed, Ordered, TakeCall, KeepEnv, KeepTurn, turnVars,
         localVars, ghostVars, controlVars, humanVars, LateOK, FreshOK, Requested, Steered,
         GhostTypes, Keys, ControlTypeOK, LocalTypes
<1> QED
  BY <1>1, <1>2, <1>3, <1>4, <1>5 DEF IInv, Typed, Ordered

LEMMA AskHumanIInv ==
  ASSUME IInv, AskHuman PROVE IInv'
<1>1. ControlTypeOK' /\ HumanTypeOK' /\ AskedOK'
  BY SizeFacts, SavedType DEF IInv, Typed, Ordered, AskHuman, Unanswered, Ask, KeepTurn,
         turnVars, ghostVars, controlVars, humanVars, ControlTypeOK, HumanTypeOK, AskedOK, Keys,
         Signals, RequestStates
<1>2. TurnTypes' /\ ObsOK'
  BY SizeFacts, SavedType DEF IInv, Typed, Ordered, AskHuman, Unanswered, Ask, KeepTurn,
         turnVars, ghostVars, controlVars, humanVars, TurnTypes, ObsOK, Size, Open, StepOK,
         LocalTypes, Verdicts, ObsKinds
<1>3. LocalTypes' /\ GhostTypes'
  BY SizeFacts, SavedType DEF IInv, Typed, Ordered, AskHuman, Unanswered, Ask, KeepTurn,
         turnVars, ghostVars, controlVars, humanVars, LocalTypes, GhostTypes, TurnTypes, StepOK,
         LateOK, Points, Responses, ObsKinds, Verdicts, Steered, ControlTypeOK, Signals
<1>4. StepOK' /\ CallOK'
  BY SizeFacts, SavedType DEF IInv, Typed, Ordered, AskHuman, Unanswered, Ask, KeepTurn,
         turnVars, ghostVars, controlVars, humanVars, StepOK, CallOK, Open, Size
<1>5. LateOK' /\ FreshOK'
  BY SizeFacts, SavedType DEF IInv, Typed, Ordered, AskHuman, Unanswered, Ask, KeepTurn,
         turnVars, ghostVars, controlVars, humanVars, LateOK, FreshOK, Requested, Steered,
         GhostTypes, Keys, ControlTypeOK, LocalTypes
<1> QED
  BY <1>1, <1>2, <1>3, <1>4, <1>5 DEF IInv, Typed, Ordered

LEMMA PassControlIInv ==
  ASSUME IInv, PassControl PROVE IInv'
<1>1. ControlTypeOK' /\ HumanTypeOK' /\ AskedOK'
  BY SizeFacts, SavedType DEF IInv, Typed, Ordered, PassControl, KeepEnv, KeepTurn, turnVars,
         localVars, ghostVars, controlVars, humanVars, ControlTypeOK, HumanTypeOK, AskedOK,
         Keys, Signals, RequestStates
<1>2. TurnTypes' /\ ObsOK'
  BY SizeFacts, SavedType DEF IInv, Typed, Ordered, PassControl, KeepEnv, KeepTurn, turnVars,
         localVars, ghostVars, controlVars, humanVars, TurnTypes, ObsOK, Size, Open, StepOK,
         LocalTypes, Verdicts, ObsKinds
<1>3. LocalTypes' /\ GhostTypes'
  BY SizeFacts, SavedType DEF IInv, Typed, Ordered, PassControl, KeepEnv, KeepTurn, turnVars,
         localVars, ghostVars, controlVars, humanVars, LocalTypes, GhostTypes, TurnTypes,
         StepOK, LateOK, Points, Responses, ObsKinds, Verdicts, Steered, ControlTypeOK, Signals
<1>4. StepOK' /\ CallOK'
  BY SizeFacts, SavedType DEF IInv, Typed, Ordered, PassControl, KeepEnv, KeepTurn, turnVars,
         localVars, ghostVars, controlVars, humanVars, StepOK, CallOK, Open, Size
<1>5. LateOK' /\ FreshOK'
  BY SizeFacts, SavedType DEF IInv, Typed, Ordered, PassControl, KeepEnv, KeepTurn, turnVars,
         localVars, ghostVars, controlVars, humanVars, LateOK, FreshOK, Requested, Steered,
         GhostTypes, Keys, ControlTypeOK, LocalTypes
<1> QED
  BY <1>1, <1>2, <1>3, <1>4, <1>5 DEF IInv, Typed, Ordered

LEMMA RunToolIInv ==
  ASSUME IInv, RunTool PROVE IInv'
<1>1. ControlTypeOK' /\ HumanTypeOK' /\ AskedOK'
  BY SizeFacts, SavedType DEF IInv, Typed, Ordered, RunTool, BeginCall, KeepEnv, KeepTurn,
         turnVars, controlVars, humanVars, ControlTypeOK, HumanTypeOK, AskedOK, Keys, Signals,
         RequestStates
<1>2. TurnTypes' /\ ObsOK'
  BY SizeFacts, SavedType DEF IInv, Typed, Ordered, RunTool, BeginCall, KeepEnv, KeepTurn,
         turnVars, controlVars, humanVars, TurnTypes, ObsOK, Size, Open, StepOK, LocalTypes,
         Verdicts, ObsKinds
<1>3. LocalTypes' /\ GhostTypes'
  BY SizeFacts, SavedType DEF IInv, Typed, Ordered, RunTool, BeginCall, KeepEnv, KeepTurn,
         turnVars, controlVars, humanVars, LocalTypes, GhostTypes, TurnTypes, StepOK, LateOK,
         Points, Responses, ObsKinds, Verdicts, Steered, ControlTypeOK, Signals
<1>4. StepOK' /\ CallOK'
  BY SizeFacts, SavedType DEF IInv, Typed, Ordered, RunTool, BeginCall, KeepEnv, KeepTurn,
         turnVars, controlVars, humanVars, StepOK, CallOK, Open, Size
<1>5. LateOK' /\ FreshOK'
  BY SizeFacts, SavedType DEF IInv, Typed, Ordered, RunTool, BeginCall, KeepEnv, KeepTurn,
         turnVars, controlVars, humanVars, LateOK, FreshOK, Requested, Steered, GhostTypes,
         Keys, ControlTypeOK, LocalTypes
<1> QED
  BY <1>1, <1>2, <1>3, <1>4, <1>5 DEF IInv, Typed, Ordered

LEMMA ObserveIInv ==
  ASSUME IInv, Observe PROVE IInv'
<1>1. ControlTypeOK' /\ HumanTypeOK' /\ AskedOK'
  BY SizeFacts, SavedType DEF IInv, Typed, Ordered, Observe, KeepEnv, localVars, ghostVars,
         controlVars, humanVars, ControlTypeOK, HumanTypeOK, AskedOK, Keys, Signals,
         RequestStates
<1>2. TurnTypes' /\ ObsOK'
  <2>1. /\ obs' = Append(obs, result) /\ Open
        /\ UNCHANGED <<clarification, batch, accepted, ckpt>>
    BY DEF Observe, IInv, Ordered, CallOK
  <2>2. obs \in Seq(ObsKinds) /\ result \in ObsKinds
    BY DEF IInv, Typed, ObsOK, LocalTypes
  <2>3. obs' \in Seq(ObsKinds) /\ Len(obs') = Len(obs) + 1
    BY <2>1, <2>2
  <2>4. Len(obs') <= Size'
    BY <2>1, <2>3, SizeFacts DEF Open, Size
  <2> QED
    BY <2>1, <2>3, <2>4 DEF IInv, Typed, TurnTypes, ObsOK
<1>3. LocalTypes' /\ GhostTypes'
  BY SizeFacts, SavedType DEF IInv, Typed, Ordered, Observe, KeepEnv, localVars, ghostVars,
         controlVars, humanVars, LocalTypes, GhostTypes, TurnTypes, StepOK, LateOK, Points,
         Responses, ObsKinds, Verdicts, Steered, ControlTypeOK, Signals
<1>4. StepOK' /\ CallOK'
  BY SizeFacts, SavedType DEF IInv, Typed, Ordered, Observe, KeepEnv, localVars, ghostVars,
         controlVars, humanVars, StepOK, CallOK, Open, Size
<1>5. LateOK' /\ FreshOK'
  BY SizeFacts, SavedType DEF IInv, Typed, Ordered, Observe, KeepEnv, localVars, ghostVars,
         controlVars, humanVars, LateOK, FreshOK, Requested, Steered, GhostTypes, Keys,
         ControlTypeOK, LocalTypes
<1> QED
  BY <1>1, <1>2, <1>3, <1>4, <1>5 DEF IInv, Typed, Ordered

LEMMA AdvanceIInv ==
  ASSUME IInv, Advance PROVE IInv'
<1>1. ControlTypeOK' /\ HumanTypeOK' /\ AskedOK'
  BY SizeFacts, SavedType DEF IInv, Typed, Ordered, Advance, Save, KeepEnv, KeepTurn, turnVars,
         ghostVars, controlVars, humanVars, ControlTypeOK, HumanTypeOK, AskedOK, Keys, Signals,
         RequestStates
<1>2. TurnTypes' /\ ObsOK'
  BY SizeFacts, SavedType DEF IInv, Typed, Ordered, Advance, Save, KeepEnv, KeepTurn, turnVars,
         ghostVars, controlVars, humanVars, TurnTypes, ObsOK, Size, Open, StepOK, LocalTypes,
         Verdicts, ObsKinds
<1>3. LocalTypes' /\ GhostTypes'
  BY SizeFacts, SavedType DEF IInv, Typed, Ordered, Advance, Save, KeepEnv, KeepTurn, turnVars,
         ghostVars, controlVars, humanVars, LocalTypes, GhostTypes, TurnTypes, StepOK, LateOK,
         Points, Responses, ObsKinds, Verdicts, Steered, ControlTypeOK, Signals
<1>4. StepOK' /\ CallOK'
  BY SizeFacts, SavedType DEF IInv, Typed, Ordered, Advance, Save, KeepEnv, KeepTurn, turnVars,
         ghostVars, controlVars, humanVars, StepOK, CallOK, Open, Size
<1>5. LateOK' /\ FreshOK'
  BY SizeFacts, SavedType DEF IInv, Typed, Ordered, Advance, Save, KeepEnv, KeepTurn, turnVars,
         ghostVars, controlVars, humanVars, LateOK, FreshOK, Requested, Steered, GhostTypes,
         Keys, ControlTypeOK, LocalTypes
<1> QED
  BY <1>1, <1>2, <1>3, <1>4, <1>5 DEF IInv, Typed, Ordered

LEMMA LeaveBatchIInv ==
  ASSUME IInv, LeaveBatch PROVE IInv'
<1>1. ControlTypeOK' /\ HumanTypeOK' /\ AskedOK'
  BY SizeFacts, SavedType DEF IInv, Typed, Ordered, LeaveBatch, Save, KeepEnv, KeepTurn,
         turnVars, localVars, ghostVars, controlVars, humanVars, ControlTypeOK, HumanTypeOK,
         AskedOK, Keys, Signals, RequestStates
<1>2. TurnTypes' /\ ObsOK'
  BY SizeFacts, SavedType DEF IInv, Typed, Ordered, LeaveBatch, Save, KeepEnv, KeepTurn,
         turnVars, localVars, ghostVars, controlVars, humanVars, TurnTypes, ObsOK, Size, Open,
         StepOK, LocalTypes, Verdicts, ObsKinds
<1>3. LocalTypes' /\ GhostTypes'
  BY SizeFacts, SavedType DEF IInv, Typed, Ordered, LeaveBatch, Save, KeepEnv, KeepTurn,
         turnVars, localVars, ghostVars, controlVars, humanVars, LocalTypes, GhostTypes,
         TurnTypes, StepOK, LateOK, Points, Responses, ObsKinds, Verdicts, Steered,
         ControlTypeOK, Signals
<1>4. StepOK' /\ CallOK'
  BY SizeFacts, SavedType DEF IInv, Typed, Ordered, LeaveBatch, Save, KeepEnv, KeepTurn,
         turnVars, localVars, ghostVars, controlVars, humanVars, StepOK, CallOK, Open, Size
<1>5. LateOK' /\ FreshOK'
  BY SizeFacts, SavedType DEF IInv, Typed, Ordered, LeaveBatch, Save, KeepEnv, KeepTurn,
         turnVars, localVars, ghostVars, controlVars, humanVars, LateOK, FreshOK, Requested,
         Steered, GhostTypes, Keys, ControlTypeOK, LocalTypes
<1> QED
  BY <1>1, <1>2, <1>3, <1>4, <1>5 DEF IInv, Typed, Ordered

LEMMA CloseBatchIInv ==
  ASSUME IInv, CloseBatch PROVE IInv'
<1>1. ControlTypeOK' /\ HumanTypeOK' /\ AskedOK'
  BY SizeFacts, SavedType DEF IInv, Typed, Ordered, CloseBatch, Save, KeepEnv, localVars,
         ghostVars, controlVars, humanVars, ControlTypeOK, HumanTypeOK, AskedOK, Keys, Signals,
         RequestStates
<1>2. TurnTypes' /\ ObsOK'
  BY SizeFacts, SavedType DEF IInv, Typed, Ordered, CloseBatch, Save, KeepEnv, localVars,
         ghostVars, controlVars, humanVars, TurnTypes, ObsOK, Size, Open, StepOK, LocalTypes,
         Verdicts, ObsKinds
<1>3. LocalTypes' /\ GhostTypes'
  BY SizeFacts, SavedType DEF IInv, Typed, Ordered, CloseBatch, Save, KeepEnv, localVars,
         ghostVars, controlVars, humanVars, LocalTypes, GhostTypes, TurnTypes, StepOK, LateOK,
         Points, Responses, ObsKinds, Verdicts, Steered, ControlTypeOK, Signals
<1>4. StepOK' /\ CallOK'
  BY SizeFacts, SavedType DEF IInv, Typed, Ordered, CloseBatch, Save, KeepEnv, localVars,
         ghostVars, controlVars, humanVars, StepOK, CallOK, Open, Size
<1>5. LateOK' /\ FreshOK'
  BY SizeFacts, SavedType DEF IInv, Typed, Ordered, CloseBatch, Save, KeepEnv, localVars,
         ghostVars, controlVars, humanVars, LateOK, FreshOK, Requested, Steered, GhostTypes,
         Keys, ControlTypeOK, LocalTypes
<1> QED
  BY <1>1, <1>2, <1>3, <1>4, <1>5 DEF IInv, Typed, Ordered

LEMMA FinishIInv ==
  ASSUME IInv, Finish PROVE IInv'
<1>1. ControlTypeOK' /\ HumanTypeOK' /\ AskedOK'
  BY SizeFacts, SavedType DEF IInv, Typed, Ordered, Finish, Save, Forget, KeepEnv, KeepTurn,
         turnVars, ghostVars, controlVars, humanVars, ControlTypeOK, HumanTypeOK, AskedOK, Keys,
         Signals, RequestStates
<1>2. TurnTypes' /\ ObsOK'
  BY SizeFacts, SavedType DEF IInv, Typed, Ordered, Finish, Save, Forget, KeepEnv, KeepTurn,
         turnVars, ghostVars, controlVars, humanVars, TurnTypes, ObsOK, Size, Open, StepOK,
         LocalTypes, Verdicts, ObsKinds
<1>3. LocalTypes' /\ GhostTypes'
  BY SizeFacts, SavedType DEF IInv, Typed, Ordered, Finish, Save, Forget, KeepEnv, KeepTurn,
         turnVars, ghostVars, controlVars, humanVars, LocalTypes, GhostTypes, TurnTypes, StepOK,
         LateOK, Points, Responses, ObsKinds, Verdicts, Steered, ControlTypeOK, Signals
<1>4. StepOK' /\ CallOK'
  BY SizeFacts, SavedType DEF IInv, Typed, Ordered, Finish, Save, Forget, KeepEnv, KeepTurn,
         turnVars, ghostVars, controlVars, humanVars, StepOK, CallOK, Open, Size
<1>5. LateOK' /\ FreshOK'
  BY SizeFacts, SavedType DEF IInv, Typed, Ordered, Finish, Save, Forget, KeepEnv, KeepTurn,
         turnVars, ghostVars, controlVars, humanVars, LateOK, FreshOK, Requested, Steered,
         GhostTypes, Keys, ControlTypeOK, LocalTypes
<1> QED
  BY <1>1, <1>2, <1>3, <1>4, <1>5 DEF IInv, Typed, Ordered

LEMMA CrashIInv ==
  ASSUME IInv, Crash PROVE IInv'
<1>1. ControlTypeOK' /\ HumanTypeOK' /\ AskedOK'
  BY SizeFacts, SavedType DEF IInv, Typed, Ordered, Crash, Forget, EmptyMailbox, KeepTurn,
         turnVars, humanVars, ControlTypeOK, HumanTypeOK, AskedOK, Keys, Signals, RequestStates
<1>2. TurnTypes' /\ ObsOK'
  BY SizeFacts, SavedType DEF IInv, Typed, Ordered, Crash, Forget, EmptyMailbox, KeepTurn,
         turnVars, humanVars, TurnTypes, ObsOK, Size, Open, StepOK, LocalTypes, Verdicts,
         ObsKinds
<1>3. LocalTypes' /\ GhostTypes'
  <2>1. /\ pc' = "ended" /\ step' = 0 /\ response' = "none" /\ retried' = FALSE
        /\ result' = "none" /\ verdict' = "none"
        /\ run' = run /\ late' = 0 /\ outdated' = outdated
    BY DEF Crash, Forget
  <2>2. step' \in 0..MaxSteps + 1
    BY <2>1, SizeFacts
  <2>3. LocalTypes'
    BY <2>1, <2>2 DEF IInv, Typed, LocalTypes, Points, Responses, ObsKinds, Verdicts
  <2> QED
    BY <2>1, <2>3 DEF IInv, Typed, GhostTypes
<1>4. StepOK' /\ CallOK'
  BY SizeFacts, SavedType DEF IInv, Typed, Ordered, Crash, Forget, EmptyMailbox, KeepTurn,
         turnVars, humanVars, StepOK, CallOK, Open, Size
<1>5. LateOK' /\ FreshOK'
  BY SizeFacts, SavedType DEF IInv, Typed, Ordered, Crash, Forget, EmptyMailbox, KeepTurn,
         turnVars, humanVars, LateOK, FreshOK, Requested, Steered, GhostTypes, Keys,
         ControlTypeOK, LocalTypes
<1> QED
  BY <1>1, <1>2, <1>3, <1>4, <1>5 DEF IInv, Typed, Ordered

LEMMA RaiseIInv ==
  ASSUME IInv, Raise PROVE IInv'
<1>1. ControlTypeOK' /\ HumanTypeOK' /\ AskedOK'
  BY SizeFacts, SavedType DEF IInv, Typed, Ordered, Raise, Forget, KeepEnv, KeepTurn, turnVars,
         ghostVars, controlVars, humanVars, ControlTypeOK, HumanTypeOK, AskedOK, Keys, Signals,
         RequestStates
<1>2. TurnTypes' /\ ObsOK'
  BY SizeFacts, SavedType DEF IInv, Typed, Ordered, Raise, Forget, KeepEnv, KeepTurn, turnVars,
         ghostVars, controlVars, humanVars, TurnTypes, ObsOK, Size, Open, StepOK, LocalTypes,
         Verdicts, ObsKinds
<1>3. LocalTypes' /\ GhostTypes'
  BY SizeFacts, SavedType DEF IInv, Typed, Ordered, Raise, Forget, KeepEnv, KeepTurn, turnVars,
         ghostVars, controlVars, humanVars, LocalTypes, GhostTypes, TurnTypes, StepOK, LateOK,
         Points, Responses, ObsKinds, Verdicts, Steered, ControlTypeOK, Signals
<1>4. StepOK' /\ CallOK'
  BY SizeFacts, SavedType DEF IInv, Typed, Ordered, Raise, Forget, KeepEnv, KeepTurn, turnVars,
         ghostVars, controlVars, humanVars, StepOK, CallOK, Open, Size
<1>5. LateOK' /\ FreshOK'
  BY SizeFacts, SavedType DEF IInv, Typed, Ordered, Raise, Forget, KeepEnv, KeepTurn, turnVars,
         ghostVars, controlVars, humanVars, LateOK, FreshOK, Requested, Steered, GhostTypes,
         Keys, ControlTypeOK, LocalTypes
<1> QED
  BY <1>1, <1>2, <1>3, <1>4, <1>5 DEF IInv, Typed, Ordered

LEMMA OperateIInv ==
  ASSUME IInv, Operate PROVE IInv'
<1>1. ControlTypeOK' /\ HumanTypeOK' /\ AskedOK'
  <2>1. ControlTypeOK /\ HumanTypeOK /\ AskedOK
    BY DEF IInv, Typed, Ordered
  <2>2. UNCHANGED humanVars
    BY DEF Operate
  <2>3. ASSUME NEW k \in Keys, Steer(k) PROVE ControlTypeOK'
    BY <2>1, <2>3 DEF ControlTypeOK, Steer
  <2>4. ASSUME NEW k \in Keys, NEW signal \in {"pause", "cancel"}, SetTerminal(k, signal)
        PROVE  ControlTypeOK'
    BY <2>1, <2>4 DEF ControlTypeOK, SetTerminal, Signals
  <2>5. ControlTypeOK'
    BY <2>3, <2>4, LoopAssumption DEF Operate
  <2> QED
    BY <2>1, <2>2, <2>5 DEF HumanTypeOK, AskedOK, humanVars
<1>2. TurnTypes' /\ ObsOK'
  BY SizeFacts, SavedType DEF IInv, Typed, Ordered, Operate, SetTerminal, Steer, turnVars,
         localVars, ghostVars, humanVars, TurnTypes, ObsOK, Size, Open, StepOK, LocalTypes,
         Verdicts, ObsKinds
<1>3. LocalTypes' /\ GhostTypes'
  BY SizeFacts, SavedType DEF IInv, Typed, Ordered, Operate, SetTerminal, Steer, turnVars,
         localVars, ghostVars, humanVars, LocalTypes, GhostTypes, TurnTypes, StepOK, LateOK,
         Points, Responses, ObsKinds, Verdicts, Steered, ControlTypeOK, Signals
<1>4. StepOK' /\ CallOK'
  BY SizeFacts, SavedType DEF IInv, Typed, Ordered, Operate, SetTerminal, Steer, turnVars,
         localVars, ghostVars, humanVars, StepOK, CallOK, Open, Size
<1>5. LateOK' /\ FreshOK'
  BY SizeFacts, SavedType DEF IInv, Typed, Ordered, Operate, SetTerminal, Steer, turnVars,
         localVars, ghostVars, humanVars, LateOK, FreshOK, Requested, Steered, GhostTypes, Keys,
         ControlTypeOK, LocalTypes
<1> QED
  BY <1>1, <1>2, <1>3, <1>4, <1>5 DEF IInv, Typed, Ordered

LEMMA RespondIInv ==
  ASSUME IInv, Respond PROVE IInv'
<1>1. ControlTypeOK' /\ HumanTypeOK' /\ AskedOK'
  BY SizeFacts, SavedType DEF IInv, Typed, Ordered, Respond, Decide, turnVars, localVars,
         ghostVars, controlVars, ControlTypeOK, HumanTypeOK, AskedOK, Keys, Signals,
         RequestStates
<1>2. TurnTypes' /\ ObsOK'
  BY SizeFacts, SavedType DEF IInv, Typed, Ordered, Respond, Decide, turnVars, localVars,
         ghostVars, controlVars, TurnTypes, ObsOK, Size, Open, StepOK, LocalTypes, Verdicts,
         ObsKinds
<1>3. LocalTypes' /\ GhostTypes'
  BY SizeFacts, SavedType DEF IInv, Typed, Ordered, Respond, Decide, turnVars, localVars,
         ghostVars, controlVars, LocalTypes, GhostTypes, TurnTypes, StepOK, LateOK, Points,
         Responses, ObsKinds, Verdicts, Steered, ControlTypeOK, Signals
<1>4. StepOK' /\ CallOK'
  BY SizeFacts, SavedType DEF IInv, Typed, Ordered, Respond, Decide, turnVars, localVars,
         ghostVars, controlVars, StepOK, CallOK, Open, Size
<1>5. LateOK' /\ FreshOK'
  BY SizeFacts, SavedType DEF IInv, Typed, Ordered, Respond, Decide, turnVars, localVars,
         ghostVars, controlVars, LateOK, FreshOK, Requested, Steered, GhostTypes, Keys,
         ControlTypeOK, LocalTypes
<1> QED
  BY <1>1, <1>2, <1>3, <1>4, <1>5 DEF IInv, Typed, Ordered

LEMMA NextIInv == ASSUME IInv, [Next]_vars PROVE IInv'
<1>1. CASE ModelStep
  BY <1>1, OutOfStepsIInv, BeforeModelIInv, PrepareIInv, CallModelIInv, ModelReturnsIInv,
     RefreshIInv, KeepResponseIInv, RecoverIInv, FailModelIInv, AnswerIInv, RefuseCallsIInv,
     ProposeIInv DEF ModelStep
<1>2. CASE BatchStep
  BY <1>2, PointToBatchIInv, DeferIInv, SkipCallIInv, TakeCallIInv, AskHumanIInv, PassControlIInv,
     RunToolIInv, ObserveIInv, AdvanceIInv, LeaveBatchIInv, CloseBatchIInv DEF BatchStep
<1>3. CASE Work
  BY <1>1, <1>2, <1>3, InterruptIInv, BeforeRunIInv, CheckInputIInv, RestoreIInv, FinishIInv
  DEF Work
<1>4. CASE UNCHANGED vars
  BY <1>4 DEF vars, controlVars, humanVars, turnVars, localVars, ghostVars, IInv, Typed, Ordered,
     ControlTypeOK, HumanTypeOK, TurnTypes, ObsOK, Size, LocalTypes, GhostTypes, StepOK, CallOK,
     Open, LateOK, Requested, FreshOK, Steered, AskedOK
<1> QED
  BY <1>3, <1>4, BeginIInv, ResumeIInv, CrashIInv, RaiseIInv, OperateIInv, RespondIInv DEF Next

LEMMA Invariance == Spec => []IInv
  BY InitIInv, NextIInv, PTL DEF Spec

----------------------------------------------------------------------------
(* Every variable keeps its type: a Run has no more Observations than its  *)
(* batch has calls, and no checkpoint names a step behind the budget.      *)
THEOREM TypeCorrect == Spec => []TypeOK
<1>1. ASSUME IInv PROVE TypeOK
  <2>1. obs \in UNION {[1..n -> ObsKinds] : n \in 0..Len(batch.calls)}
    <3>1. obs \in Seq(ObsKinds) /\ Len(obs) <= Len(batch.calls) /\ Len(batch.calls) \in Nat
      BY <1>1, SizeFacts DEF IInv, Typed, ObsOK, Size
    <3> QED
      BY <3>1, ObservationType
  <2>2. late \in 0..2
    BY <1>1 DEF IInv, Typed, GhostTypes
  <2> QED
    BY <1>1, <2>1, <2>2 DEF TypeOK, IInv, Typed, TurnTypes, LocalTypes, GhostTypes
<1> QED
  BY <1>1, Invariance, PTL

(* No batch is proposed and no answer accepted on a response that guidance *)
(* has overtaken, in the recovery call as in the first.                    *)
THEOREM OnlyFreshInput == Spec => []ActsOnFreshInput
<1>1. IInv => ActsOnFreshInput
  BY DEF IInv, Ordered, FreshOK, ActsOnFreshInput
<1> QED
  BY <1>1, Invariance, PTL

(* After a pause or cancel has arrived a Run begins at most one more call  *)
(* of the model or of a tool.                                              *)
THEOREM StopsArePrompt == Spec => []StopIsPrompt
<1>1. IInv => StopIsPrompt
  BY DEF IInv, Typed, GhostTypes, StopIsPrompt
<1> QED
  BY <1>1, Invariance, PTL

(* However many Runs continue the Turn, a question is put to the operator  *)
(* once.                                                                   *)
THEOREM QuestionsAskedOnce == Spec => []AskedOnce
<1>1. IInv => AskedOnce
  BY DEF IInv, Ordered, AskedOK, AskedOnce
<1> QED
  BY <1>1, Invariance, PTL

(* A cancel leaves the mailbox by cancelling its Run, with the Run it was  *)
(* bound to, or with the process, and in no other way.                     *)
LEMMA CancelStays ==
  ASSUME IInv, [Next]_vars, NEW k \in Keys, terminal[k] = "cancel", terminal'[k] # "cancel"
  PROVE  verdict' = "cancelled" \/ run' # run \/ (Working /\ pc' = "ended")
<1>1. terminal \in [Keys -> Signals]
  BY DEF IInv, Typed, ControlTypeOK
<1>2. CASE terminal' = terminal
  BY <1>2
<1>3. CASE Interrupt
  <2>1. PICK signal \in Signals :
          TakeTerminal(signal) /\ verdict' = IF signal = "cancel" THEN "cancelled" ELSE "paused"
    BY <1>3 DEF Interrupt
  <2>2. terminal' = [terminal EXCEPT ![IF terminal["run"] # "none" THEN "run" ELSE "any"] = "none"]
        /\ signal = terminal[IF terminal["run"] # "none" THEN "run" ELSE "any"]
    BY <2>1 DEF TakeTerminal
  <2>3. k = IF terminal["run"] # "none" THEN "run" ELSE "any"
    BY <1>1, <2>2
  <2> QED
    BY <2>1, <2>2, <2>3
<1>4. CASE Resume
  <2>1. run' = run + 1 /\ run \in 0..MaxRuns /\ MaxRuns \in Nat
    BY <1>4, LoopAssumption DEF Resume, IInv, Typed, LocalTypes
  <2> QED
    BY <2>1
<1>5. CASE Crash
  BY <1>5 DEF Crash, Forget
<1>6. CASE Operate
  <2>1. ASSUME NEW key \in OperatorKeys, NEW signal \in {"pause", "cancel"},
               SetTerminal(key, signal)
        PROVE  terminal'[k] = "cancel"
    BY <1>1, <2>1, LoopAssumption DEF SetTerminal
  <2>2. ASSUME NEW key \in OperatorKeys, Steer(key) PROVE terminal' = terminal
    BY <2>2 DEF Steer
  <2> QED
    BY <1>6, <2>1, <2>2 DEF Operate
<1>7. CASE ModelStep
  <2>1. terminal' = terminal
    BY <1>7 DEF ModelStep, OutOfSteps, BeforeModel, Prepare, CallModel, ModelReturns, Refresh,
       KeepResponse, Recover, FailModel, Answer, RefuseCalls, Propose, InjectSteers, DrainSteers,
       KeepEnv, controlVars
  <2> QED
    BY <2>1
<1>8. CASE BatchStep
  <2>1. terminal' = terminal
    BY <1>8 DEF BatchStep, PointToBatch, Defer, SkipCall, TakeCall, AskHuman, PassControl, RunTool,
       Observe, Advance, LeaveBatch, CloseBatch, KeepEnv, controlVars
  <2> QED
    BY <2>1
<1>9. CASE Begin \/ BeforeRun \/ CheckInput \/ Restore \/ Finish \/ Raise \/ Respond \/ UNCHANGED vars
  <2>1. terminal' = terminal
    BY <1>9 DEF Begin, BeforeRun, CheckInput, Restore, Finish, Raise, Respond, vars, KeepEnv,
       controlVars
  <2> QED
    BY <2>1
<1> QED
  BY <1>3, <1>4, <1>5, <1>6, <1>7, <1>8, <1>9 DEF Next, Work

THEOREM CancelsAreKept == Spec => CancelIsNotLost
<1>1. ASSUME IInv, [Next]_vars
      PROVE  [\A k \in Keys : terminal[k] = "cancel" /\ terminal'[k] # "cancel" =>
                \/ verdict' = "cancelled"
                \/ run' # run
                \/ Working /\ pc' = "ended"]_vars
  BY <1>1, CancelStays
<1> QED
  BY <1>1, Invariance, PTL DEF Spec, CancelIsNotLost
=============================================================================
