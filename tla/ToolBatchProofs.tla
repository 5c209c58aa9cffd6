--------------------------- MODULE ToolBatchProofs --------------------------
(***************************************************************************)
(* Proofs about ToolBatch, for any batch, any number of Runs and any       *)
(* faults: the type invariant, that the ledger never forgets an execution, *)
(* that a decision of the operator is final, that effects happen once, and *)
(* that no call of a batch is left without an Observation. For Runs that   *)
(* follow one another: that an approval covers the target that is          *)
(* executed, and that the journal tells the model what became of its       *)
(* calls.                                                                  *)
(***************************************************************************)
EXTENDS ToolBatch, TLAPS

(* The points at which a process works on the call its cursor names. *)
CallPoints == {"resolve", "plan", "approval", "request", "pend", "wait", "decide", "permit",
               "control", "claim", "gateway", "record", "observe", "denied", "advance"}

CursorInBatch == \A r \in Runs : pc[r] \in CallPoints => Cursor(r) \in Calls
ClaimantHasParent == \A r \in Runs : pc[r] = "claimed" => parent[r] \in Runs

DurableTypeOK ==
  /\ batch \in BOOLEAN /\ open \in BOOLEAN
  /\ obs \in [Calls -> Observations]
  /\ owner \in Runs \cup {NoRun}
  /\ ckpt \in [Runs -> [status : CheckpointStatuses, next : 0..Len(Batch)]]

LocalTypeOK ==
  /\ pc \in [Runs -> Points]
  /\ parent \in [Runs -> Runs \cup {NoRun}]
  /\ mode \in [Runs -> Modes]
  /\ print \in [Runs -> Prints]
  /\ seen \in [Runs -> Approvals]
  /\ result \in [Runs -> Observations]

IInv == LedgerTypeOK /\ DurableTypeOK /\ LocalTypeOK /\ CursorInBatch /\ ClaimantHasParent

(* The invariant contains the types. *)
LEMMA TypeIsInv == IInv => TypeOK
  BY DEF IInv, DurableTypeOK, LocalTypeOK, TypeOK

(* The length of the batch is a number and its calls are operations. *)
LEMMA BatchIsFinite ==
  /\ Len(Batch) \in Nat \ {0}
  /\ \A i \in Calls : i \in Nat /\ Batch[i] \in Ops
<1>1. Batch \in Seq(Ops) /\ Batch # <<>>
  BY BatchAssumption
<1>2. Len(Batch) \in Nat /\ Len(Batch) # 0
  BY <1>1
<1>3. ASSUME NEW i \in Calls PROVE i \in Nat /\ Batch[i] \in Ops
  BY <1>1, <1>2, <1>3 DEF Calls
<1> QED
  BY <1>2, <1>3

(* It holds before the first Run. *)
LEMMA InitIInv == Init => IInv
<1> SUFFICES ASSUME Init PROVE IInv
  OBVIOUS
<1>1. LedgerTypeOK
  BY OperationAssumption DEF Init, LedgerInit, LedgerTypeOK, NoRecord, NoApproval, Records,
     Approvals, RecordStates, ApprovalStates, Prints, MaxEffects
<1>2. DurableTypeOK
  <2>1. 0 \in 0..Len(Batch)
    BY BatchIsFinite
  <2> QED
    BY <2>1 DEF Init, DurableTypeOK, Observations, None, CheckpointStatuses
<1>3. LocalTypeOK
  BY DEF Init, LocalTypeOK, Points, Modes, Prints, Unset, Approvals, NoApproval, ApprovalStates,
     Observations, None
<1>4. CursorInBatch /\ ClaimantHasParent
  BY DEF Init, CursorInBatch, ClaimantHasParent, CallPoints
<1> QED
  BY <1>1, <1>2, <1>3, <1>4 DEF IInv

----------------------------------------------------------------------------
(* A process that ends keeps the types of its locals. *)
LEMMA EndLocals ==
  ASSUME IInv, NEW r \in Runs, End(r)
  PROVE  /\ LocalTypeOK'
         /\ pc' = [pc EXCEPT ![r] = "ended"]
         /\ parent' = parent
  BY DEF IInv, LocalTypeOK, End, Goto, Points, Modes, Prints, Approvals, NoApproval, ApprovalStates,
     Observations, None

----------------------------------------------------------------------------
(* The operation at the cursor. *)
LEMMA CurrentOperation ==
  ASSUME IInv, NEW r \in Runs, pc[r] \in CallPoints
  PROVE  Cursor(r) \in Calls /\ Op(r) \in Ops
  BY BatchIsFinite DEF IInv, CursorInBatch, Op

(* What an action is made of: a step to a point, a step that saves the      *)
(* checkpoint, an Observation at hand, a suspended Run, an exception.       *)
LEMMA StepKeeps ==
  ASSUME IInv, LedgerTypeOK', NEW r \in Runs, NEW point \in Points \ {"claimed"},
         point \in CallPoints => Cursor(r) \in Calls, Step(r, point)
  PROVE  IInv'
<1>1. DurableTypeOK' /\ LocalTypeOK'
  BY DEF IInv, DurableTypeOK, LocalTypeOK, Step, Goto, KeepLocals, durableVars
<1>2. CursorInBatch' /\ ClaimantHasParent'
  BY DEF IInv, LocalTypeOK, CursorInBatch, ClaimantHasParent, Step, Goto, KeepLocals, durableVars, Cursor
<1> QED
  BY <1>1, <1>2 DEF IInv

(* A step that saves a checkpoint whose pointer stays within the batch. *)
LEMMA SaveKeeps ==
  ASSUME IInv, LedgerTypeOK', NEW r \in Runs, NEW point \in Points \ {"claimed"},
         NEW status \in CheckpointStatuses, NEW next \in 0..Len(Batch),
         point \in CallPoints => next \in Calls,
         Save(r, status, next), Goto(r, point), KeepFiles, LocalTypeOK', parent' = parent
  PROVE  IInv'
<1>1. DurableTypeOK'
  BY DEF IInv, DurableTypeOK, Save, KeepFiles
<1>2. CursorInBatch' /\ ClaimantHasParent'
  BY DEF IInv, DurableTypeOK, LocalTypeOK, CursorInBatch, ClaimantHasParent, Save, Goto, Cursor
<1> QED
  BY <1>1, <1>2 DEF IInv

(* An Observation is at hand for the call of the cursor. *)
LEMMA AnswerKeeps ==
  ASSUME IInv, NEW r \in Runs, NEW observation \in Observations, NEW next \in Modes,
         Cursor(r) \in Calls, Answer(r, observation, next)
  PROVE  IInv'
<1>1. LedgerTypeOK' /\ DurableTypeOK' /\ LocalTypeOK'
  BY DEF IInv, LedgerTypeOK, DurableTypeOK, LocalTypeOK, Answer, Goto, Points, durableVars, ledgerVars
<1>2. CursorInBatch' /\ ClaimantHasParent'
  BY DEF IInv, LocalTypeOK, CursorInBatch, ClaimantHasParent, Answer, Goto, durableVars, Cursor
<1> QED
  BY <1>1, <1>2 DEF IInv

(* The Run stops waiting or paused. *)
LEMMA SuspendKeeps ==
  ASSUME IInv, LedgerTypeOK', NEW r \in Runs, Suspend(r)
  PROVE  IInv'
<1>1. LocalTypeOK' /\ parent' = parent /\ Goto(r, "ended")
  BY EndLocals DEF Suspend, Goto
<1>2. Cursor(r) \in 0..Len(Batch)
  BY DEF IInv, DurableTypeOK, Cursor
<1> QED
  BY <1>1, <1>2, SaveKeeps DEF Suspend, SaveStatus, Points, CallPoints, CheckpointStatuses

(* The process ends, and its checkpoint is at most given another status. *)
LEMMA EndKeeps ==
  ASSUME IInv, LedgerTypeOK', DurableTypeOK', NEW r \in Runs, End(r),
         \A s \in Runs : Cursor(s)' = Cursor(s)
  PROVE  IInv'
<1>1. LocalTypeOK' /\ pc' = [pc EXCEPT ![r] = "ended"] /\ parent' = parent
  BY EndLocals
<1>2. CursorInBatch' /\ ClaimantHasParent'
  BY <1>1 DEF IInv, LocalTypeOK, CursorInBatch, ClaimantHasParent, CallPoints
<1> QED
  BY <1>1, <1>2 DEF IInv

(* An exception or a crash. *)
LEMMA RaiseKeeps ==
  ASSUME IInv, NEW r \in Runs, Raise(r)
  PROVE  IInv'
<1>1. LedgerTypeOK' /\ DurableTypeOK' /\ \A s \in Runs : Cursor(s)' = Cursor(s)
  BY DEF IInv, LedgerTypeOK, DurableTypeOK, Raise, durableVars, ledgerVars, Cursor
<1> QED
  BY <1>1, EndKeeps DEF Raise

----------------------------------------------------------------------------
(* A Run that opens, claims or resumes the Turn. *)
LEMMA OpeningStep ==
  ASSUME IInv, NEW r \in Runs, Begin(r) \/ Resume(r) \/ Restore(r) \/ ResumePending(r)
  PROVE  IInv'
<1>1. CASE Begin(r)
  <2>1. LedgerTypeOK'
    BY <1>1 DEF Begin, IInv, LedgerTypeOK, ledgerVars
  <2>2. DurableTypeOK'
    BY <1>1, BatchIsFinite DEF Begin, IInv, DurableTypeOK, Save, CheckpointStatuses
  <2>3. LocalTypeOK'
    BY <1>1 DEF Begin, IInv, LocalTypeOK, Goto, KeepLocals, Points
  <2>4. CursorInBatch' /\ ClaimantHasParent'
    BY <1>1 DEF Begin, IInv, LocalTypeOK, DurableTypeOK, CursorInBatch, ClaimantHasParent, Goto, KeepLocals, Save,
       Cursor, CallPoints
  <2> QED
    BY <2>1, <2>2, <2>3, <2>4 DEF IInv
<1>2. CASE Resume(r)
  <2>1. LedgerTypeOK'
    BY <1>2 DEF Resume, IInv, LedgerTypeOK, ledgerVars
  <2>2. DurableTypeOK'
    BY <1>2, BatchIsFinite DEF Resume, IInv, DurableTypeOK, Save, CheckpointStatuses
  <2>3. LocalTypeOK'
    BY <1>2 DEF Resume, IInv, LocalTypeOK, DurableTypeOK, Goto, Points
  <2>4. CursorInBatch' /\ ClaimantHasParent'
    BY <1>2 DEF Resume, IInv, LocalTypeOK, DurableTypeOK, CursorInBatch, ClaimantHasParent, Goto, Save, Cursor,
       CallPoints
  <2> QED
    BY <2>1, <2>2, <2>3, <2>4 DEF IInv
<1>3. CASE Restore(r)
  <2>1. LedgerTypeOK'
    BY <1>3 DEF Restore, IInv, LedgerTypeOK, ledgerVars
  <2>2. DurableTypeOK'
    BY <1>3, BatchIsFinite DEF Restore, IInv, DurableTypeOK, ClaimantHasParent, KeepFiles, Save,
       CheckpointStatuses
  <2>3. LocalTypeOK'
    BY <1>3, EndLocals DEF Restore, IInv, LocalTypeOK, Goto, KeepLocals, Points
  <2>4. CursorInBatch' /\ ClaimantHasParent'
    BY <1>3 DEF Restore, IInv, LocalTypeOK, DurableTypeOK, CursorInBatch, ClaimantHasParent, Goto, KeepLocals, End,
       Save, Cursor, CallPoints
  <2> QED
    BY <2>1, <2>2, <2>3, <2>4 DEF IInv
<1>4. CASE ResumePending(r)
  <2>1. LedgerTypeOK'
    BY <1>4 DEF ResumePending, IInv, LedgerTypeOK, ledgerVars
  <2>2. DurableTypeOK'
    <3>1. \A i \in Missing : i \in 0..Len(Batch)
      BY BatchIsFinite DEF Missing, Calls
    <3>2. ckpt' = ckpt \/ \E i \in Missing : Save(r, "running", i)
      BY <1>4 DEF ResumePending
    <3>3. ckpt' \in [Runs -> [status : CheckpointStatuses, next : 0..Len(Batch)]]
      BY <3>1, <3>2 DEF IInv, DurableTypeOK, Save, CheckpointStatuses
    <3> QED
      BY <1>4, <3>3 DEF ResumePending, IInv, DurableTypeOK, KeepFiles
  <2>3. LocalTypeOK'
    BY <1>4 DEF ResumePending, IInv, LocalTypeOK, Goto, KeepLocals, Points
  <2>4. CursorInBatch' /\ ClaimantHasParent'
    BY <1>4 DEF ResumePending, IInv, LocalTypeOK, DurableTypeOK, CursorInBatch, ClaimantHasParent, Goto, KeepLocals,
       Save, Cursor, CallPoints
  <2> QED
    BY <2>1, <2>2, <2>3, <2>4 DEF IInv
<1> QED
  BY <1>1, <1>2, <1>3, <1>4

(* A model step, and the ways a Run leaves the Turn. *)
LEMMA ModelStep ==
  ASSUME IInv, NEW r \in Runs, Propose(r) \/ PointToBatch(r) \/ Complete(r) \/ Finish(r)
  PROVE  IInv'
<1>1. CASE Propose(r)
  <2>1. CASE Owns(r)
    <3>1. LedgerTypeOK' /\ DurableTypeOK' /\ LocalTypeOK'
      BY <1>1, <2>1 DEF Propose, IInv, LedgerTypeOK, DurableTypeOK, LocalTypeOK, Goto, KeepLocals, Points,
         ledgerVars
    <3>2. CursorInBatch' /\ ClaimantHasParent'
      BY <1>1, <2>1 DEF Propose, IInv, LocalTypeOK, CursorInBatch, ClaimantHasParent, Goto, KeepLocals,
         CallPoints, Cursor
    <3> QED
      BY <3>1, <3>2 DEF IInv
  <2> QED
    BY <1>1, <2>1, RaiseKeeps DEF Propose
<1>2. CASE PointToBatch(r)
  <2>1. 1 \in 0..Len(Batch)
    BY BatchIsFinite
  <2>2. LedgerTypeOK' /\ LocalTypeOK' /\ parent' = parent
    BY <1>2 DEF PointToBatch, IInv, LedgerTypeOK, LocalTypeOK, Goto, KeepLocals, Points, ledgerVars
  <2> QED
    BY <1>2, <2>1, <2>2, SaveKeeps DEF PointToBatch, Points, CallPoints, CheckpointStatuses
<1>3. CASE Complete(r) \/ Finish(r)
  <2>1. /\ LedgerTypeOK' /\ End(r) /\ UNCHANGED <<batch, obs, owner>>
        /\ \/ UNCHANGED <<open, ckpt>>
           \/ open' = FALSE /\ \E status \in {"completed", "blocked"} : SaveStatus(r, status)
    BY <1>3 DEF Complete, Finish, SaveStatus, IInv, LedgerTypeOK, ledgerVars
  <2>2. /\ DurableTypeOK'
        /\ \A s \in Runs : Cursor(s)' = Cursor(s)
    <3>1. CASE UNCHANGED <<open, ckpt>>
      BY <2>1, <3>1 DEF IInv, DurableTypeOK, Cursor
    <3>2. ASSUME open' = FALSE, NEW status \in {"completed", "blocked"}, SaveStatus(r, status)
          PROVE  DurableTypeOK' /\ \A s \in Runs : Cursor(s)' = Cursor(s)
      <4>1. ckpt' = [ckpt EXCEPT ![r] = [status |-> status, next |-> ckpt[r].next]]
        BY <3>2 DEF SaveStatus, Save, Cursor
      <4>2. status \in CheckpointStatuses
        BY DEF CheckpointStatuses
      <4>3. ckpt' \in [Runs -> [status : CheckpointStatuses, next : 0..Len(Batch)]]
        BY <4>1, <4>2 DEF IInv, DurableTypeOK
      <4>4. \A s \in Runs : Cursor(s)' = Cursor(s)
        BY <4>1 DEF IInv, DurableTypeOK, Cursor
      <4> QED
        BY <2>1, <3>2, <4>3, <4>4 DEF IInv, DurableTypeOK
    <3> QED
      BY <2>1, <3>1, <3>2
  <2> QED
    BY <2>1, <2>2, EndKeeps
<1> QED
  BY <1>1, <1>2, <1>3

(* The loop over the calls of the batch. *)
LEMMA LoopStep ==
  ASSUME IInv, NEW r \in Runs,
         LeaveBatch(r) \/ PassAnswered(r) \/ CloseUnexecuted(r) \/ TakeCall(r) \/ ControlSignal(r)
  PROVE  IInv'
<1>1. Cursor(r) # 0 => Cursor(r) \in Calls
  BY BatchIsFinite DEF IInv, DurableTypeOK, Cursor, Calls
<1>2. CASE LeaveBatch(r)
  <2>1. LedgerTypeOK' /\ DurableTypeOK' /\ LocalTypeOK'
    BY <1>2 DEF LeaveBatch, IInv, LedgerTypeOK, DurableTypeOK, LocalTypeOK, Goto, Points, Modes,
       ledgerVars, durableVars
  <2>2. CursorInBatch' /\ ClaimantHasParent'
    BY <1>2 DEF LeaveBatch, IInv, LocalTypeOK, CursorInBatch, ClaimantHasParent, Goto, CallPoints,
       durableVars, Cursor
  <2> QED
    BY <2>1, <2>2 DEF IInv
<1>3. CASE PassAnswered(r)
  <2>1. LedgerTypeOK'
    BY <1>3 DEF PassAnswered, IInv, LedgerTypeOK, ledgerVars
  <2> QED
    BY <1>1, <1>3, <2>1, StepKeeps DEF PassAnswered, Answered, Points
<1>4. CASE CloseUnexecuted(r)
  <2>1. \E observation \in Observations, next \in Modes : Answer(r, observation, next)
    BY <1>4 DEF CloseUnexecuted, Observations, Modes
  <2> QED
    BY <1>1, <1>4, <2>1, AnswerKeeps DEF CloseUnexecuted
<1>5. CASE TakeCall(r)
  <2>1. Cursor(r) \in Calls /\ Op(r) \in Ops
    BY <1>5, BatchAssumption, BatchIsFinite DEF TakeCall, Op
  <2>2. Fingerprint(Op(r)) \in Prints
    BY DEF Fingerprint, Prints, IInv, LedgerTypeOK
  <2>3. LedgerTypeOK' /\ DurableTypeOK' /\ LocalTypeOK'
    BY <1>5, <2>2 DEF TakeCall, IInv, LedgerTypeOK, DurableTypeOK, LocalTypeOK, Goto, Points, ledgerVars,
       durableVars
  <2>4. CursorInBatch' /\ ClaimantHasParent'
    BY <1>5, <2>1 DEF TakeCall, IInv, LocalTypeOK, CursorInBatch, ClaimantHasParent, Goto, durableVars,
       Cursor
  <2> QED
    BY <2>3, <2>4 DEF IInv
<1>6. CASE ControlSignal(r)
  <2>1. Cursor(r) \in Calls
    BY <1>6, BatchAssumption DEF ControlSignal, IInv, CursorInBatch, CallPoints
  <2>2. CASE Answer(r, "unexecuted", "stop")
    BY <2>1, <2>2, AnswerKeeps DEF Observations, Modes
  <2>3. CASE Suspend(r) /\ UNCHANGED ledgerVars
    <3>1. LedgerTypeOK'
      BY <2>3 DEF IInv, LedgerTypeOK, ledgerVars
    <3> QED
      BY <2>3, <3>1, SuspendKeeps
  <2> QED
    BY <1>6, <2>2, <2>3 DEF ControlSignal
<1> QED
  BY <1>2, <1>3, <1>4, <1>5, <1>6

(* A known result is replayed, a denied call answered, the rest authorized. *)
LEMMA ResolveStep ==
  ASSUME IInv, NEW r \in Runs, Resolve(r)
  PROVE  IInv'
<1>1. Cursor(r) \in Calls
  BY CurrentOperation DEF Resolve, CallPoints
<1>2. \/ \E observation \in Observations, next \in Modes : Answer(r, observation, next)
      \/ \E point \in {"plan", "control"} : Step(r, point) /\ UNCHANGED ledgerVars
  BY DEF Resolve, Observations, Modes
<1>3. ASSUME NEW point \in {"plan", "control"}, Step(r, point), UNCHANGED ledgerVars PROVE IInv'
  <2>1. LedgerTypeOK'
    BY <1>3 DEF IInv, LedgerTypeOK, ledgerVars
  <2> QED
    BY <1>1, <1>3, <2>1, StepKeeps DEF Points
<1> QED
  BY <1>1, <1>2, <1>3, AnswerKeeps

----------------------------------------------------------------------------
(* What the repositories write are records. *)
LEMMA RecordsOfLedger ==
  ASSUME LedgerTypeOK, NEW op \in Ops, NEW r \in Runs, NEW print_ \in Prints,
         NEW status \in RecordStates
  PROVE  /\ Planned(op, status, r, print_) \in [Ops -> Records]
         /\ Moved(op, status, r) \in [Ops -> Records]
         /\ Pending(op, r, print_) \in [Ops -> Records]
         /\ Finished(op, r, status) \in [Ops -> Records]
         /\ Requested(op, print_) \in [Ops -> Approvals]
<1>1. Planned(op, status, r, print_) \in [Ops -> Records]
  BY DEF Planned, LedgerTypeOK, Records, Prints
<1>2. \A st \in RecordStates : Moved(op, st, r) \in [Ops -> Records]
  BY DEF Moved, LedgerTypeOK, Records
<1>3. Pending(op, r, print_) \in [Ops -> Records]
  <2>1. Moved(op, "pending", r) \in [Ops -> Records]
    BY <1>2 DEF RecordStates
  <2> QED
    BY <2>1 DEF Pending, Records
<1>4. Finished(op, r, status) \in [Ops -> Records]
  <2>1. Fingerprint(op) \in Prints
    BY DEF Fingerprint, LedgerTypeOK, Prints
  <2> QED
    BY <1>2, <2>1 DEF Finished, Records
<1>5. Requested(op, print_) \in [Ops -> Approvals]
  BY DEF Requested, LedgerTypeOK, Approvals, ApprovalStates
<1> QED
  BY <1>1, <1>2, <1>3, <1>4, <1>5

(* The human decision about a call. *)
LEMMA GovernStep ==
  ASSUME IInv, NEW r \in Runs, Govern(r)
  PROVE  IInv'
<1>1. Cursor(r) \in Calls /\ Op(r) \in Ops
  BY CurrentOperation DEF Govern, Plan, ReadApproval, RequestApproval, RecordPending, AwaitApproval, Approve,
     RevokeApproval, StayWaiting, Reject, Permit, CallPoints
<1>2. print[r] \in Prints /\ LedgerTypeOK
  BY DEF IInv, LocalTypeOK
<1>3. CASE Plan(r)
  <2>1. LedgerTypeOK'
    BY <1>1, <1>2, <1>3, RecordsOfLedger DEF Plan, LedgerTypeOK, RecordStates
  <2> QED
    BY <1>1, <1>3, <2>1, StepKeeps DEF Plan, Points
<1>4. CASE ReadApproval(r)
  <2>1. LedgerTypeOK' /\ DurableTypeOK' /\ LocalTypeOK'
    BY <1>1, <1>4 DEF ReadApproval, IInv, LedgerTypeOK, DurableTypeOK, LocalTypeOK, Goto, Points, ledgerVars,
       durableVars
  <2>2. CursorInBatch' /\ ClaimantHasParent'
    BY <1>1, <1>4 DEF ReadApproval, IInv, LocalTypeOK, CursorInBatch, ClaimantHasParent, Goto, durableVars,
       Cursor
  <2> QED
    BY <2>1, <2>2 DEF IInv
<1>5. CASE RequestApproval(r)
  <2>1. LedgerTypeOK'
    BY <1>1, <1>2, <1>5, RecordsOfLedger DEF RequestApproval, LedgerTypeOK, RecordStates
  <2>2. DurableTypeOK' /\ LocalTypeOK'
    BY <1>1, <1>5, <2>1 DEF RequestApproval, IInv, LedgerTypeOK, DurableTypeOK, LocalTypeOK, Goto, Points,
       durableVars
  <2>3. CursorInBatch' /\ ClaimantHasParent'
    BY <1>1, <1>5 DEF RequestApproval, IInv, LocalTypeOK, CursorInBatch, ClaimantHasParent, Goto, durableVars,
       Cursor
  <2> QED
    BY <2>1, <2>2, <2>3 DEF IInv
<1>6. CASE RecordPending(r)
  <2>1. CASE CanReopen(Op(r))
    <3>1. LedgerTypeOK'
      BY <1>1, <1>2, <1>6, <2>1, RecordsOfLedger DEF RecordPending, LedgerTypeOK, RecordStates
    <3> QED
      BY <1>1, <1>6, <2>1, <3>1, StepKeeps DEF RecordPending, Points
  <2> QED
    BY <1>6, <2>1, RaiseKeeps DEF RecordPending
<1>7. CASE AwaitApproval(r) \/ Permit(r)
  <2>1. LedgerTypeOK' /\ LocalTypeOK' /\ parent' = parent
    BY <1>7 DEF AwaitApproval, Permit, IInv, LedgerTypeOK, LocalTypeOK, Goto, KeepLocals, Points, ledgerVars
  <2>2. Cursor(r) \in 0..Len(Batch)
    BY DEF IInv, DurableTypeOK, Cursor
  <2> QED
    BY <1>1, <1>7, <2>1, <2>2, SaveKeeps DEF AwaitApproval, Permit, SaveStatus, Points, CheckpointStatuses
<1>8. CASE Approve(r)
  <2>1. CASE CanReopen(Op(r)) \/ Op(r) \notin Tracked
    <3>1. LedgerTypeOK'
      BY <1>1, <1>2, <1>8, <2>1, RecordsOfLedger DEF Approve, LedgerTypeOK, RecordStates
    <3> QED
      BY <1>1, <1>8, <2>1, <3>1, StepKeeps DEF Approve, Points
  <2> QED
    BY <1>8, <2>1, RaiseKeeps DEF Approve
<1>9. CASE RevokeApproval(r)
  <2>1. CASE CanMarkStale(Op(r))
    <3>1. LedgerTypeOK'
      BY <1>1, <1>2, <1>9, <2>1 DEF RevokeApproval, LedgerTypeOK, Approvals, ApprovalStates
    <3> QED
      BY <1>9, <2>1, <3>1, SuspendKeeps DEF RevokeApproval
  <2> QED
    BY <1>9, <2>1, RaiseKeeps DEF RevokeApproval
<1>10. CASE StayWaiting(r)
  <2>1. LedgerTypeOK'
    BY <1>2, <1>10 DEF StayWaiting, LedgerTypeOK, ledgerVars
  <2> QED
    BY <1>10, <2>1, SuspendKeeps DEF StayWaiting
<1>11. CASE Reject(r)
  BY <1>1, <1>11, AnswerKeeps DEF Reject, Observations, Modes
<1> QED
  BY <1>3, <1>4, <1>5, <1>6, <1>7, <1>8, <1>9, <1>10, <1>11 DEF Govern

(* The execution claim, the tool, its result. *)
LEMMA RunToolStep ==
  ASSUME IInv, NEW r \in Runs, RunTool(r)
  PROVE  IInv'
<1>1. Cursor(r) \in Calls /\ Op(r) \in Ops
  BY CurrentOperation DEF RunTool, EnsureApproved, ClaimExecution, Execute, RecordResult, CallPoints
<1>2. print[r] \in Prints /\ LedgerTypeOK
  BY DEF IInv, LocalTypeOK
<1>3. CASE EnsureApproved(r)
  <2>1. LedgerTypeOK'
    BY <1>1, <1>2, <1>3, RecordsOfLedger DEF EnsureApproved, LedgerTypeOK, RecordStates
  <2> QED
    BY <1>1, <1>3, <2>1, StepKeeps DEF EnsureApproved, Points
<1>4. CASE ClaimExecution(r)
  <2>1. CASE CanExecute(Op(r))
    <3>1. LedgerTypeOK'
      BY <1>1, <1>2, <1>4, <2>1, RecordsOfLedger DEF ClaimExecution, LedgerTypeOK, RecordStates
    <3> QED
      BY <1>1, <1>4, <2>1, <3>1, StepKeeps DEF ClaimExecution, Points
  <2> QED
    BY <1>4, <2>1, RaiseKeeps DEF ClaimExecution
<1>5. ASSUME NEW outcome \in Outcomes, Execute(r, outcome) PROVE IInv'
  <2>1. effects' \in [Ops -> 0..MaxEffects]
    <3> DEFINE op == Op(r)
    <3>1. effects' = effects \/ (effects[op] < MaxEffects /\ effects' = [effects EXCEPT ![op] = @ + 1])
      BY <1>5 DEF Execute
    <3>2. op \in Ops /\ effects \in [Ops -> 0..2]
      BY <1>1, <1>2 DEF LedgerTypeOK, MaxEffects
    <3> HIDE DEF op
    <3>3. effects[op] < 2 => effects[op] + 1 \in 0..2
      BY <3>2
    <3> QED
      BY <3>1, <3>2, <3>3 DEF MaxEffects
  <2>2. file' \in Contents
    <3>1. file' \in {file, Written[Op(r)]} \cup Contents
      BY <1>5 DEF Execute
    <3>2. Written[Op(r)] \in Contents /\ file \in Contents
      BY <1>1, <1>2, OperationAssumption DEF LedgerTypeOK
    <3> QED
      BY <3>1, <3>2
  <2>3. LedgerTypeOK'
    BY <1>2, <1>5, <2>1, <2>2 DEF Execute, LedgerTypeOK
  <2>4. DurableTypeOK' /\ LocalTypeOK'
    BY <1>5 DEF Execute, IInv, DurableTypeOK, LocalTypeOK, Goto, Points, Modes, Observations, durableVars
  <2>5. CursorInBatch' /\ ClaimantHasParent'
    BY <1>1, <1>5 DEF Execute, IInv, LocalTypeOK, CursorInBatch, ClaimantHasParent, Goto, durableVars, Cursor
  <2> QED
    BY <2>3, <2>4, <2>5 DEF IInv
<1>6. CASE RecordResult(r)
  <2>1. CASE CanFinish(Op(r), r)
    <3>1. LedgerTypeOK'
      BY <1>1, <1>2, <1>6, <2>1, RecordsOfLedger DEF RecordResult, LedgerTypeOK, RecordStates
    <3> QED
      BY <1>1, <1>6, <2>1, <3>1, StepKeeps DEF RecordResult, Points
  <2> QED
    BY <1>6, <2>1, RaiseKeeps DEF RecordResult
<1> QED
  BY <1>3, <1>4, <1>5, <1>6 DEF RunTool

(* The Observation becomes durable and the cursor moves on. *)
LEMMA ObserveStep ==
  ASSUME IInv, NEW r \in Runs, Observe(r) \/ SaveDenied(r) \/ Advance(r)
  PROVE  IInv'
<1>1. Cursor(r) \in Calls
  BY CurrentOperation DEF Observe, SaveDenied, Advance, CallPoints
<1>2. CASE Observe(r)
  <2>1. CASE Owns(r) /\ obs[Cursor(r)] = None
    <3>1. LedgerTypeOK' /\ DurableTypeOK' /\ LocalTypeOK'
      BY <1>2, <2>1 DEF Observe, IInv, LedgerTypeOK, DurableTypeOK, LocalTypeOK, Goto, KeepLocals, Points,
         ledgerVars
    <3>2. CursorInBatch' /\ ClaimantHasParent'
      BY <1>1, <1>2, <2>1 DEF Observe, IInv, LocalTypeOK, CursorInBatch, ClaimantHasParent, Goto, KeepLocals,
         Cursor
    <3> QED
      BY <3>1, <3>2 DEF IInv
  <2>2. CASE ~(Owns(r) /\ obs[Cursor(r)] = None)
    BY <1>2, <2>2, RaiseKeeps DEF Observe, Raise
  <2> QED
    BY <2>1, <2>2
<1>3. CASE SaveDenied(r)
  <2>1. LedgerTypeOK' /\ LocalTypeOK' /\ parent' = parent
    BY <1>3 DEF SaveDenied, IInv, LedgerTypeOK, LocalTypeOK, Goto, KeepLocals, Points, ledgerVars
  <2>2. Cursor(r) \in 0..Len(Batch)
    BY DEF IInv, DurableTypeOK, Cursor
  <2> QED
    BY <1>1, <1>3, <2>1, <2>2, SaveKeeps DEF SaveDenied, SaveStatus, Points, CheckpointStatuses
<1>4. CASE Advance(r)
  <2> DEFINE next == IF Cursor(r) = Len(Batch) THEN 0 ELSE Cursor(r) + 1
  <2>1. next \in 0..Len(Batch)
    BY <1>1, BatchIsFinite DEF Calls
  <2>2. LedgerTypeOK' /\ LocalTypeOK' /\ parent' = parent
    BY <1>4 DEF Advance, IInv, LedgerTypeOK, LocalTypeOK, Goto, Points, Prints, Approvals, NoApproval,
       ApprovalStates, Observations, ledgerVars
  <2>3. Save(r, "running", next) /\ Goto(r, "call") /\ KeepFiles
    BY <1>4 DEF Advance
  <2> HIDE DEF next
  <2> QED
    BY <2>1, <2>2, <2>3, SaveKeeps DEF Points, CallPoints, CheckpointStatuses
<1> QED
  BY <1>2, <1>3, <1>4

(* The operator decides, or the file changes. *)
LEMMA EnvironmentStep ==
  ASSUME IInv, Environment
  PROVE  IInv'
<1>1. LedgerTypeOK'
  BY DEF Environment, Decide, Drift, IInv, LedgerTypeOK, Approvals, ApprovalStates
<1>2. DurableTypeOK' /\ LocalTypeOK'
  BY DEF Environment, IInv, DurableTypeOK, LocalTypeOK, durableVars, localVars
<1>3. CursorInBatch' /\ ClaimantHasParent'
  BY DEF Environment, IInv, CursorInBatch, ClaimantHasParent, durableVars, localVars, Cursor
<1> QED
  BY <1>1, <1>2, <1>3 DEF IInv

(* Every step the thread of a Run takes keeps the invariant. *)
LEMMA WorkIInv ==
  ASSUME IInv, NEW r \in Runs, Work(r)
  PROVE  IInv'
  BY OpeningStep, ModelStep, LoopStep, ResolveStep, GovernStep, RunToolStep, ObserveStep DEF Work

(* So does every step of the system. *)
LEMMA NextIInv == IInv /\ [Next]_vars => IInv'
<1> SUFFICES ASSUME IInv, [Next]_vars PROVE IInv'
  OBVIOUS
<1>1. ASSUME NEW r \in Runs, Begin(r) \/ Resume(r) PROVE IInv'
  BY <1>1, OpeningStep
<1>2. ASSUME NEW r \in Runs, Work(r) PROVE IInv'
  BY <1>2, WorkIInv
<1>3. ASSUME NEW r \in Runs, Crash(r) PROVE IInv'
  BY <1>3, RaiseKeeps DEF Crash
<1>4. CASE Environment
  BY <1>4, EnvironmentStep
<1>5. CASE UNCHANGED vars
  BY <1>5 DEF IInv, LedgerTypeOK, DurableTypeOK, LocalTypeOK, CursorInBatch, ClaimantHasParent, vars,
     ledgerVars, durableVars, localVars, Cursor
<1> QED
  BY <1>1, <1>2, <1>3, <1>4, <1>5 DEF Next

(* The invariant holds in every reachable state of the batch. *)
THEOREM InductiveInvariant == Spec => []IInv
<1> QED
  BY InitIInv, NextIInv, PTL DEF Spec

(* Every variable of the batch, the ledger and the processes has its type  *)
(* in every reachable state: cursors stay within the batch whatever is     *)
(* resumed, copied or advanced (tool_execution.py).                        *)
THEOREM TypeCorrect == Spec => []TypeOK
  BY InductiveInvariant, TypeIsInv, PTL

----------------------------------------------------------------------------
(* Most steps of a Run leave the ledger and the effects alone, do not take *)
(* it to the tool or to its result, and do not touch the other Runs.       *)
Others(r) ==
  \A s \in Runs \ {r} : pc'[s] = pc[s] /\ Cursor(s)' = Cursor(s) /\ result'[s] = result[s]

Quiet(r) ==
  /\ UNCHANGED <<ledger, effects>>
  /\ pc'[r] \notin {"gateway", "record"}
  /\ Others(r)

(* Exceptions, answers and suspensions are quiet. *)
LEMMA RaiseIsQuiet ==
  ASSUME IInv, NEW r \in Runs, Raise(r)
  PROVE  Quiet(r)
  BY DEF IInv, LocalTypeOK, Raise, End, Goto, Quiet, Others, durableVars, ledgerVars, Cursor

(* Holding an Observation changes no record. *)
LEMMA AnswerIsQuiet ==
  ASSUME IInv, NEW r \in Runs, NEW observation, NEW next, Answer(r, observation, next)
  PROVE  Quiet(r)
  BY DEF IInv, LocalTypeOK, Answer, Goto, Quiet, Others, durableVars, ledgerVars, Cursor

(* A Run that waits changes no record. *)
LEMMA SuspendIsQuiet ==
  ASSUME IInv, NEW r \in Runs, Suspend(r), UNCHANGED <<ledger, effects>>
  PROVE  Quiet(r)
  BY DEF IInv, LocalTypeOK, DurableTypeOK, Suspend, SaveStatus, Save, End, Goto, Quiet, Others, Cursor

(* A step to another point disturbs no other Run. *)
LEMMA StepIsLocal ==
  ASSUME IInv, NEW r \in Runs, NEW point, Step(r, point)
  PROVE  Others(r) /\ pc'[r] = point /\ Cursor(r)' = Cursor(r) /\ result' = result
  BY DEF IInv, LocalTypeOK, Step, Goto, KeepLocals, Others, durableVars, Cursor

(* Opening, resuming and proposing are quiet. *)
LEMMA OpeningIsQuiet ==
  ASSUME IInv, NEW r \in Runs,
         Begin(r) \/ Resume(r) \/ Restore(r) \/ ResumePending(r) \/ Propose(r) \/ PointToBatch(r)
  PROVE  Quiet(r)
<1>1. CASE Begin(r)
  BY <1>1 DEF IInv, LocalTypeOK, DurableTypeOK, Begin, Save, Goto, KeepLocals, Quiet, Others, ledgerVars, Cursor
<1>2. CASE Resume(r)
  BY <1>2 DEF IInv, LocalTypeOK, DurableTypeOK, Resume, Save, Goto, Quiet, Others, ledgerVars, Cursor
<1>3. CASE Restore(r)
  BY <1>3 DEF IInv, LocalTypeOK, DurableTypeOK, Restore, Save, Goto, KeepLocals, End, Quiet, Others, ledgerVars,
     Cursor
<1>4. CASE ResumePending(r)
  BY <1>4 DEF IInv, LocalTypeOK, DurableTypeOK, ResumePending, Save, Goto, KeepLocals, Quiet, Others, ledgerVars,
     Cursor
<1>5. CASE Propose(r)
  <2>1. CASE Owns(r)
    BY <1>5, <2>1 DEF IInv, LocalTypeOK, Propose, Goto, KeepLocals, Quiet, Others, ledgerVars, Cursor
  <2> QED
    BY <1>5, <2>1, RaiseIsQuiet DEF Propose
<1>6. CASE PointToBatch(r)
  BY <1>6 DEF IInv, LocalTypeOK, DurableTypeOK, PointToBatch, Save, Goto, KeepLocals, Quiet, Others, ledgerVars,
     Cursor
<1> QED
  BY <1>1, <1>2, <1>3, <1>4, <1>5, <1>6

(* So are the loop over the calls and the lookup of known results. *)
LEMMA LoopIsQuiet ==
  ASSUME IInv, NEW r \in Runs,
         \/ Complete(r) \/ Finish(r) \/ LeaveBatch(r) \/ PassAnswered(r) \/ CloseUnexecuted(r)
         \/ TakeCall(r) \/ ControlSignal(r) \/ Resolve(r)
  PROVE  Quiet(r)
<1>1. CASE Complete(r) \/ Finish(r)
  <2>1. ckpt' = ckpt \/ \E status \in {"completed", "blocked"} : Save(r, status, Cursor(r))
    BY <1>1 DEF Complete, Finish, SaveStatus
  <2>2. \A s \in Runs \ {r} : Cursor(s)' = Cursor(s)
    BY <2>1 DEF IInv, DurableTypeOK, Save, Cursor
  <2>3. UNCHANGED <<ledger, effects>> /\ End(r)
    BY <1>1 DEF Complete, Finish, ledgerVars
  <2> QED
    BY <2>2, <2>3 DEF IInv, LocalTypeOK, End, Goto, Quiet, Others
<1>2. CASE LeaveBatch(r)
  BY <1>2 DEF IInv, LocalTypeOK, LeaveBatch, Goto, Quiet, Others, durableVars, ledgerVars, Cursor
<1>3. CASE PassAnswered(r)
  BY <1>3, StepIsLocal DEF PassAnswered, Quiet, ledgerVars
<1>4. CASE CloseUnexecuted(r)
  BY <1>4, AnswerIsQuiet DEF CloseUnexecuted
<1>5. CASE TakeCall(r)
  BY <1>5 DEF IInv, LocalTypeOK, TakeCall, Goto, Quiet, Others, durableVars, ledgerVars, Cursor
<1>6. CASE ControlSignal(r)
  BY <1>6, AnswerIsQuiet, SuspendIsQuiet DEF ControlSignal, ledgerVars
<1>7. CASE Resolve(r)
  <2>1. \/ \E observation \in Observations, next \in Modes : Answer(r, observation, next)
        \/ \E point \in {"plan", "control"} : Step(r, point) /\ UNCHANGED ledgerVars
    BY <1>7 DEF Resolve, Observations, Modes
  <2>2. ASSUME NEW point \in {"plan", "control"}, Step(r, point), UNCHANGED ledgerVars PROVE Quiet(r)
    BY <2>2, StepIsLocal DEF Quiet, ledgerVars
  <2> QED
    BY <2>1, <2>2, AnswerIsQuiet
<1> QED
  BY <1>1, <1>2, <1>3, <1>4, <1>5, <1>6, <1>7

(* So are the approval files, the Observation and the cursor. *)
LEMMA ClosingIsQuiet ==
  ASSUME IInv, NEW r \in Runs,
         \/ ReadApproval(r) \/ RequestApproval(r) \/ AwaitApproval(r) \/ RevokeApproval(r)
         \/ StayWaiting(r) \/ Reject(r) \/ Permit(r) \/ Observe(r) \/ SaveDenied(r) \/ Advance(r)
  PROVE  Quiet(r)
<1>1. CASE ReadApproval(r) \/ RequestApproval(r)
  BY <1>1 DEF IInv, LocalTypeOK, ReadApproval, RequestApproval, Goto, Quiet, Others, durableVars, ledgerVars,
     Cursor
<1>2. CASE AwaitApproval(r) \/ Permit(r) \/ SaveDenied(r)
  BY <1>2 DEF IInv, LocalTypeOK, DurableTypeOK, AwaitApproval, Permit, SaveDenied, SaveStatus, Save, Goto,
     KeepLocals, Quiet, Others, ledgerVars, Cursor
<1>3. CASE RevokeApproval(r)
  BY <1>3, SuspendIsQuiet, RaiseIsQuiet DEF RevokeApproval
<1>4. CASE StayWaiting(r)
  BY <1>4, SuspendIsQuiet DEF StayWaiting, ledgerVars
<1>5. CASE Reject(r)
  BY <1>5, AnswerIsQuiet DEF Reject
<1>6. CASE Observe(r)
  <2>1. UNCHANGED <<ckpt, ledger, effects>>
    BY <1>6 DEF Observe, durableVars, ledgerVars
  <2> QED
    BY <1>6, <2>1 DEF IInv, LocalTypeOK, Observe, End, Goto, KeepLocals, Quiet, Others, Cursor
<1>7. CASE Advance(r)
  BY <1>7 DEF IInv, LocalTypeOK, DurableTypeOK, Advance, Save, Goto, Quiet, Others, ledgerVars, Cursor
<1> QED
  BY <1>1, <1>2, <1>3, <1>4, <1>5, <1>6, <1>7

----------------------------------------------------------------------------
(* What a write of the ledger changes: one record, and its status.         *)
LEMMA OneRecordChanges ==
  ASSUME LedgerTypeOK, NEW op \in Ops, NEW r \in Runs, NEW print_, NEW status, NEW other \in Ops
  PROVE  /\ Planned(op, status, r, print_)[other] # ledger[other]
              => other = op /\ ledger[op].status = "none"
                 /\ Planned(op, status, r, print_)[other].status = status
         /\ Moved(op, status, r)[other] # ledger[other] => other = op
         /\ Moved(op, status, r)[op].status = status /\ Moved(op, status, r)[op].run = r
         /\ Pending(op, r, print_)[other] # ledger[other] => other = op
         /\ Pending(op, r, print_)[op].status = "pending"
         /\ Finished(op, r, status)[other] # ledger[other] => other = op
         /\ Finished(op, r, status)[op].status = status
<1>1. ASSUME NEW st
      PROVE  /\ Moved(op, st, r)[other] # ledger[other] => other = op
             /\ Moved(op, st, r)[op].status = st /\ Moved(op, st, r)[op].run = r
             /\ DOMAIN Moved(op, st, r) = Ops
  BY DEF Moved, LedgerTypeOK, Records
<1>2. /\ Planned(op, status, r, print_)[other] # ledger[other]
           => other = op /\ ledger[op].status = "none"
              /\ Planned(op, status, r, print_)[other].status = status
  BY DEF Planned, LedgerTypeOK
<1>3. /\ Pending(op, r, print_)[other] # ledger[other] => other = op
      /\ Pending(op, r, print_)[op].status = "pending"
  BY DEF Pending, Moved, LedgerTypeOK, Records
<1>4. /\ Finished(op, r, status)[other] # ledger[other] => other = op
      /\ Finished(op, r, status)[op].status = status
  BY DEF Finished, Moved, LedgerTypeOK, Records
<1> QED
  BY <1>1, <1>2, <1>3, <1>4

(* Planning and authorizing change only a record nobody executes or has    *)
(* executed, and take the Run to the tool only when it has no record.      *)
Reopens(r) ==
  /\ effects' = effects
  /\ \A op \in Ops : ledger'[op] # ledger[op] =>
       CanReopen(op) /\ ledger'[op].status \notin {"executing", "executed"}
  /\ pc'[r] # "record" /\ (pc'[r] = "gateway" => Op(r)' \notin Tracked)
  /\ Others(r)

(* Planning, pending, approval and the direct permission do no more. *)
LEMMA AuthorizationReopens ==
  ASSUME IInv, NEW r \in Runs, Plan(r) \/ RecordPending(r) \/ Approve(r) \/ EnsureApproved(r)
  PROVE  Quiet(r) \/ Reopens(r)
<1>1. Op(r) \in Ops
  BY CurrentOperation DEF Plan, RecordPending, Approve, EnsureApproved, CallPoints
<1>2. CASE Plan(r)
  <2>1. effects' = effects /\ Others(r) /\ pc'[r] = "approval"
    BY <1>2, StepIsLocal DEF Plan
  <2>2. \A op \in Ops : ledger'[op] # ledger[op] =>
          ledger[op].status = "none" /\ ledger'[op].status = "planned"
    BY <1>1, <1>2, OneRecordChanges DEF Plan, IInv
  <2> QED
    BY <2>1, <2>2 DEF Reopens, CanReopen
<1>3. CASE RecordPending(r)
  <2>1. CASE CanReopen(Op(r))
    <3>1. effects' = effects /\ Others(r) /\ pc'[r] = "wait"
      BY <1>3, <2>1, StepIsLocal DEF RecordPending
    <3>2. \A op \in Ops : ledger'[op] # ledger[op] => op = Op(r) /\ ledger'[op].status = "pending"
      BY <1>1, <1>3, <2>1, OneRecordChanges DEF RecordPending, IInv
    <3> QED
      BY <2>1, <3>1, <3>2 DEF Reopens
  <2> QED
    BY <1>3, <2>1, RaiseIsQuiet DEF RecordPending
<1>4. CASE Approve(r)
  <2>1. CASE CanReopen(Op(r)) \/ Op(r) \notin Tracked
    <3>1. effects' = effects /\ Others(r) /\ pc'[r] = "permit"
      BY <1>4, <2>1, StepIsLocal DEF Approve
    <3>2. \A op \in Ops : ledger'[op] # ledger[op] =>
            op = Op(r) /\ Op(r) \in Tracked /\ ledger'[op].status = "approved"
      BY <1>1, <1>4, <2>1, OneRecordChanges DEF Approve, IInv
    <3> QED
      BY <2>1, <3>1, <3>2 DEF Reopens
  <2> QED
    BY <1>4, <2>1, RaiseIsQuiet DEF Approve
<1>5. CASE EnsureApproved(r)
  <2>1. /\ effects' = effects /\ Others(r) /\ Op(r)' = Op(r)
        /\ pc'[r] = IF Op(r) \in Tracked THEN "claim" ELSE "gateway"
    BY <1>5, StepIsLocal DEF EnsureApproved, Op
  <2>2. \A op \in Ops : ledger'[op] # ledger[op] =>
          ledger[op].status = "none" /\ ledger'[op].status = "approved"
    BY <1>1, <1>5, OneRecordChanges DEF EnsureApproved, IInv
  <2> QED
    BY <2>1, <2>2 DEF Reopens, CanReopen
<1> QED
  BY <1>2, <1>3, <1>4, <1>5

(* The steps that matter to the ledger. *)
Claims(r) == ClaimExecution(r) /\ CanExecute(Op(r))
Commits(r) == RecordResult(r) /\ CanFinish(Op(r), r)
Executes(r) == \E outcome \in Outcomes : Execute(r, outcome)

(* Every step of the system is one of these. *)
LEMMA LedgerSteps ==
  ASSUME IInv, Next
  PROVE  \/ UNCHANGED <<ledger, effects, localVars, durableVars>>
         \/ \E r \in Runs : Quiet(r) \/ Reopens(r) \/ Claims(r) \/ Executes(r) \/ Commits(r)
<1>1. ASSUME NEW r \in Runs, Govern(r) PROVE Quiet(r) \/ Reopens(r)
  BY <1>1, AuthorizationReopens, ClosingIsQuiet DEF Govern
<1>2. ASSUME NEW r \in Runs, RunTool(r)
      PROVE  Quiet(r) \/ Reopens(r) \/ Claims(r) \/ Executes(r) \/ Commits(r)
  <2>1. CASE EnsureApproved(r)
    BY <2>1, AuthorizationReopens
  <2>2. CASE ClaimExecution(r)
    BY <2>2, RaiseIsQuiet DEF ClaimExecution, Claims
  <2>3. CASE Executes(r)
    BY <2>3
  <2>4. CASE RecordResult(r)
    BY <2>4, RaiseIsQuiet DEF RecordResult, Commits
  <2> QED
    BY <1>2, <2>1, <2>2, <2>3, <2>4 DEF RunTool, Executes
<1>3. ASSUME NEW r \in Runs, Begin(r) \/ Resume(r) \/ Work(r) \/ Crash(r)
      PROVE  Quiet(r) \/ Reopens(r) \/ Claims(r) \/ Executes(r) \/ Commits(r)
  BY <1>1, <1>2, <1>3, OpeningIsQuiet, LoopIsQuiet, ClosingIsQuiet, RaiseIsQuiet DEF Work, Crash
<1>4. Environment => UNCHANGED <<ledger, effects, localVars, durableVars>>
  BY DEF Environment, Decide, Drift
<1> QED
  BY <1>3, <1>4 DEF Next

----------------------------------------------------------------------------
(* Whatever the Runs do, an executed record is final, and one that is      *)
(* executing changes only with the result of the Run that claimed it       *)
(* (OperationTracker and its repository).                                  *)
THEOREM NoExecutionIsForgotten == Spec => ExecutionIsNotForgotten
<1> DEFINE Kept ==
      \A op \in Ops :
        /\ ledger[op].status = "executed" => ledger'[op] = ledger[op]
        /\ ledger[op].status = "executing" /\ ledger'[op] # ledger[op]
             => /\ ledger'[op].status \in {"executed", "failed"}
                /\ pc[ledger[op].run] = "record"
<1>1. IInv /\ [Next]_vars => [Kept]_vars
  <2> SUFFICES ASSUME IInv, Next PROVE Kept
    BY DEF vars
  <2>1. CASE ledger' = ledger
    BY <2>1
  <2>2. ASSUME NEW r \in Runs, Reopens(r) PROVE Kept
    BY <2>2 DEF Reopens, CanReopen
  <2>3. ASSUME NEW r \in Runs, Claims(r) PROVE Kept
    <3>1. Op(r) \in Ops /\ ledger[Op(r)].status = "approved"
      BY <2>3, CurrentOperation DEF Claims, ClaimExecution, CanExecute, CallPoints
    <3>2. \A op \in Ops : ledger'[op] # ledger[op] => op = Op(r)
      BY <2>3, <3>1, OneRecordChanges DEF Claims, ClaimExecution, IInv
    <3> QED
      BY <3>1, <3>2
  <2>4. ASSUME NEW r \in Runs, Commits(r) PROVE Kept
    <3>1. /\ Op(r) \in Ops /\ pc[r] = "record"
          /\ ledger[Op(r)].status = "executing" /\ ledger[Op(r)].run = r
      BY <2>4, CurrentOperation DEF Commits, RecordResult, CanFinish, CallPoints
    <3>2. \A op \in Ops : ledger'[op] # ledger[op] => op = Op(r)
      BY <2>4, <3>1, OneRecordChanges DEF Commits, RecordResult, IInv
    <3>3. ledger'[Op(r)].status \in {"executed", "failed"}
      BY <2>4, <3>1, OneRecordChanges DEF Commits, RecordResult, IInv
    <3> QED
      BY <3>1, <3>2, <3>3
  <2> QED
    BY <2>1, <2>2, <2>3, <2>4, LedgerSteps DEF Quiet, Executes, Execute
<1> QED
  BY <1>1, InductiveInvariant, PTL DEF Spec, ExecutionIsNotForgotten

----------------------------------------------------------------------------
(* Effects happen once.  The Run that holds the claim is the only one at   *)
(* the tool, and an effect leaves a record that nobody may claim again: it *)
(* is executing until its claimant says executed, since a tool that fails  *)
(* without a trace has no effect to record.                                *)
HoldsClaim(r) == pc[r] = "record" \/ (pc[r] = "gateway" /\ Op(r) \in Tracked)

ClaimantRuns ==
  \A r \in Runs : HoldsClaim(r) =>
    /\ ledger[Op(r)].status = "executing" /\ ledger[Op(r)].run = r
    /\ pc[r] = "gateway" \/ result[r] # "ok" => effects[Op(r)] = 0

EffectIsRecorded ==
  \A op \in Ops : effects[op] # 0 =>
    effects[op] = 1 /\ ledger[op].status \in {"executing", "executed"}

EffectInv == ClaimantRuns /\ EffectIsRecorded

(* Nothing has happened at the start. *)
LEMMA InitEffectInv == Init => EffectInv
  BY DEF Init, LedgerInit, EffectInv, HoldsClaim, ClaimantRuns, EffectIsRecorded

(* A Run that is at the tool while another one moves was there before, and *)
(* its claim is preserved when its record and its effects are.             *)
LEMMA ClaimOfOthers ==
  ASSUME IInv, EffectInv, NEW r \in Runs, Others(r), NEW s \in Runs \ {r}, HoldsClaim(s)'
  PROVE  /\ Op(s) \in Ops /\ Op(s)' = Op(s)
         /\ ledger[Op(s)].status = "executing" /\ ledger[Op(s)].run = s
         /\ (ledger'[Op(s)] = ledger[Op(s)] /\ effects'[Op(s)] = effects[Op(s)])
              => /\ ledger'[Op(s)'].status = "executing" /\ ledger'[Op(s)'].run = s
                 /\ pc'[s] = "gateway" \/ result'[s] # "ok" => effects'[Op(s)'] = 0
<1>1. pc'[s] = pc[s] /\ Op(s)' = Op(s) /\ result'[s] = result[s]
  BY DEF Others, Op
<1>2. HoldsClaim(s)
  BY <1>1 DEF HoldsClaim
<1>3. Op(s) \in Ops
  BY <1>2, CurrentOperation DEF HoldsClaim, CallPoints
<1> QED
  BY <1>1, <1>2, <1>3 DEF EffectInv, ClaimantRuns

(* Steps that execute nothing keep the claims and the effects apart. *)
LEMMA QuietKeepsEffects ==
  ASSUME IInv, EffectInv, NEW r \in Runs, Quiet(r) \/ Reopens(r)
  PROVE  EffectInv'
<1>1. EffectIsRecorded'
  BY DEF Quiet, Reopens, CanReopen, EffectInv, EffectIsRecorded
<1>2. Others(r) /\ ~HoldsClaim(r)'
  BY DEF Quiet, Reopens, HoldsClaim
<1>3. \A s \in Runs : HoldsClaim(s)' => s # r
  BY <1>2
<1>4. ASSUME NEW s \in Runs \ {r}, HoldsClaim(s)'
      PROVE  ledger'[Op(s)] = ledger[Op(s)] /\ effects'[Op(s)] = effects[Op(s)]
  <2>1. ledger[Op(s)].status = "executing" /\ Op(s) \in Ops
    BY <1>2, <1>4, ClaimOfOthers
  <2> QED
    BY <2>1 DEF Quiet, Reopens, CanReopen
<1>5. ClaimantRuns'
  BY <1>2, <1>3, <1>4, ClaimOfOthers DEF ClaimantRuns
<1> QED
  BY <1>1, <1>5 DEF EffectInv

(* A claim is given for a record without an effect only. *)
LEMMA ClaimKeepsEffects ==
  ASSUME IInv, EffectInv, NEW r \in Runs, Claims(r)
  PROVE  EffectInv'
<1>1. Op(r) \in Ops /\ ledger[Op(r)].status = "approved"
  BY CurrentOperation DEF Claims, ClaimExecution, CanExecute, CallPoints
<1>2. Others(r) /\ pc'[r] = "gateway" /\ Op(r)' = Op(r) /\ result' = result /\ effects' = effects
  BY StepIsLocal DEF Claims, ClaimExecution, Op
<1>3. ledger' = Moved(Op(r), "executing", r)
  BY DEF Claims, ClaimExecution
<1>4. /\ \A op \in Ops : ledger'[op] # ledger[op] => op = Op(r)
      /\ ledger'[Op(r)].status = "executing"
      /\ ledger'[Op(r)].run = r
  BY <1>1, <1>3, OneRecordChanges DEF IInv
<1>5. effects[Op(r)] = 0
  BY <1>1 DEF EffectInv, EffectIsRecorded
<1>6. EffectIsRecorded'
  BY <1>2, <1>4, <1>5 DEF EffectInv, EffectIsRecorded
<1>7. ASSUME NEW s \in Runs \ {r}, HoldsClaim(s)'
      PROVE  ledger'[Op(s)] = ledger[Op(s)] /\ effects'[Op(s)] = effects[Op(s)]
  BY <1>1, <1>2, <1>4, <1>7, ClaimOfOthers
<1>8. ClaimantRuns'
  BY <1>2, <1>4, <1>5, <1>7, ClaimOfOthers DEF ClaimantRuns
<1> QED
  BY <1>6, <1>8 DEF EffectInv

(* The tool changes the effects of the claimed operation only. *)
LEMMA ExecuteKeepsEffects ==
  ASSUME IInv, EffectInv, NEW r \in Runs, NEW outcome \in {"done", "clean_failure"}, Execute(r, outcome)
  PROVE  EffectInv'
<1>1. Op(r) \in Ops /\ pc[r] = "gateway" /\ effects \in [Ops -> 0..2]
  BY CurrentOperation DEF Execute, CallPoints, IInv, LedgerTypeOK, MaxEffects
<1>2. /\ Others(r) /\ Op(r)' = Op(r) /\ ledger' = ledger
      /\ pc'[r] = IF Op(r) \in Tracked THEN "record" ELSE "observe"
      /\ result'[r] = IF outcome = "done" THEN "ok" ELSE "failed"
  BY DEF Execute, Goto, Others, IInv, LocalTypeOK, durableVars, Op, Cursor
<1>3. Op(r) \in Tracked =>
        ledger[Op(r)].status = "executing" /\ ledger[Op(r)].run = r /\ effects[Op(r)] = 0
  BY <1>1 DEF EffectInv, ClaimantRuns, HoldsClaim
<1>4. \/ effects' = effects
      \/ /\ Op(r) \in Tracked /\ outcome = "done"
         /\ effects' = [effects EXCEPT ![Op(r)] = @ + 1]
  BY DEF Execute
<1>5. ASSUME NEW op \in Ops
      PROVE  /\ effects'[op] = effects[op] \/ (op = Op(r) /\ Op(r) \in Tracked /\ effects'[op] = 1)
             /\ outcome = "clean_failure" => effects'[op] = effects[op]
  <2>1. CASE effects' = effects
    BY <2>1
  <2>2. CASE /\ Op(r) \in Tracked /\ outcome = "done"
             /\ effects' = [effects EXCEPT ![Op(r)] = @ + 1]
    <3>1. effects[Op(r)] + 1 = 1
      BY <1>3, <2>2
    <3> QED
      BY <1>1, <2>2, <3>1
  <2> QED
    BY <1>4, <2>1, <2>2
<1>6. EffectIsRecorded'
  <2> SUFFICES ASSUME NEW op \in Ops, effects'[op] # 0
               PROVE  effects'[op] = 1 /\ ledger'[op].status \in {"executing", "executed"}
    BY DEF EffectIsRecorded
  <2> QED
    BY <1>2, <1>3, <1>5 DEF EffectInv, EffectIsRecorded
<1>7. ASSUME NEW s \in Runs \ {r}, HoldsClaim(s)'
      PROVE  ledger'[Op(s)] = ledger[Op(s)] /\ effects'[Op(s)] = effects[Op(s)]
  <2>1. Op(s) \in Ops /\ ledger[Op(s)].run = s
    BY <1>2, <1>7, ClaimOfOthers
  <2>2. Op(s) = Op(r) => Op(r) \notin Tracked
    BY <1>3, <1>7, <2>1
  <2> QED
    BY <1>2, <1>5, <2>1, <2>2
<1>8. HoldsClaim(r)' =>
        /\ ledger'[Op(r)'].status = "executing" /\ ledger'[Op(r)'].run = r
        /\ pc'[r] = "gateway" \/ result'[r] # "ok" => effects'[Op(r)'] = 0
  <2> SUFFICES ASSUME HoldsClaim(r)'
               PROVE  /\ ledger'[Op(r)'].status = "executing" /\ ledger'[Op(r)'].run = r
                      /\ pc'[r] = "gateway" \/ result'[r] # "ok" => effects'[Op(r)'] = 0
    OBVIOUS
  <2>1. Op(r) \in Tracked /\ pc'[r] = "record"
    BY <1>2 DEF HoldsClaim
  <2>2. result'[r] # "ok" => outcome = "clean_failure"
    BY <1>2
  <2> QED
    BY <1>1, <1>2, <1>3, <1>5, <2>1, <2>2
<1>9. ClaimantRuns'
  <2> SUFFICES ASSUME NEW s \in Runs, HoldsClaim(s)'
               PROVE  /\ ledger'[Op(s)'].status = "executing" /\ ledger'[Op(s)'].run = s
                      /\ pc'[s] = "gateway" \/ result'[s] # "ok" => effects'[Op(s)'] = 0
    BY DEF ClaimantRuns
  <2>1. CASE s = r
    BY <1>8, <2>1
  <2>2. CASE s # r
    <3>1. s \in Runs \ {r} /\ Others(r)
      BY <1>2, <2>2
    <3>2. ledger'[Op(s)] = ledger[Op(s)] /\ effects'[Op(s)] = effects[Op(s)]
      BY <1>7, <3>1
    <3> QED
      BY <3>1, <3>2, ClaimOfOthers
  <2> QED
    BY <2>1, <2>2
<1> QED
  BY <1>6, <1>9 DEF EffectInv

(* A failure is recorded only when there was no effect. *)
LEMMA CommitKeepsEffects ==
  ASSUME IInv, EffectInv, NEW r \in Runs, Commits(r)
  PROVE  EffectInv'
<1>1. /\ Op(r) \in Ops /\ pc[r] = "record"
      /\ ledger[Op(r)].status = "executing" /\ ledger[Op(r)].run = r
  BY CurrentOperation DEF Commits, RecordResult, CanFinish, CallPoints
<1>2. Others(r) /\ pc'[r] = "observe" /\ effects' = effects
  BY StepIsLocal DEF Commits, RecordResult
<1>3. PICK status \in {"executed", "failed"} :
        ledger' = Finished(Op(r), r, status) /\ (status = "failed" => result[r] # "ok")
  BY DEF Commits, RecordResult
<1>4. /\ \A op \in Ops : ledger'[op] # ledger[op] => op = Op(r)
      /\ ledger'[Op(r)].status = status
  BY <1>1, <1>3, OneRecordChanges DEF IInv
<1>5. result[r] # "ok" => effects[Op(r)] = 0
  BY <1>1 DEF EffectInv, ClaimantRuns, HoldsClaim
<1>6. EffectIsRecorded'
  BY <1>1, <1>2, <1>3, <1>4, <1>5 DEF EffectInv, EffectIsRecorded
<1>7. ASSUME NEW s \in Runs \ {r}, HoldsClaim(s)'
      PROVE  ledger'[Op(s)] = ledger[Op(s)] /\ effects'[Op(s)] = effects[Op(s)]
  BY <1>1, <1>2, <1>4, <1>7, ClaimOfOthers
<1>8. ClaimantRuns'
  BY <1>2, <1>7, ClaimOfOthers DEF ClaimantRuns, HoldsClaim
<1> QED
  BY <1>6, <1>8 DEF EffectInv

(* When a tool that fails leaves no trace, the effect of every operation   *)
(* reaches the world at most once, for any number of Runs that crash,      *)
(* resume and overlap on any batch, and whoever edits the files.           *)
LEMMA TracelessEffectsOnce ==
  ASSUME "dirty_failure" \notin Outcomes
  PROVE  Spec => [](\A op \in Ops : effects[op] <= 1)
<1>1. Outcomes \subseteq {"done", "clean_failure"}
  BY BatchAssumption
<1>2. IInv /\ EffectInv /\ [Next]_vars => EffectInv'
  <2> SUFFICES ASSUME IInv, EffectInv, [Next]_vars PROVE EffectInv'
    OBVIOUS
  <2>1. CASE UNCHANGED <<ledger, effects, localVars, durableVars>>
    BY <2>1 DEF EffectInv, HoldsClaim, ClaimantRuns, EffectIsRecorded, localVars, durableVars, Op, Cursor
  <2>2. CASE UNCHANGED vars
    BY <2>1, <2>2 DEF vars, ledgerVars
  <2>3. ASSUME NEW r \in Runs, Executes(r) PROVE EffectInv'
    BY <1>1, <2>3, ExecuteKeepsEffects DEF Executes
  <2> QED
    BY <2>1, <2>2, <2>3, LedgerSteps, QuietKeepsEffects, ClaimKeepsEffects, CommitKeepsEffects
<1>3. IInv /\ EffectInv => \A op \in Ops : effects[op] <= 1
  <2> SUFFICES ASSUME IInv, EffectInv, NEW op \in Ops PROVE effects[op] <= 1
    OBVIOUS
  <2>1. effects[op] \in 0..2
    BY DEF IInv, LedgerTypeOK, MaxEffects
  <2>2. effects[op] = 0 \/ effects[op] = 1
    BY DEF EffectInv, EffectIsRecorded
  <2> QED
    BY <2>1, <2>2
<1> QED
  BY <1>2, <1>3, InitEffectInv, InductiveInvariant, PTL DEF Spec

----------------------------------------------------------------------------
(* The two steps of a Run that write an approval.                          *)
LEMMA RunsKeepApprovals ==
  ASSUME NEW r \in Runs, Begin(r) \/ Resume(r) \/ Work(r) \/ Crash(r)
  PROVE  approvals' = approvals \/ RequestApproval(r) \/ RevokeApproval(r)
<1>1. Raise(r) \/ (\E o, n : Answer(r, o, n)) => approvals' = approvals
  BY DEF Raise, Answer, ledgerVars
<1>2. \/ Begin(r) \/ Resume(r) \/ Restore(r) \/ ResumePending(r) \/ PointToBatch(r) \/ Complete(r)
      \/ Finish(r) \/ LeaveBatch(r) \/ PassAnswered(r) \/ TakeCall(r) \/ Observe(r) \/ SaveDenied(r)
      \/ Advance(r) \/ ReadApproval(r) \/ AwaitApproval(r) \/ StayWaiting(r) \/ Permit(r)
      => approvals' = approvals
  BY DEF Begin, Resume, Restore, ResumePending, PointToBatch, Complete, Finish, LeaveBatch, PassAnswered, TakeCall,
     Observe, SaveDenied, Advance, ReadApproval, AwaitApproval, StayWaiting, Permit, ledgerVars
<1>3. Propose(r) \/ CloseUnexecuted(r) \/ ControlSignal(r) \/ Resolve(r) => approvals' = approvals
  BY <1>1 DEF Propose, CloseUnexecuted, ControlSignal, Resolve, ledgerVars
<1>4. Plan(r) \/ RecordPending(r) \/ Approve(r) \/ Reject(r) => approvals' = approvals
  BY <1>1 DEF Plan, RecordPending, Approve, Reject
<1>5. RunTool(r) => approvals' = approvals
  BY <1>1 DEF RunTool, EnsureApproved, ClaimExecution, Execute, RecordResult
<1> QED
  BY <1>1, <1>2, <1>3, <1>4, <1>5 DEF Work, Govern, Crash

(* No step of any Run, and no later decision, turns a decision of the      *)
(* operator around (ApprovalRepository.decide, request and mark_stale).    *)
THEOREM DecisionsAreFinal == Spec => DecisionIsFinal
<1> DEFINE Final ==
      \A op \in Ops :
        /\ approvals[op].status = "rejected" => approvals'[op] = approvals[op]
        /\ approvals[op].status = "approved" => approvals'[op].status \in {"approved", "stale"}
<1>1. IInv /\ [Next]_vars => [Final]_vars
  <2> SUFFICES ASSUME IInv, Next PROVE Final
    BY DEF vars
  <2>1. approvals \in [Ops -> Approvals]
    BY DEF IInv, LedgerTypeOK
  <2>2. CASE approvals' = approvals
    BY <2>2
  <2>3. ASSUME NEW r \in Runs, RequestApproval(r) PROVE Final
    <3>1. approvals' = approvals \/ (/\ approvals[Op(r)].status \in {"none", "stale"}
                                     /\ \A op \in Ops : op # Op(r) => approvals'[op] = approvals[op])
      BY <2>1, <2>3 DEF RequestApproval, Requested, Requestable
    <3> QED
      BY <3>1
  <2>4. ASSUME NEW r \in Runs, RevokeApproval(r) PROVE Final
    <3>1. CASE CanMarkStale(Op(r))
      <4>1. approvals' = [approvals EXCEPT ![Op(r)].status = "stale"]
        BY <2>4, <3>1 DEF RevokeApproval
      <4> QED
        BY <2>1, <3>1, <4>1 DEF CanMarkStale, Approvals
    <3>2. CASE ~CanMarkStale(Op(r))
      BY <2>4, <3>2 DEF RevokeApproval, Raise, ledgerVars
    <3> QED
      BY <3>1, <3>2
  <2>5. ASSUME Environment PROVE Final
    <3>1. ASSUME NEW op \in Ops, NEW decision \in {"approved", "rejected"}, Decide(op, decision) PROVE Final
      BY <2>1, <3>1 DEF Decide, Approvals
    <3> QED
      BY <2>5, <3>1 DEF Environment, Drift
  <2> QED
    BY <2>2, <2>3, <2>4, <2>5, RunsKeepApprovals DEF Next
<1> QED
  BY <1>1, InductiveInvariant, PTL DEF Spec, DecisionIsFinal
----------------------------------------------------------------------------
(* The locals of the Runs that do not move stay as they are. *)
Alone(r) ==
  /\ Others(r)
  /\ \A s \in Runs \ {r} : mode'[s] = mode[s] /\ print'[s] = print[s] /\ seen'[s] = seen[s]

(* What a step that ends the process, answers a call or moves on leaves of *)
(* the other Runs.                                                         *)
LEMMA PiecesAreAlone ==
  ASSUME IInv, NEW r \in Runs
  PROVE  /\ End(r) =>
              /\ \A s \in Runs \ {r} : /\ pc'[s] = pc[s] /\ result'[s] = result[s]
                                       /\ mode'[s] = mode[s] /\ print'[s] = print[s] /\ seen'[s] = seen[s]
              /\ pc'[r] = "ended" /\ mode'[r] = "go"
         /\ Raise(r) => Alone(r) /\ pc'[r] = "ended" /\ UNCHANGED durableVars
         /\ \A observation, next : Answer(r, observation, next) =>
              Alone(r) /\ pc'[r] = "observe" /\ result'[r] = observation /\ mode'[r] = next
         /\ \A status, next : Save(r, status, next) =>
              (\A s \in Runs \ {r} : Cursor(s)' = Cursor(s)) /\ Cursor(r)' = next
         /\ Suspend(r) => Alone(r) /\ pc'[r] = "ended" /\ mode'[r] = "go" /\ KeepFiles /\ Cursor(r)' = Cursor(r)
<1>1. End(r) =>
        /\ \A s \in Runs \ {r} : /\ pc'[s] = pc[s] /\ result'[s] = result[s]
                                 /\ mode'[s] = mode[s] /\ print'[s] = print[s] /\ seen'[s] = seen[s]
        /\ pc'[r] = "ended" /\ mode'[r] = "go"
  BY DEF End, Goto, IInv, LocalTypeOK
<1>2. Raise(r) => Alone(r) /\ pc'[r] = "ended" /\ UNCHANGED durableVars
  BY <1>1 DEF Raise, Alone, Others, durableVars, Cursor
<1>3. \A observation, next : Answer(r, observation, next) =>
        Alone(r) /\ pc'[r] = "observe" /\ result'[r] = observation /\ mode'[r] = next
  BY DEF Answer, Goto, Alone, Others, durableVars, Cursor, IInv, LocalTypeOK
<1>4. \A status, next : Save(r, status, next) =>
        (\A s \in Runs \ {r} : Cursor(s)' = Cursor(s)) /\ Cursor(r)' = next
  BY DEF Save, Cursor, IInv, DurableTypeOK
<1>5. Suspend(r) => Alone(r) /\ pc'[r] = "ended" /\ mode'[r] = "go" /\ KeepFiles /\ Cursor(r)' = Cursor(r)
  BY <1>1, <1>4 DEF Suspend, SaveStatus, Alone, Others
<1> QED
  BY <1>1, <1>2, <1>3, <1>4, <1>5

(* No step of a Run touches the locals of another one. *)
LEMMA RunsStepAlone ==
  ASSUME IInv, NEW r \in Runs, Begin(r) \/ Resume(r) \/ Work(r) \/ Crash(r)
  PROVE  Alone(r)
<1>1. CASE Begin(r) \/ Resume(r) \/ Restore(r) \/ PointToBatch(r) \/ Advance(r) \/ ResumePending(r)
  <2>1. \A s \in Runs \ {r} : Cursor(s)' = Cursor(s)
    BY <1>1, PiecesAreAlone DEF Begin, Resume, Restore, PointToBatch, Advance, ResumePending, Cursor
  <2> QED
    BY <1>1, <2>1, PiecesAreAlone DEF Begin, Resume, Restore, PointToBatch, Advance, ResumePending, Goto,
       KeepLocals,
       Alone, Others, IInv, LocalTypeOK
<1>2. CASE Propose(r) \/ Observe(r)
  <2>1. \A s \in Runs \ {r} : Cursor(s)' = Cursor(s)
    BY <1>2 DEF Propose, Observe, Raise, durableVars, Cursor
  <2> QED
    BY <1>2, <2>1, PiecesAreAlone DEF Propose, Observe, Goto, KeepLocals, Raise, Alone, Others, IInv, LocalTypeOK
<1>3. CASE Complete(r) \/ Finish(r)
  <2>1. \A s \in Runs \ {r} : Cursor(s)' = Cursor(s)
    BY <1>3, PiecesAreAlone DEF Complete, Finish, SaveStatus, Cursor
  <2> QED
    BY <1>3, <2>1, PiecesAreAlone DEF Complete, Finish, Alone, Others
<1>4. CASE LeaveBatch(r) \/ PassAnswered(r) \/ TakeCall(r) \/ ReadApproval(r) \/ RequestApproval(r) \/ EnsureApproved(r)
  BY <1>4 DEF LeaveBatch, PassAnswered, TakeCall, ReadApproval, RequestApproval, EnsureApproved, Step, KeepLocals,
     Goto, Alone, Others, durableVars, Cursor, IInv, LocalTypeOK
<1>5. CASE CloseUnexecuted(r) \/ ControlSignal(r) \/ Reject(r) \/ StayWaiting(r)
  BY <1>5, PiecesAreAlone DEF CloseUnexecuted, ControlSignal, Reject, StayWaiting
<1>6. CASE Resolve(r)
  BY <1>6, PiecesAreAlone DEF Resolve, Step, KeepLocals, Goto, Alone, Others, durableVars, Cursor, IInv, LocalTypeOK
<1>7. CASE Plan(r) \/ RecordPending(r) \/ Approve(r) \/ RevokeApproval(r) \/ ClaimExecution(r) \/ RecordResult(r)
  BY <1>7, PiecesAreAlone DEF Plan, RecordPending, Approve, RevokeApproval, ClaimExecution, RecordResult, Step,
     KeepLocals, Goto, Alone, Others, durableVars, Cursor, IInv, LocalTypeOK
<1>8. CASE AwaitApproval(r) \/ Permit(r) \/ SaveDenied(r)
  BY <1>8, PiecesAreAlone DEF AwaitApproval, Permit, SaveDenied, SaveStatus, KeepLocals, Goto, Alone, Others, IInv,
     LocalTypeOK
<1>9. ASSUME NEW outcome \in Outcomes, Execute(r, outcome) PROVE Alone(r)
  BY <1>9 DEF Execute, Goto, Alone, Others, durableVars, Cursor, IInv, LocalTypeOK
<1> QED
  BY <1>1, <1>2, <1>3, <1>4, <1>5, <1>6, <1>7, <1>8, <1>9, PiecesAreAlone DEF Work, Govern, RunTool, Crash

----------------------------------------------------------------------------
(* No call is lost.  A pointer moves on only behind an Observation, and    *)
(* the pointer is cleared, the model asked again or the Turn closed only   *)
(* when no Observation is missing; a Run that was superseded may be back   *)
(* at the model step, but it proposes nothing there.                       *)
AnsweredBehind == \A r \in Runs : \A i \in Calls : i < Cursor(r) => obs[i] # None
AnsweredAtCursor == \A r \in Runs : pc[r] \in {"denied", "advance"} => obs[Cursor(r)] # None
LeavesComplete ==
  \A r \in Runs : pc[r] = "finish" \/ (pc[r] = "call" /\ Cursor(r) = 0) => Missing = {}
OwnerLeavesComplete == \A r \in Runs : Owns(r) /\ batch /\ pc[r] = "model" => Missing = {}
HoldsObservation == \A r \in Runs : pc[r] \in {"record", "observe"} => result[r] # None
BatchHasOwner == batch => owner # NoRun
ClosedIsComplete == batch /\ ~open => Missing = {}

LostInv ==
  /\ AnsweredBehind /\ AnsweredAtCursor /\ LeavesComplete /\ OwnerLeavesComplete
  /\ HoldsObservation /\ BatchHasOwner /\ ClosedIsComplete

(* Before the first Run no pointer is set. *)
LEMMA InitLostInv == Init => LostInv
  BY BatchIsFinite DEF Init, LostInv, AnsweredBehind, AnsweredAtCursor, LeavesComplete, OwnerLeavesComplete,
     HoldsObservation, BatchHasOwner, ClosedIsComplete, Cursor, Calls

(* A step within a call, or out of the process: it leaves the journal, the *)
(* Turn and the pointers, and does not go where an Observation is needed.  *)
Within(r) ==
  /\ KeepFiles /\ Alone(r) /\ Cursor(r)' = Cursor(r)
  /\ pc'[r] \notin {"denied", "advance", "finish", "call", "model"}
  /\ pc'[r] \in {"record", "observe"} => result'[r] # None

(* Such a step keeps the invariant. *)
LEMMA WithinKeepsLost ==
  ASSUME IInv, LostInv, NEW r \in Runs, Within(r)
  PROVE  LostInv'
<1>1. \A s \in Runs : Cursor(s)' = Cursor(s) /\ (s # r => pc'[s] = pc[s] /\ result'[s] = result[s])
  BY DEF Within, Alone, Others
<1>2. UNCHANGED <<batch, obs, owner, open>>
  BY DEF Within, KeepFiles
<1> QED
  BY <1>1, <1>2 DEF LostInv, AnsweredBehind, AnsweredAtCursor, LeavesComplete, OwnerLeavesComplete,
     HoldsObservation, BatchHasOwner, ClosedIsComplete, Missing, Owns, Within

(* Most steps of a Run are of this kind. *)
LEMMA CallStepsAreWithin ==
  ASSUME IInv, LostInv, NEW r \in Runs,
         CloseUnexecuted(r) \/ TakeCall(r) \/ ControlSignal(r) \/ Resolve(r) \/ Govern(r) \/ RunTool(r) \/ Crash(r)
  PROVE  Within(r)
<1>1. Alone(r)
  BY RunsStepAlone DEF Work
<1>2. KeepFiles /\ Cursor(r)' = Cursor(r)
  <2>1. \A observation, next : Answer(r, observation, next) => KeepFiles /\ Cursor(r)' = Cursor(r)
    BY DEF Answer, durableVars, KeepFiles, Cursor
  <2>2. \A point : Step(r, point) => KeepFiles /\ Cursor(r)' = Cursor(r)
    BY DEF Step, durableVars, KeepFiles, Cursor
  <2>3. Raise(r) => KeepFiles /\ Cursor(r)' = Cursor(r)
    BY DEF Raise, durableVars, KeepFiles, Cursor
  <2>4. CASE CloseUnexecuted(r) \/ ControlSignal(r) \/ Resolve(r) \/ Reject(r) \/ StayWaiting(r) \/ Crash(r)
    BY <2>1, <2>2, <2>3, <2>4, PiecesAreAlone DEF CloseUnexecuted, ControlSignal, Resolve, Reject, StayWaiting,
       Crash
  <2>5. CASE Plan(r) \/ RecordPending(r) \/ Approve(r) \/ RevokeApproval(r) \/ EnsureApproved(r) \/ ClaimExecution(r)
             \/ RecordResult(r)
    BY <2>2, <2>3, <2>5, PiecesAreAlone DEF Plan, RecordPending, Approve, RevokeApproval, EnsureApproved,
       ClaimExecution, RecordResult
  <2>6. CASE AwaitApproval(r) \/ Permit(r)
    BY <2>6, PiecesAreAlone DEF AwaitApproval, Permit, SaveStatus
  <2>7. CASE TakeCall(r) \/ ReadApproval(r) \/ RequestApproval(r) \/ \E outcome \in Outcomes : Execute(r, outcome)
    BY <2>7 DEF TakeCall, ReadApproval, RequestApproval, Execute, durableVars, KeepFiles, Cursor
  <2> QED
    BY <2>4, <2>5, <2>6, <2>7 DEF Govern, RunTool
<1>3. /\ pc'[r] \notin {"denied", "advance", "finish", "call", "model"}
      /\ pc'[r] \in {"record", "observe"} => result'[r] # None
  <2>1. \A observation \in Observations \ {None} : \A next :
          Answer(r, observation, next) => pc'[r] = "observe" /\ result'[r] # None
    BY PiecesAreAlone
  <2>2. \A point : Step(r, point) => pc'[r] = point /\ result' = result
    BY StepIsLocal
  <2>3. Raise(r) \/ Suspend(r) => pc'[r] = "ended"
    BY PiecesAreAlone
  <2>4. CASE CloseUnexecuted(r) \/ ControlSignal(r) \/ Reject(r) \/ StayWaiting(r) \/ Crash(r)
    BY <2>1, <2>3, <2>4 DEF CloseUnexecuted, ControlSignal, Reject, StayWaiting, Crash, Observations, None
  <2>5. CASE Resolve(r)
    BY <2>1, <2>2, <2>5 DEF Resolve, Observations, None
  <2>6. CASE Plan(r) \/ RecordPending(r) \/ Approve(r) \/ RevokeApproval(r) \/ EnsureApproved(r) \/ ClaimExecution(r)
    BY <2>2, <2>3, <2>6 DEF Plan, RecordPending, Approve, RevokeApproval, EnsureApproved, ClaimExecution
  <2>7. CASE RecordResult(r)
    BY <2>2, <2>3, <2>7 DEF RecordResult, LostInv, HoldsObservation
  <2>8. CASE AwaitApproval(r) \/ Permit(r) \/ TakeCall(r) \/ ReadApproval(r) \/ RequestApproval(r)
    BY <2>8 DEF AwaitApproval, Permit, TakeCall, ReadApproval, RequestApproval, Goto, IInv, LocalTypeOK
  <2>9. ASSUME NEW outcome \in Outcomes, Execute(r, outcome)
        PROVE  pc'[r] \in {"record", "observe"} /\ result'[r] # None
    BY <2>9 DEF Execute, Goto, IInv, LocalTypeOK, None
  <2> QED
    BY <2>4, <2>5, <2>6, <2>7, <2>8, <2>9 DEF Govern, RunTool
<1> QED
  BY <1>1, <1>2, <1>3 DEF Within

(* A Run that opens, claims or resumes the Turn points where its parent    *)
(* did, or to the first call without an Observation.                       *)
LEMMA OpeningKeepsLost ==
  ASSUME IInv, LostInv, NEW r \in Runs, Begin(r) \/ Resume(r) \/ Restore(r) \/ ResumePending(r)
  PROVE  LostInv'
<1>1. \A s \in Runs \ {r} : pc'[s] = pc[s] /\ Cursor(s)' = Cursor(s) /\ result'[s] = result[s]
  BY RunsStepAlone DEF Work, Alone, Others
<1>2. /\ UNCHANGED <<batch, obs, open>>
      /\ owner' = owner \/ (owner' = r /\ pc'[r] \in {"claimed", "model"})
      /\ Begin(r) => owner = NoRun
      /\ owner # NoRun => owner' # NoRun
  BY OperationAssumption DEF Begin, Resume, Restore, ResumePending, KeepFiles, Goto, IInv, LocalTypeOK
<1>3. pc'[r] \in {"model", "claimed", "restoring", "ended", "call"}
  BY DEF Begin, Resume, Restore, ResumePending, Goto, End, IInv, LocalTypeOK
<1>4. pc'[r] = "call" => Cursor(r)' # 0
  <2>1. \A i \in Missing : i # 0
    BY BatchIsFinite DEF Missing, Calls
  <2> QED
    BY <2>1, PiecesAreAlone DEF Begin, Resume, Restore, ResumePending, Goto, End, Cursor, IInv, LocalTypeOK
<1>5. \A i \in Calls : i < Cursor(r)' => obs[i] # None
  <2>1. CASE Begin(r) \/ Resume(r)
    BY <2>1, PiecesAreAlone, BatchIsFinite DEF Begin, Resume, Calls
  <2>2. CASE Restore(r)
    <3>1. parent[r] \in Runs /\ Cursor(r)' = Cursor(parent[r])
      BY <2>2, PiecesAreAlone DEF Restore, Cursor, IInv, ClaimantHasParent
    <3> QED
      BY <3>1 DEF LostInv, AnsweredBehind
  <2>3. CASE ResumePending(r)
    <3>1. CASE ckpt' = ckpt
      BY <3>1 DEF LostInv, AnsweredBehind, Cursor
    <3>2. ASSUME NEW i \in Missing, IsFirst(i, Missing), Save(r, "running", i)
          PROVE  \A j \in Calls : j < Cursor(r)' => obs[j] # None
      <4>1. Cursor(r)' = i /\ i \in Calls
        BY <3>2, PiecesAreAlone DEF Missing
      <4>2. \A j \in Calls : obs[j] = None => i <= j
        BY <3>2 DEF IsFirst, Missing
      <4> QED
        BY <4>1, <4>2, BatchIsFinite
    <3> QED
      BY <2>3, <3>1, <3>2 DEF ResumePending
  <2> QED
    BY <2>1, <2>2, <2>3
<1>6. Owns(r)' /\ batch /\ pc'[r] = "model" => Missing = {}
  <2>1. CASE Begin(r)
    BY <1>2, <2>1 DEF LostInv, BatchHasOwner
  <2>2. CASE Resume(r) \/ Restore(r)
    BY <2>2 DEF Resume, Restore, Goto, End, IInv, LocalTypeOK
  <2>3. CASE ResumePending(r)
    BY <2>3 DEF ResumePending, Goto, IInv, LocalTypeOK
  <2> QED
    BY <2>1, <2>2, <2>3
<1>7. Missing' = Missing
  BY <1>2 DEF Missing
<1>8. AnsweredBehind'
  BY <1>1, <1>2, <1>5 DEF LostInv, AnsweredBehind
<1>9. AnsweredAtCursor' /\ LeavesComplete' /\ HoldsObservation'
  BY <1>1, <1>2, <1>3, <1>4, <1>7 DEF LostInv, AnsweredAtCursor, LeavesComplete, HoldsObservation
<1>10. OwnerLeavesComplete'
  BY <1>1, <1>2, <1>6, <1>7 DEF LostInv, OwnerLeavesComplete, Owns
<1>11. BatchHasOwner' /\ ClosedIsComplete'
  BY <1>2, <1>7 DEF LostInv, BatchHasOwner, ClosedIsComplete
<1> QED
  BY <1>8, <1>9, <1>10, <1>11 DEF LostInv

(* The batch is proposed by the owner, and closed when nothing is missing. *)
LEMMA ModelKeepsLost ==
  ASSUME IInv, LostInv, NEW r \in Runs, Propose(r) \/ PointToBatch(r) \/ Complete(r) \/ Finish(r)
  PROVE  LostInv'
<1>1. \A s \in Runs \ {r} : pc'[s] = pc[s] /\ Cursor(s)' = Cursor(s) /\ result'[s] = result[s]
  BY RunsStepAlone DEF Work, Alone, Others
<1>2. obs' = obs /\ owner' = owner /\ Missing' = Missing
  BY DEF Propose, PointToBatch, Complete, Finish, Raise, durableVars, KeepFiles, Missing
<1>3. Cursor(r)' = Cursor(r) \/ (PointToBatch(r) /\ Cursor(r)' = 1)
  BY PiecesAreAlone DEF Propose, PointToBatch, Complete, Finish, SaveStatus, Raise, durableVars, Cursor
<1>4. pc'[r] \in {"proposed", "call", "ended"} /\ (pc'[r] = "call" => PointToBatch(r) /\ Cursor(r)' = 1)
  BY PiecesAreAlone DEF Propose, PointToBatch, Complete, Finish, Goto, IInv, LocalTypeOK
<1>5. /\ batch' # batch => batch' /\ Owns(r) /\ open' = open
      /\ open' # open => ~open' /\ (Missing = {} \/ ~batch) /\ batch' = batch
  BY PiecesAreAlone DEF Propose, PointToBatch, Complete, Finish, Raise, durableVars, KeepFiles, LostInv,
     OwnerLeavesComplete, LeavesComplete, IInv, DurableTypeOK
<1>6. AnsweredBehind'
  BY <1>1, <1>2, <1>3, BatchIsFinite DEF LostInv, AnsweredBehind, Calls
<1>7. AnsweredAtCursor' /\ LeavesComplete' /\ HoldsObservation'
  BY <1>1, <1>2, <1>4 DEF LostInv, AnsweredAtCursor, LeavesComplete, HoldsObservation
<1>8. OwnerLeavesComplete'
  BY <1>1, <1>2, <1>4, <1>5 DEF LostInv, OwnerLeavesComplete, Owns
<1>9. BatchHasOwner' /\ ClosedIsComplete'
  <2>1. Owns(r) => open /\ owner # NoRun
    BY OperationAssumption DEF Owns
  <2>2. batch' # batch => open' /\ Owns(r)
    BY <1>5, <2>1
  <2> QED
    BY <1>2, <1>5, <2>1, <2>2 DEF LostInv, BatchHasOwner, ClosedIsComplete
<1> QED
  BY <1>6, <1>7, <1>8, <1>9 DEF LostInv

(* The cursor moves behind an Observation, and is cleared behind the last. *)
LEMMA LoopKeepsLost ==
  ASSUME IInv, LostInv, NEW r \in Runs, LeaveBatch(r) \/ PassAnswered(r) \/ SaveDenied(r) \/ Advance(r)
  PROVE  LostInv'
<1>1. \A s \in Runs \ {r} : pc'[s] = pc[s] /\ Cursor(s)' = Cursor(s) /\ result'[s] = result[s]
  BY RunsStepAlone DEF Work, Alone, Others
<1>2. UNCHANGED <<batch, obs, owner, open>> /\ Missing' = Missing
  BY DEF LeaveBatch, PassAnswered, SaveDenied, Advance, Step, durableVars, KeepFiles, Missing
<1>3. CASE LeaveBatch(r)
  <2>1. Missing = {} /\ pc'[r] \in {"finish", "model"} /\ Cursor(r)' = Cursor(r)
    BY <1>3 DEF LeaveBatch, Goto, durableVars, Cursor, LostInv, LeavesComplete, IInv, LocalTypeOK
  <2> QED
    BY <1>1, <1>2, <2>1 DEF LostInv, AnsweredBehind, AnsweredAtCursor, LeavesComplete, OwnerLeavesComplete,
       HoldsObservation, BatchHasOwner, ClosedIsComplete
<1>4. CASE PassAnswered(r) \/ SaveDenied(r)
  <2>1. obs[Cursor(r)] # None /\ pc'[r] = "advance" /\ Cursor(r)' = Cursor(r)
    BY <1>4, PiecesAreAlone DEF PassAnswered, Answered, SaveDenied, SaveStatus, Step, Goto, durableVars, Cursor,
       LostInv,
       AnsweredAtCursor, IInv, LocalTypeOK
  <2> QED
    BY <1>1, <1>2, <2>1 DEF LostInv, AnsweredBehind, AnsweredAtCursor, LeavesComplete, OwnerLeavesComplete,
       HoldsObservation, BatchHasOwner, ClosedIsComplete, Owns
<1>5. CASE Advance(r)
  <2>1. /\ obs[Cursor(r)] # None /\ pc'[r] = "call"
        /\ Cursor(r)' = IF Cursor(r) = Len(Batch) THEN 0 ELSE Cursor(r) + 1
    BY <1>5, PiecesAreAlone DEF Advance, Goto, LostInv, AnsweredAtCursor, IInv, LocalTypeOK
  <2>2. Cursor(r) \in Calls
    BY <1>5, CurrentOperation DEF Advance, CallPoints
  <2>3. \A i \in Calls : i < Cursor(r)' => obs[i] # None
    BY <2>1, <2>2, BatchIsFinite DEF LostInv, AnsweredBehind, Calls
  <2>4. Cursor(r)' = 0 => Missing = {}
    <3>1. Cursor(r)' = 0 => \A i \in Calls : i < Cursor(r) \/ i = Cursor(r)
      BY <2>1, <2>2, BatchIsFinite DEF Calls
    <3> QED
      BY <2>1, <3>1 DEF LostInv, AnsweredBehind, Missing
  <2> QED
    BY <1>1, <1>2, <2>1, <2>3, <2>4 DEF LostInv, AnsweredBehind, AnsweredAtCursor, LeavesComplete,
       OwnerLeavesComplete,
       HoldsObservation, BatchHasOwner, ClosedIsComplete, Owns
<1> QED
  BY <1>3, <1>4, <1>5

(* An Observation is only ever added. *)
LEMMA ObserveKeepsLost ==
  ASSUME IInv, LostInv, NEW r \in Runs, Observe(r)
  PROVE  LostInv'
<1>1. CASE Owns(r) /\ obs[Cursor(r)] = None
  <2>1. \A s \in Runs \ {r} : pc'[s] = pc[s] /\ result'[s] = result[s]
    BY RunsStepAlone DEF Work, Alone, Others
  <2>2. \A s \in Runs : Cursor(s)' = Cursor(s)
    BY <1>1 DEF Observe, Cursor
  <2>3. UNCHANGED <<batch, owner, open>>
    BY <1>1 DEF Observe
  <2>4. Cursor(r) \in Calls /\ result[r] # None
    BY CurrentOperation DEF Observe, CallPoints, LostInv, HoldsObservation
  <2>5. /\ \A i \in Calls : obs[i] # None => obs'[i] # None
        /\ obs'[Cursor(r)] # None
        /\ Missing = {} => Missing' = {}
    BY <1>1, <2>4 DEF Observe, IInv, DurableTypeOK, Missing
  <2>6. pc'[r] \in {"denied", "advance"}
    BY <1>1 DEF Observe, Goto, IInv, LocalTypeOK
  <2>7. \A s \in Runs : pc[s] \in {"denied", "advance"} => Cursor(s) \in Calls
    BY CurrentOperation DEF CallPoints
  <2>8. AnsweredBehind' /\ AnsweredAtCursor'
    BY <2>1, <2>2, <2>5, <2>7 DEF LostInv, AnsweredBehind, AnsweredAtCursor
  <2> QED
    BY <2>1, <2>2, <2>3, <2>5, <2>6, <2>8 DEF LostInv, LeavesComplete, OwnerLeavesComplete, HoldsObservation,
       BatchHasOwner, ClosedIsComplete, Owns
<1>2. CASE ~(Owns(r) /\ obs[Cursor(r)] = None)
  <2>1. Raise(r)
    BY <1>2 DEF Observe, Raise
  <2>2. Within(r)
    BY <2>1, PiecesAreAlone DEF Within, KeepFiles, durableVars, Cursor
  <2> QED
    BY <2>2, WithinKeepsLost
<1> QED
  BY <1>1, <1>2

(* No call of the batch is lost, for any number of Runs that crash, resume *)
(* and overlap on any batch: a checkpoint never points past a call without *)
(* an Observation, and neither the owner at the model step nor a terminal  *)
(* Turn leaves one behind (_advance_pending_cursor, resume_pending_calls   *)
(* and _close_terminal_batch of tool_execution.py).                        *)
THEOREM CallsAreNotLost == Spec => []NoCallIsLost
<1>1. IInv /\ LostInv /\ [Next]_vars => LostInv'
  <2> SUFFICES ASSUME IInv, LostInv, [Next]_vars PROVE LostInv'
    OBVIOUS
  <2>1. CASE UNCHANGED <<durableVars, localVars>>
    BY <2>1 DEF LostInv, AnsweredBehind, AnsweredAtCursor, LeavesComplete, OwnerLeavesComplete, HoldsObservation,
       BatchHasOwner, ClosedIsComplete, Missing, Owns, Cursor, durableVars, localVars
  <2>2. ASSUME NEW r \in Runs, Begin(r) \/ Resume(r) \/ Work(r) \/ Crash(r) PROVE LostInv'
    BY <2>2, CallStepsAreWithin, WithinKeepsLost, OpeningKeepsLost, ModelKeepsLost, LoopKeepsLost, ObserveKeepsLost
       DEF Work
  <2> QED
    BY <2>1, <2>2 DEF Next, Environment, vars
<1>2. IInv /\ LostInv => NoCallIsLost
  <2> SUFFICES ASSUME IInv, LostInv PROVE NoCallIsLost
    OBVIOUS
  <2>1. ASSUME NEW r \in Runs, NEW i \in 1..(Cursor(r) - 1) PROVE obs[i] # None
    <3>1. Cursor(r) \in 0..Len(Batch)
      BY DEF IInv, DurableTypeOK, Cursor
    <3>2. i \in Calls /\ i < Cursor(r)
      BY <3>1, BatchIsFinite DEF Calls
    <3> QED
      BY <3>2 DEF LostInv, AnsweredBehind
  <2> QED
    BY <2>1 DEF NoCallIsLost, LostInv, OwnerLeavesComplete, ClosedIsComplete
<1> QED
  BY <1>1, <1>2, InitLostInv, InductiveInvariant, PTL DEF Spec

----------------------------------------------------------------------------
(* A success was executed.  The effect is there before the Run holds the   *)
(* result, the record says so only afterwards, and effects are not undone. *)
ObservedSuccess ==
  \A i \in Calls : obs[i] = "ok" /\ Batch[i] \in Tracked => effects[Batch[i]] >= 1
HeldSuccess ==
  \A r \in Runs : /\ pc[r] \in {"record", "observe"} /\ result[r] = "ok"
                 /\ Op(r) \in Tracked => effects[Op(r)] >= 1
RecordOfTracked == \A r \in Runs : pc[r] = "record" => Op(r) \in Tracked
RecordedSuccess == \A op \in Ops : ledger[op].status = "executed" => effects[op] >= 1

SuccessIsReal == ObservedSuccess /\ HeldSuccess /\ RecordOfTracked /\ RecordedSuccess

(* The tool adds to the effects, and nothing takes from them. *)
LEMMA EffectsOnlyGrow ==
  ASSUME IInv, NEW r \in Runs, Executes(r), NEW op \in Ops
  PROVE  /\ effects[op] \in Nat /\ effects'[op] \in Nat /\ effects'[op] >= effects[op]
         /\ result'[r] = "ok" /\ Op(r) \in Tracked => effects'[Op(r)] >= 1
<1>1. Op(r) \in Ops /\ effects \in [Ops -> 0..2]
  BY CurrentOperation DEF Executes, Execute, CallPoints, IInv, LedgerTypeOK, MaxEffects
<1>2. PICK outcome \in Outcomes : Execute(r, outcome)
  BY DEF Executes
<1>3. result'[r] = "ok" => outcome = "done"
  BY <1>2 DEF Execute, IInv, LocalTypeOK
<1>4. \/ effects[Op(r)] < 2 /\ effects' = [effects EXCEPT ![Op(r)] = @ + 1]
      \/ effects' = effects /\ (effects[Op(r)] < 2 => ~(Op(r) \in Tracked /\ outcome # "clean_failure"))
  BY <1>2 DEF Execute, MaxEffects
<1>5. CASE effects[Op(r)] < 2 /\ effects' = [effects EXCEPT ![Op(r)] = @ + 1]
  BY <1>1, <1>5
<1>6. CASE effects' = effects /\ (effects[Op(r)] < 2 => ~(Op(r) \in Tracked /\ outcome # "clean_failure"))
  <2>1. outcome = "done" /\ Op(r) \in Tracked => effects[Op(r)] >= 1
    BY <1>1, <1>6
  <2> QED
    BY <1>1, <1>3, <1>6, <2>1
<1> QED
  BY <1>4, <1>5, <1>6

(* The Observations a Run holds: the one it had, a new one that is not a    *)
(* success, the replay of an executed record, or that of the tool.         *)
LEMMA ResultsOfSteps ==
  ASSUME IInv, NEW r \in Runs, Begin(r) \/ Resume(r) \/ Work(r) \/ Crash(r),
         pc'[r] \in {"record", "observe"}, result'[r] = "ok"
  PROVE  /\ Op(r)' = Op(r) /\ obs' = obs
         /\ \/ Executes(r)
            \/ pc[r] = "record" /\ result[r] = "ok"
            \/ ledger[Op(r)].status = "executed" \/ Op(r) \notin Tracked
<1>1. \A observation, next :
        Answer(r, observation, next) => result'[r] = observation /\ Op(r)' = Op(r) /\ obs' = obs
  <2>1. \A observation, next : Answer(r, observation, next) => Op(r)' = Op(r) /\ obs' = obs
    BY DEF Answer, durableVars, Op, Cursor
  <2> QED
    BY <2>1, PiecesAreAlone
<1>2. \A point : Step(r, point) => pc'[r] = point /\ Op(r)' = Op(r) /\ obs' = obs
  BY StepIsLocal DEF Step, durableVars, Op
<1>3. Raise(r) \/ Suspend(r) => pc'[r] = "ended"
  BY PiecesAreAlone
<1>4. ~(CloseUnexecuted(r) \/ ControlSignal(r) \/ Reject(r) \/ StayWaiting(r) \/ Crash(r))
  BY <1>1, <1>3 DEF CloseUnexecuted, ControlSignal, Reject, StayWaiting, Crash
<1>5. CASE Resolve(r)
  BY <1>1, <1>2, <1>5 DEF Resolve
<1>6. ~(Plan(r) \/ RecordPending(r) \/ Approve(r) \/ RevokeApproval(r) \/ EnsureApproved(r) \/ ClaimExecution(r))
  BY <1>2, <1>3 DEF Plan, RecordPending, Approve, RevokeApproval, EnsureApproved, ClaimExecution
<1>7. CASE RecordResult(r)
  BY <1>2, <1>3, <1>7, StepIsLocal DEF RecordResult
<1>8. ~(\/ AwaitApproval(r) \/ Permit(r) \/ TakeCall(r) \/ ReadApproval(r) \/ RequestApproval(r)
        \/ LeaveBatch(r) \/ PassAnswered(r) \/ SaveDenied(r) \/ Advance(r))
  BY <1>2 DEF AwaitApproval, Permit, TakeCall, ReadApproval, RequestApproval, LeaveBatch, PassAnswered, SaveDenied,
     Advance, Goto, IInv, LocalTypeOK
<1>9. ~(Begin(r) \/ Resume(r) \/ Restore(r) \/ ResumePending(r) \/ Propose(r) \/ PointToBatch(r)
        \/ Complete(r) \/ Finish(r) \/ Observe(r))
  BY <1>3, PiecesAreAlone DEF Begin, Resume, Restore, ResumePending, Propose, PointToBatch, Complete, Finish,
     Observe,
     Goto, IInv, LocalTypeOK
<1>10. CASE Executes(r)
  BY <1>10 DEF Executes, Execute, durableVars, Op, Cursor
<1> QED
  BY <1>4, <1>5, <1>6, <1>7, <1>8, <1>9, <1>10 DEF Work, Govern, RunTool, Executes

(* Observations are written by Observe only. *)
LEMMA WritersOfObservations ==
  ASSUME NEW r \in Runs, Begin(r) \/ Resume(r) \/ Work(r) \/ Crash(r)
  PROVE  obs' = obs \/ (Observe(r) /\ Owns(r) /\ obs[Cursor(r)] = None)
<1>1. Raise(r) \/ Suspend(r) \/ (\E o, n : Answer(r, o, n)) \/ (\E point : Step(r, point)) => obs' = obs
  BY DEF Raise, Suspend, Answer, Step, durableVars, KeepFiles
<1>2. \/ Begin(r) \/ Resume(r) \/ Restore(r) \/ ResumePending(r) \/ PointToBatch(r) \/ Complete(r)
      \/ Finish(r) \/ LeaveBatch(r) \/ TakeCall(r) \/ SaveDenied(r) \/ Propose(r)
      \/ Advance(r) \/ ReadApproval(r) \/ RequestApproval(r) \/ AwaitApproval(r) \/ Permit(r)
      => obs' = obs
  BY <1>1 DEF Begin, Resume, Restore, ResumePending, PointToBatch, Complete, Finish, LeaveBatch, TakeCall,
     SaveDenied, Propose, Advance, ReadApproval, RequestApproval, AwaitApproval, Permit, durableVars, KeepFiles
<1>3. PassAnswered(r) \/ CloseUnexecuted(r) \/ ControlSignal(r) \/ Resolve(r) \/ Crash(r) => obs' = obs
  BY <1>1 DEF PassAnswered, CloseUnexecuted, ControlSignal, Resolve, Crash
<1>4. Plan(r) \/ RecordPending(r) \/ Approve(r) \/ Reject(r) \/ RevokeApproval(r) \/ StayWaiting(r) => obs' = obs
  BY <1>1 DEF Plan, RecordPending, Approve, Reject, RevokeApproval, StayWaiting
<1>5. RunTool(r) => obs' = obs
  BY <1>1 DEF RunTool, EnsureApproved, ClaimExecution, Execute, RecordResult, durableVars
<1>6. Observe(r) => obs' = obs \/ (Owns(r) /\ obs[Cursor(r)] = None)
  BY DEF Observe, durableVars
<1> QED
  BY <1>1, <1>2, <1>3, <1>4, <1>5, <1>6 DEF Work, Govern

(* What happens to the effects, the records and the Observations in a step. *)
LEMMA SuccessSteps ==
  ASSUME IInv, SuccessIsReal, Next
  PROVE  SuccessIsReal'
<1>1. ASSUME NEW op \in Ops
      PROVE  effects[op] \in Nat /\ effects'[op] \in Nat /\ effects'[op] >= effects[op]
  <2>1. effects \in [Ops -> 0..2]
    BY DEF IInv, LedgerTypeOK, MaxEffects
  <2>2. effects' = effects \/ \E r \in Runs : Executes(r)
    BY LedgerSteps DEF Quiet, Reopens, Claims, ClaimExecution, Commits, RecordResult
  <2> QED
    BY <2>1, <2>2, EffectsOnlyGrow
<1>2. ASSUME NEW op \in Ops, effects[op] >= 1 PROVE effects'[op] >= 1
  BY <1>1, <1>2
<1>3. ASSUME NEW op \in Ops, ledger'[op].status = "executed" PROVE effects'[op] >= 1
  <2>1. CASE ledger[op].status = "executed"
    BY <1>2, <2>1 DEF SuccessIsReal, ObservedSuccess, HeldSuccess, RecordOfTracked, RecordedSuccess
  <2>2. CASE ledger[op].status # "executed"
    <3>1. PICK r \in Runs : Claims(r) \/ Commits(r)
      BY <1>3, <2>2, LedgerSteps DEF Quiet, Reopens, Executes, Execute
    <3>2. Op(r) \in Ops
      BY <3>1, CurrentOperation DEF Claims, ClaimExecution, Commits, RecordResult, CallPoints
    <3>3. PICK status \in {"executing", "executed", "failed"} :
            /\ ledger' = Moved(Op(r), status, r) \/ ledger' = Finished(Op(r), r, status)
            /\ status = "executed" => pc[r] = "record" /\ result[r] = "ok"
      BY <3>1 DEF Claims, ClaimExecution, Commits, RecordResult
    <3>4. Op(r) = op /\ ledger'[op].status = status
      BY <1>3, <2>2, <3>2, <3>3, OneRecordChanges DEF IInv
    <3>5. pc[r] = "record" /\ result[r] = "ok"
      BY <1>3, <3>3, <3>4
    <3> QED
      BY <1>2, <3>4, <3>5 DEF SuccessIsReal, ObservedSuccess, HeldSuccess, RecordOfTracked, RecordedSuccess
  <2> QED
    BY <2>1, <2>2
<1>4. ASSUME NEW r \in Runs, pc'[r] = "record" PROVE Op(r)' \in Tracked
  <2>1. CASE UNCHANGED <<durableVars, localVars>>
    BY <1>4, <2>1 DEF SuccessIsReal, ObservedSuccess, HeldSuccess, RecordOfTracked, RecordedSuccess, durableVars,
       localVars, Op, Cursor
  <2>2. ASSUME NEW s \in Runs, Executes(s) PROVE Op(r)' \in Tracked
    BY <1>4, <2>2 DEF SuccessIsReal, ObservedSuccess, HeldSuccess, RecordOfTracked, RecordedSuccess, Executes,
       Execute, Goto, Op, Cursor, durableVars, IInv, LocalTypeOK
  <2>3. ASSUME NEW s \in Runs, Quiet(s) \/ Reopens(s) \/ Claims(s) \/ Commits(s) PROVE Op(r)' \in Tracked
    <3>1. s # r /\ Others(s)
      BY <1>4, <2>3, StepIsLocal DEF Quiet, Reopens, Claims, ClaimExecution, Commits, RecordResult
    <3> QED
      BY <1>4, <3>1 DEF SuccessIsReal, ObservedSuccess, HeldSuccess, RecordOfTracked, RecordedSuccess, Others, Op
  <2> QED
    BY <2>1, <2>2, <2>3, LedgerSteps
<1>5. ASSUME NEW r \in Runs, pc'[r] \in {"record", "observe"}, result'[r] = "ok", Op(r)' \in Tracked
      PROVE  effects'[Op(r)'] >= 1
  <2>1. CASE pc'[r] = pc[r] /\ Cursor(r)' = Cursor(r) /\ result'[r] = result[r]
    <3>1. Op(r)' = Op(r) /\ Op(r) \in Ops
      BY <1>5, <2>1, CurrentOperation DEF Op, CallPoints
    <3> QED
      BY <1>2, <1>5, <2>1, <3>1 DEF SuccessIsReal, ObservedSuccess, HeldSuccess, RecordOfTracked, RecordedSuccess
  <2>2. CASE Begin(r) \/ Resume(r) \/ Work(r) \/ Crash(r)
    <3>1. Op(r)' = Op(r) /\ Op(r) \in Ops
      BY <1>5, <2>2, ResultsOfSteps DEF Tracked
    <3>2. CASE Executes(r)
      BY <1>5, <3>1, <3>2, EffectsOnlyGrow
    <3>3. CASE pc[r] = "record" /\ result[r] = "ok"
      BY <1>2, <1>5, <3>1, <3>3 DEF SuccessIsReal, ObservedSuccess, HeldSuccess, RecordOfTracked, RecordedSuccess
    <3>4. CASE ledger[Op(r)].status = "executed"
      BY <1>2, <3>1, <3>4 DEF SuccessIsReal, ObservedSuccess, HeldSuccess, RecordOfTracked, RecordedSuccess
    <3> QED
      BY <1>5, <2>2, <3>1, <3>2, <3>3, <3>4, ResultsOfSteps
  <2>3. ASSUME NEW s \in Runs \ {r}, Begin(s) \/ Resume(s) \/ Work(s) \/ Crash(s) PROVE effects'[Op(r)'] >= 1
    BY <2>1, <2>3, RunsStepAlone DEF Alone, Others
  <2>4. CASE Environment
    BY <2>1, <2>4 DEF Environment, durableVars, localVars, Cursor
  <2> QED
    BY <2>2, <2>3, <2>4 DEF Next
<1>6. ASSUME NEW i \in Calls, obs'[i] = "ok", Batch[i] \in Tracked PROVE effects'[Batch[i]] >= 1
  <2>1. CASE obs[i] = "ok"
    BY <1>2, <1>6, <2>1 DEF SuccessIsReal, ObservedSuccess, HeldSuccess, RecordOfTracked, RecordedSuccess, Tracked
  <2>2. CASE obs[i] # "ok"
    <3>1. PICK r \in Runs : Observe(r) /\ Owns(r) /\ obs[Cursor(r)] = None
      BY <1>6, <2>2, WritersOfObservations DEF Next, Environment, durableVars
    <3>2. i = Cursor(r) /\ result[r] = "ok"
      BY <1>6, <2>2, <3>1 DEF Observe, IInv, DurableTypeOK
    <3>3. Op(r) = Batch[i] /\ pc[r] = "observe"
      BY <3>1, <3>2 DEF Observe, Op
    <3> QED
      BY <1>2, <1>6, <3>2, <3>3 DEF SuccessIsReal, ObservedSuccess, HeldSuccess, RecordOfTracked,
         RecordedSuccess, Tracked
  <2> QED
    BY <2>1, <2>2
<1>7. ObservedSuccess'
  BY <1>6 DEF ObservedSuccess
<1>8. HeldSuccess' /\ RecordOfTracked'
  BY <1>4, <1>5 DEF HeldSuccess, RecordOfTracked
<1>9. RecordedSuccess'
  BY <1>3 DEF RecordedSuccess
<1> QED
  BY <1>7, <1>8, <1>9 DEF SuccessIsReal

(* A call is withdrawn behind a rejected one: only the Run that rejected   *)
(* skips, from the Observation of the rejected call to the end of the      *)
(* batch.                                                                  *)
RejectedBefore(c) == \E j \in Calls : j < c /\ obs[j] = "rejected"

WithdrawnBehind == \A i \in Calls : obs[i] = "withdrawn" => RejectedBefore(i)
WithdrawsInSkip ==
  \A r \in Runs : pc[r] \in {"record", "observe"} /\ result[r] = "withdrawn" => mode[r] = "skip"
SkipsBehind ==
  \A r \in Runs : mode[r] = "skip" =>
    /\ pc[r] \in {"observe", "advance", "call"}
    /\ pc[r] = "observe" => result[r] = "rejected" \/ (result[r] = "withdrawn" /\ RejectedBefore(Cursor(r)))
    /\ pc[r] = "advance" => RejectedBefore(Cursor(r) + 1)
    /\ pc[r] = "call" /\ Cursor(r) # 0 => RejectedBefore(Cursor(r))

SkipInv == WithdrawnBehind /\ WithdrawsInSkip /\ SkipsBehind

(* The steps after which a Run skips the rest of the batch. *)
LEMMA StepsThatSkip ==
  ASSUME IInv, SkipInv, NEW r \in Runs, Begin(r) \/ Resume(r) \/ Work(r) \/ Crash(r), mode'[r] = "skip"
  PROVE  \/ Reject(r)
         \/ pc[r] = "call" /\ Cursor(r) # 0 /\ mode[r] = "skip" /\ Answer(r, "withdrawn", "skip")
         \/ mode[r] = "skip" /\ (PassAnswered(r) \/ Advance(r) \/ (Observe(r) /\ Owns(r)))
<1>1. \A observation, next : Answer(r, observation, next) => mode'[r] = next
  BY PiecesAreAlone
<1>2. \A point : Step(r, point) => mode' = mode
  BY DEF Step, KeepLocals
<1>3. ~(Raise(r) \/ Suspend(r) \/ End(r))
  BY PiecesAreAlone DEF Raise
<1>4. mode[r] = "skip" => pc[r] \in {"observe", "advance", "call"}
  BY DEF SkipInv, SkipsBehind
<1>5. CASE CloseUnexecuted(r)
  BY <1>1, <1>5 DEF CloseUnexecuted
<1>6. ~(ControlSignal(r) \/ StayWaiting(r) \/ Crash(r) \/ Resolve(r) \/ Complete(r) \/ Finish(r))
  BY <1>1, <1>2, <1>3, <1>4 DEF ControlSignal, StayWaiting, Crash, Resolve, Complete, Finish
<1>7. ~(Plan(r) \/ RecordPending(r) \/ Approve(r) \/ RevokeApproval(r) \/ EnsureApproved(r) \/ ClaimExecution(r)
        \/ RecordResult(r))
  BY <1>2, <1>3, <1>4 DEF Plan, RecordPending, Approve, RevokeApproval, EnsureApproved, ClaimExecution, RecordResult
<1>8. ~(AwaitApproval(r) \/ Permit(r) \/ TakeCall(r) \/ ReadApproval(r) \/ RequestApproval(r) \/ LeaveBatch(r)
        \/ SaveDenied(r))
  BY <1>4 DEF AwaitApproval, Permit, TakeCall, ReadApproval, RequestApproval, LeaveBatch, SaveDenied, KeepLocals,
     IInv, LocalTypeOK
<1>9. ~(Begin(r) \/ Resume(r) \/ Restore(r) \/ ResumePending(r) \/ Propose(r) \/ PointToBatch(r))
  BY <1>3, <1>4 DEF Begin, Resume, Restore, ResumePending, Propose, PointToBatch, KeepLocals
<1>10. ~Executes(r)
  BY DEF Executes, Execute, IInv, LocalTypeOK
<1>11. PassAnswered(r) \/ Advance(r) \/ Observe(r) => mode[r] = "skip" /\ (Observe(r) => Owns(r))
  BY <1>2, <1>3 DEF PassAnswered, Advance, Observe, KeepLocals
<1> QED
  BY <1>5, <1>6, <1>7, <1>8, <1>9, <1>10, <1>11 DEF Work, Govern, RunTool, Executes

(* An Observation at hand that withdraws the call is that of a skipping Run. *)
LEMMA StepsThatWithdraw ==
  ASSUME IInv, NEW r \in Runs, Begin(r) \/ Resume(r) \/ Work(r) \/ Crash(r),
         pc'[r] \in {"record", "observe"}, result'[r] = "withdrawn"
  PROVE  mode'[r] = "skip" \/ (pc[r] = "record" /\ result[r] = "withdrawn")
<1>1. \A observation, next : Answer(r, observation, next) => result'[r] = observation /\ mode'[r] = next
  BY PiecesAreAlone
<1>2. \A point : Step(r, point) => pc'[r] = point /\ result' = result
  BY StepIsLocal
<1>3. ~(Raise(r) \/ Suspend(r) \/ End(r))
  BY PiecesAreAlone
<1>4. CASE CloseUnexecuted(r)
  BY <1>1, <1>4 DEF CloseUnexecuted
<1>5. ~(ControlSignal(r) \/ StayWaiting(r) \/ Crash(r) \/ Resolve(r) \/ Complete(r) \/ Finish(r) \/ Reject(r))
  BY <1>1, <1>2, <1>3 DEF ControlSignal, StayWaiting, Crash, Resolve, Complete, Finish, Reject
<1>6. ~(Plan(r) \/ RecordPending(r) \/ Approve(r) \/ RevokeApproval(r) \/ EnsureApproved(r) \/ ClaimExecution(r)
        \/ PassAnswered(r))
  BY <1>2, <1>3 DEF Plan, RecordPending, Approve, RevokeApproval, EnsureApproved, ClaimExecution, PassAnswered
<1>7. ~(AwaitApproval(r) \/ Permit(r) \/ TakeCall(r) \/ ReadApproval(r) \/ RequestApproval(r) \/ LeaveBatch(r)
        \/ SaveDenied(r) \/ Advance(r))
  BY DEF AwaitApproval, Permit, TakeCall, ReadApproval, RequestApproval, LeaveBatch, SaveDenied, Advance, Goto,
     IInv, LocalTypeOK
<1>8. ~(Begin(r) \/ Resume(r) \/ Restore(r) \/ ResumePending(r) \/ Propose(r) \/ PointToBatch(r) \/ Observe(r))
  BY <1>3 DEF Begin, Resume, Restore, ResumePending, Propose, PointToBatch, Observe, Goto, IInv, LocalTypeOK
<1>9. ~Executes(r)
  BY DEF Executes, Execute, IInv, LocalTypeOK
<1>10. CASE RecordResult(r)
  BY <1>2, <1>3, <1>10 DEF RecordResult
<1> QED
  BY <1>4, <1>5, <1>6, <1>7, <1>8, <1>9, <1>10 DEF Work, Govern, RunTool, Executes

(* Every step of a Run keeps the withdrawn calls behind a rejected one. *)
LEMMA SkipSteps ==
  ASSUME IInv, SkipInv, NEW r \in Runs, Begin(r) \/ Resume(r) \/ Work(r) \/ Crash(r)
  PROVE  SkipInv'
<1>1. \A s \in Runs \ {r} :
        pc'[s] = pc[s] /\ Cursor(s)' = Cursor(s) /\ result'[s] = result[s] /\ mode'[s] = mode[s]
  BY RunsStepAlone DEF Alone, Others
<1>2. obs' = obs \/ (Observe(r) /\ Owns(r) /\ obs[Cursor(r)] = None /\ obs' = [obs EXCEPT ![Cursor(r)] = result[r]])
  BY WritersOfObservations DEF Observe
<1>3. \A i \in Calls : obs[i] = "rejected" => obs'[i] = "rejected"
  BY <1>2 DEF IInv, DurableTypeOK, None
<1>4. \A c : RejectedBefore(c) => RejectedBefore(c)'
  BY <1>3 DEF RejectedBefore
<1>5. WithdrawnBehind'
  <2> SUFFICES ASSUME NEW i \in Calls, obs'[i] = "withdrawn" PROVE RejectedBefore(i)'
    BY DEF WithdrawnBehind
  <2>1. CASE obs[i] = "withdrawn"
    BY <1>4, <2>1 DEF SkipInv, WithdrawnBehind
  <2>2. CASE obs[i] # "withdrawn"
    <3>1. Observe(r) /\ Cursor(r) = i /\ result[r] = "withdrawn"
      BY <1>2, <2>2 DEF IInv, DurableTypeOK
    <3>2. RejectedBefore(i)
      BY <3>1 DEF Observe, SkipInv, WithdrawsInSkip, SkipsBehind
    <3> QED
      BY <1>4, <3>2
  <2> QED
    BY <2>1, <2>2
<1>6. WithdrawsInSkip'
  <2>1. pc'[r] \in {"record", "observe"} /\ result'[r] = "withdrawn" => mode'[r] = "skip"
    BY StepsThatWithdraw DEF SkipInv, WithdrawsInSkip, SkipsBehind
  <2> QED
    BY <1>1, <2>1 DEF SkipInv, WithdrawsInSkip
<1>7. mode'[r] = "skip" =>
        /\ pc'[r] \in {"observe", "advance", "call"}
        /\ pc'[r] = "observe" =>
                           result'[r] = "rejected" \/ (result'[r] = "withdrawn" /\ RejectedBefore(Cursor(r))')
        /\ pc'[r] = "advance" => RejectedBefore(Cursor(r) + 1)'
        /\ pc'[r] = "call" /\ Cursor(r)' # 0 => RejectedBefore(Cursor(r))'
  <2> SUFFICES ASSUME mode'[r] = "skip"
               PROVE  /\ pc'[r] \in {"observe", "advance", "call"}
                      /\ pc'[r] = "observe" =>
                           result'[r] = "rejected" \/ (result'[r] = "withdrawn" /\ RejectedBefore(Cursor(r))')
                      /\ pc'[r] = "advance" => RejectedBefore(Cursor(r) + 1)'
                      /\ pc'[r] = "call" /\ Cursor(r)' # 0 => RejectedBefore(Cursor(r))'
    OBVIOUS
  <2>1. CASE Reject(r)
    BY <2>1, PiecesAreAlone DEF Reject
  <2>2. CASE pc[r] = "call" /\ Cursor(r) # 0 /\ mode[r] = "skip" /\ Answer(r, "withdrawn", "skip")
    <3>1. pc'[r] = "observe" /\ Cursor(r)' = Cursor(r) /\ result'[r] = "withdrawn"
      BY <2>2, PiecesAreAlone DEF Answer, durableVars, Cursor
    <3>2. RejectedBefore(Cursor(r))
      BY <2>2 DEF SkipInv, SkipsBehind
    <3> QED
      BY <1>4, <3>1, <3>2
  <2>3. CASE mode[r] = "skip" /\ PassAnswered(r)
    <3>1. pc'[r] = "advance" /\ Cursor(r)' = Cursor(r) /\ Cursor(r) # 0
      BY <2>3, StepIsLocal DEF PassAnswered, Answered
    <3>2. RejectedBefore(Cursor(r))
      BY <2>3, <3>1 DEF PassAnswered, SkipInv, SkipsBehind
    <3>3. Cursor(r) \in Nat
      BY BatchIsFinite DEF IInv, DurableTypeOK, Cursor
    <3>4. RejectedBefore(Cursor(r) + 1)
      BY <3>2, <3>3, BatchIsFinite DEF RejectedBefore
    <3> QED
      BY <1>4, <3>1, <3>4
  <2>4. CASE mode[r] = "skip" /\ Advance(r)
    <3>1. pc'[r] = "call" /\ (Cursor(r)' # 0 => Cursor(r)' = Cursor(r) + 1)
      BY <2>4, PiecesAreAlone DEF Advance, Goto, IInv, LocalTypeOK
    <3>2. RejectedBefore(Cursor(r) + 1)
      BY <2>4 DEF Advance, SkipInv, SkipsBehind
    <3> QED
      BY <1>4, <3>1, <3>2
  <2>5. CASE mode[r] = "skip" /\ Observe(r) /\ Owns(r)
    <3>1. mode'[r] # "go"
      OBVIOUS
    <3>2. /\ obs' = [obs EXCEPT ![Cursor(r)] = result[r]]
          /\ pc'[r] \in {"advance", "denied"} /\ Cursor(r)' = Cursor(r) /\ Cursor(r) \in Calls
          /\ pc'[r] = "denied" => result[r] = "denied"
      BY <2>5, <3>1, PiecesAreAlone, CurrentOperation DEF Observe, Goto, CallPoints, IInv, LocalTypeOK, Cursor
    <3>3. result[r] = "rejected" \/ (result[r] = "withdrawn" /\ RejectedBefore(Cursor(r)))
      BY <2>5 DEF Observe, SkipInv, SkipsBehind
    <3>4. RejectedBefore(Cursor(r) + 1)'
      BY <1>3, <3>2, <3>3, BatchIsFinite DEF RejectedBefore, IInv, DurableTypeOK
    <3> QED
      BY <3>2, <3>3, <3>4 
  <2> QED
    BY <2>1, <2>2, <2>3, <2>4, <2>5, StepsThatSkip
<1>8. SkipsBehind'
  <2> SUFFICES ASSUME NEW s \in Runs, mode'[s] = "skip"
               PROVE  /\ pc'[s] \in {"observe", "advance", "call"}
                      /\ pc'[s] = "observe" =>
                           result'[s] = "rejected" \/ (result'[s] = "withdrawn" /\ RejectedBefore(Cursor(s))')
                      /\ pc'[s] = "advance" => RejectedBefore(Cursor(s) + 1)'
                      /\ pc'[s] = "call" /\ Cursor(s)' # 0 => RejectedBefore(Cursor(s))'
    BY DEF SkipsBehind
  <2>1. CASE s = r
    BY <1>7, <2>1
  <2>2. CASE s # r
    BY <1>1, <1>4, <2>2 DEF SkipInv, SkipsBehind
  <2> QED
    BY <2>1, <2>2
<1> QED
  BY <1>5, <1>6, <1>8 DEF SkipInv

----------------------------------------------------------------------------
(* What follows holds while no Run is resumed under a process that is      *)
(* alive: one process at a time works on the Turn.                         *)
OneLive == \A r \in Runs : Live(r) => owner = r

(* The thread of a Run works while it is alive, and never claims the Turn. *)
LEMMA WorkIsAlive ==
  ASSUME NEW r \in Runs, Work(r) \/ Crash(r)
  PROVE  Live(r) /\ owner' = owner
<1>1. Raise(r) \/ Suspend(r) \/ (\E o, n : Answer(r, o, n)) \/ (\E point : Step(r, point)) => owner' = owner
  BY DEF Raise, Suspend, Answer, Step, durableVars, KeepFiles
<1>2. CASE \/ Restore(r) \/ ResumePending(r) \/ PointToBatch(r) \/ Complete(r)
           \/ Finish(r) \/ LeaveBatch(r) \/ TakeCall(r) \/ SaveDenied(r) \/ Propose(r)
           \/ Advance(r) \/ ReadApproval(r) \/ RequestApproval(r) \/ AwaitApproval(r) \/ Permit(r)
  <2>1. owner' = owner
    BY <1>1, <1>2 DEF Restore, ResumePending, PointToBatch, Complete, Finish, LeaveBatch, TakeCall, SaveDenied,
       Propose, Advance, ReadApproval, RequestApproval, AwaitApproval, Permit, durableVars, KeepFiles
  <2>2. Live(r)
    BY <1>2, BatchAssumption DEF Restore, ResumePending, PointToBatch, Complete, Finish, LeaveBatch, TakeCall,
       SaveDenied, Propose, Advance, ReadApproval, RequestApproval, AwaitApproval, Permit, Live
  <2> QED
    BY <2>1, <2>2
<1>3. CASE PassAnswered(r) \/ CloseUnexecuted(r) \/ ControlSignal(r) \/ Resolve(r) \/ Crash(r)
  BY <1>1, <1>3 DEF PassAnswered, CloseUnexecuted, ControlSignal, Resolve, Crash, Live
<1>4. CASE Plan(r) \/ RecordPending(r) \/ Approve(r) \/ Reject(r) \/ RevokeApproval(r) \/ StayWaiting(r)
  BY <1>1, <1>4 DEF Plan, RecordPending, Approve, Reject, RevokeApproval, StayWaiting, Live
<1>5. CASE RunTool(r)
  BY <1>1, <1>5 DEF RunTool, EnsureApproved, ClaimExecution, Execute, RecordResult, durableVars, Live
<1>6. CASE Observe(r)
  BY <1>6 DEF Observe, durableVars, Live
<1> QED
  BY <1>2, <1>3, <1>4, <1>5, <1>6 DEF Work, Govern

(* Without an overlap the owner is the only process alive, and only it     *)
(* works.                                                                  *)
LEMMA OneLiveSteps ==
  ASSUME "overlap" \notin Faults, IInv, OneLive, NEW r \in Runs, Begin(r) \/ Resume(r) \/ Work(r) \/ Crash(r)
  PROVE  OneLive' /\ \A s \in Runs \ {r} : ~Live(s) /\ ~Live(s)'
<1>1. \A s \in Runs \ {r} : Live(s)' = Live(s)
  BY RunsStepAlone DEF Alone, Others, Live
<1>2. CASE Begin(r) \/ Resume(r)
  <2>1. \A s \in Runs : ~Live(s)
    BY <1>2, OperationAssumption DEF Begin, Resume, OneLive, IInv, DurableTypeOK
  <2>2. owner' = r
    BY <1>2 DEF Begin, Resume
  <2> QED
    BY <1>1, <2>1, <2>2 DEF OneLive
<1>3. CASE Work(r) \/ Crash(r)
  <2>1. owner = r /\ owner' = r
    BY <1>3, WorkIsAlive DEF OneLive
  <2> QED
    BY <1>1, <2>1 DEF OneLive
<1> QED
  BY <1>2, <1>3

----------------------------------------------------------------------------
(* An approval is used for the target it was given for.  A request always  *)
(* carries a fingerprint; what a Run read of an approval is what the file  *)
(* still says, since an approved request is only ever marked stale by a    *)
(* Run.                                                                    *)
WithPrint == CallPoints \ {"denied", "advance", "observe", "record"}

PrintsAreTaken ==
  /\ \A op \in Ops : approvals[op].status # "none" => approvals[op].print # Unset
  /\ \A r \in Runs : pc[r] \in WithPrint => print[r] # Unset

ReadIsCurrent ==
  \A r \in Runs : pc[r] \in {"pend", "wait", "decide"} /\ seen[r].status = "approved"
    => approvals[Op(r)] = seen[r]

ApprovalInv == OneLive /\ PrintsAreTaken /\ ReadIsCurrent /\ ApprovedTargetOnly

(* The fingerprint of a Run at work on a call is taken when it takes the   *)
(* call.                                                                   *)
LEMMA PrintsOfSteps ==
  ASSUME IInv, NEW r \in Runs, Begin(r) \/ Resume(r) \/ Work(r) \/ Crash(r), pc'[r] \in WithPrint
  PROVE  print'[r] # Unset \/ (pc[r] \in WithPrint /\ print' = print)
<1>1. \A observation, next : Answer(r, observation, next) => pc'[r] = "observe"
  BY PiecesAreAlone
<1>2. \A point : Step(r, point) => pc'[r] = point /\ print' = print
  BY StepIsLocal DEF Step, KeepLocals
<1>3. ~(Raise(r) \/ Suspend(r) \/ End(r))
  BY PiecesAreAlone DEF WithPrint, CallPoints
<1>4. ~(CloseUnexecuted(r) \/ ControlSignal(r) \/ StayWaiting(r) \/ Crash(r) \/ Complete(r) \/ Finish(r) \/ Reject(r))
  BY <1>1, <1>3 DEF CloseUnexecuted, ControlSignal, StayWaiting, Crash, Complete, Finish, Reject, WithPrint
<1>5. CASE Resolve(r)
  BY <1>1, <1>2, <1>5 DEF Resolve, WithPrint, CallPoints
<1>6. CASE Plan(r) \/ RecordPending(r) \/ Approve(r) \/ RevokeApproval(r) \/ EnsureApproved(r) \/ ClaimExecution(r)
           \/ RecordResult(r) \/ PassAnswered(r)
  BY <1>2, <1>3, <1>6 DEF Plan, RecordPending, Approve, RevokeApproval, EnsureApproved, ClaimExecution,
     RecordResult,
     PassAnswered, WithPrint, CallPoints
<1>7. CASE AwaitApproval(r) \/ Permit(r) \/ ReadApproval(r) \/ RequestApproval(r)
  BY <1>7 DEF AwaitApproval, Permit, ReadApproval, RequestApproval, KeepLocals, WithPrint, CallPoints
<1>8. CASE TakeCall(r)
  <2>1. print'[r] = Fingerprint(Op(r))
    BY <1>8 DEF TakeCall, IInv, LocalTypeOK
  <2> QED
    BY <2>1, OperationAssumption DEF Fingerprint, Fixed, Unset, IInv, LedgerTypeOK
<1>9. ~(LeaveBatch(r) \/ SaveDenied(r) \/ Advance(r) \/ Executes(r))
  BY DEF LeaveBatch, SaveDenied, Advance, Executes, Execute, Goto, WithPrint, CallPoints, IInv, LocalTypeOK
<1>10. ~(Begin(r) \/ Resume(r) \/ Restore(r) \/ ResumePending(r) \/ Propose(r) \/ PointToBatch(r) \/ Observe(r))
  BY <1>3 DEF Begin, Resume, Restore, ResumePending, Propose, PointToBatch, Observe, Goto, WithPrint, CallPoints,
     IInv,
     LocalTypeOK
<1> QED
  BY <1>4, <1>5, <1>6, <1>7, <1>8, <1>9, <1>10 DEF Work, Govern, RunTool, Executes

(* How a Run comes to wait for a decision, or to a tool. *)
LEMMA Arrivals ==
  ASSUME IInv, NEW r \in Runs, Begin(r) \/ Resume(r) \/ Work(r) \/ Crash(r)
  PROVE  /\ pc'[r] \in {"pend", "wait", "decide"} =>
              ReadApproval(r) \/ RequestApproval(r) \/ RecordPending(r) \/ AwaitApproval(r)
         /\ pc'[r] \in {"permit", "control", "claim", "gateway"} =>
              \/ Approve(r) \/ Permit(r) \/ EnsureApproved(r) \/ ClaimExecution(r)
              \/ Resolve(r) /\ Policy[Op(r)] = "allow"
<1> DEFINE There == pc'[r] \in {"pend", "wait", "decide", "permit", "control", "claim", "gateway"}
<1>1. \A observation, next : Answer(r, observation, next) => ~There
  BY PiecesAreAlone
<1>2. \A point : Step(r, point) => pc'[r] = point
  BY StepIsLocal
<1>3. Raise(r) \/ Suspend(r) \/ End(r) => ~There
  BY PiecesAreAlone
<1>4. CloseUnexecuted(r) \/ ControlSignal(r) \/ StayWaiting(r) \/ Crash(r) \/ Complete(r) \/ Finish(r) \/ Reject(r)
      => ~There
  BY <1>1, <1>3 DEF CloseUnexecuted, ControlSignal, StayWaiting, Crash, Complete, Finish, Reject
<1>5. Resolve(r) => ~There \/ (pc'[r] = "control" /\ Policy[Op(r)] = "allow")
  BY <1>1, <1>2 DEF Resolve
<1>6. Plan(r) \/ PassAnswered(r) \/ RecordResult(r) \/ RevokeApproval(r) => ~There
  BY <1>2, <1>3 DEF Plan, PassAnswered, RecordResult, RevokeApproval
<1>7. LeaveBatch(r) \/ SaveDenied(r) \/ Advance(r) \/ Executes(r) \/ TakeCall(r) => ~There
  BY DEF LeaveBatch, SaveDenied, Advance, Executes, Execute, TakeCall, Goto, IInv, LocalTypeOK
<1>8. Begin(r) \/ Resume(r) \/ Restore(r) \/ ResumePending(r) \/ Propose(r) \/ PointToBatch(r) \/ Observe(r) => ~There
  BY <1>3 DEF Begin, Resume, Restore, ResumePending, Propose, PointToBatch, Observe, Goto, IInv, LocalTypeOK
<1>9. RecordPending(r) \/ AwaitApproval(r) \/ ReadApproval(r) \/ RequestApproval(r)
      => pc'[r] \notin {"permit", "control", "claim", "gateway"}
  BY <1>2, <1>3 DEF RecordPending, AwaitApproval, ReadApproval, RequestApproval, Goto, IInv, LocalTypeOK
<1>10. Approve(r) \/ Permit(r) \/ EnsureApproved(r) \/ ClaimExecution(r) => pc'[r] \notin {"pend", "wait", "decide"}
  BY <1>2, <1>3 DEF Approve, Permit, EnsureApproved, ClaimExecution, Goto, IInv, LocalTypeOK
<1> QED
  BY <1>4, <1>5, <1>6, <1>7, <1>8, <1>9, <1>10 DEF Work, Govern, RunTool, Executes

(* Every step keeps the approvals in use. *)
LEMMA ApprovalSteps ==
  ASSUME "overlap" \notin Faults, IInv, ApprovalInv, NEW r \in Runs, Begin(r) \/ Resume(r) \/ Work(r) \/ Crash(r)
  PROVE  ApprovalInv'
<1>1. OneLive' /\ \A s \in Runs \ {r} : ~Live(s) /\ ~Live(s)'
  BY OneLiveSteps DEF ApprovalInv
<1>2. \A s \in Runs \ {r} :
        pc'[s] \notin WithPrint /\ pc'[s] \notin {"pend", "wait", "decide", "permit", "control", "claim", "gateway"}
  BY <1>1 DEF Live, WithPrint, CallPoints, IInv, LocalTypeOK
<1>3. \A op \in Ops : approvals'[op].status # "none" => approvals'[op].print # Unset
  <2>1. approvals \in [Ops -> Approvals]
    BY DEF IInv, LedgerTypeOK
  <2>2. CASE approvals' = approvals
    BY <2>2 DEF ApprovalInv, PrintsAreTaken
  <2>3. CASE RequestApproval(r)
    <3>1. print[r] # Unset
      BY <2>3 DEF RequestApproval, ApprovalInv, PrintsAreTaken, WithPrint, CallPoints
    <3> QED
      BY <2>1, <2>3, <3>1 DEF RequestApproval, Requested, ApprovalInv, PrintsAreTaken
  <2>4. CASE RevokeApproval(r) /\ CanMarkStale(Op(r))
    <3>1. approvals' = [approvals EXCEPT ![Op(r)].status = "stale"] /\ approvals[Op(r)].status # "none"
      BY <2>4 DEF RevokeApproval, CanMarkStale
    <3> QED
      BY <2>1, <3>1 DEF ApprovalInv, PrintsAreTaken, Approvals
  <2>5. CASE RevokeApproval(r) /\ ~CanMarkStale(Op(r))
    BY <2>2, <2>5 DEF RevokeApproval, Raise, ledgerVars
  <2> QED
    BY <2>2, <2>3, <2>4, <2>5, RunsKeepApprovals
<1>4. PrintsAreTaken'
  <2>1. pc'[r] \in WithPrint => print'[r] # Unset
    BY PrintsOfSteps DEF ApprovalInv, PrintsAreTaken
  <2> QED
    BY <1>2, <1>3, <2>1 DEF PrintsAreTaken
<1>5. pc'[r] \in {"pend", "wait", "decide"} /\ seen'[r].status = "approved" => approvals'[Op(r)'] = seen'[r]
  <2> SUFFICES ASSUME pc'[r] \in {"pend", "wait", "decide"}, seen'[r].status = "approved"
               PROVE  approvals'[Op(r)'] = seen'[r]
    OBVIOUS
  <2>1. CASE ReadApproval(r) \/ RequestApproval(r)
    BY <2>1 DEF ReadApproval, RequestApproval, durableVars, ledgerVars, Op, Cursor, IInv, LocalTypeOK
  <2>2. CASE RecordPending(r)
    <3>1. /\ Op(r)' = Op(r) /\ approvals' = approvals /\ seen' = seen /\ pc[r] = "pend"
      BY <2>2, StepIsLocal, PiecesAreAlone DEF RecordPending, Step, KeepLocals, Op
    <3> QED
      BY <3>1 DEF ApprovalInv, ReadIsCurrent
  <2>3. CASE AwaitApproval(r)
    <3>1. /\ Cursor(r)' = Cursor(r) /\ approvals' = approvals /\ seen' = seen /\ pc[r] = "wait"
      BY <2>3, PiecesAreAlone DEF AwaitApproval, SaveStatus, KeepLocals, ledgerVars
    <3> QED
      BY <3>1 DEF ApprovalInv, ReadIsCurrent, Op
  <2> QED
    BY <2>1, <2>2, <2>3, Arrivals
<1>6. ReadIsCurrent'
  BY <1>2, <1>5 DEF ReadIsCurrent
<1>7. pc'[r] \in {"permit", "control", "claim", "gateway"} /\ Policy[Op(r)'] = "ask" /\ r \notin AutoRuns
      => approvals'[Op(r)'] = [status |-> "approved", print |-> print'[r]]
  <2> SUFFICES ASSUME pc'[r] \in {"permit", "control", "claim", "gateway"}, Policy[Op(r)'] = "ask",
  r \notin AutoRuns
               PROVE  approvals'[Op(r)'] = [status |-> "approved", print |-> print'[r]]
    OBVIOUS
  <2>1. CASE Approve(r)
    <3>1. Op(r)' = Op(r) /\ approvals' = approvals /\ print' = print /\ Op(r) \in Ops
      BY <2>1, StepIsLocal, PiecesAreAlone, CurrentOperation DEF Approve, Step, KeepLocals, Op, CallPoints
    <3>2. seen[r].status = "approved" /\ approvals[Op(r)] = seen[r]
      BY <2>1 DEF Approve, IsApproved, ApprovalInv, ReadIsCurrent
    <3>3. seen[r].print = print[r]
      BY <2>1, <3>1, <3>2 DEF Approve, TargetDrifted, ApprovalInv, PrintsAreTaken
    <3>4. seen[r] \in Approvals
      BY DEF IInv, LocalTypeOK
    <3> QED
      BY <3>1, <3>2, <3>3, <3>4 DEF Approvals
  <2>2. CASE EnsureApproved(r) \/ ClaimExecution(r)
    <3>1. /\ Op(r)' = Op(r) /\ approvals' = approvals /\ print' = print /\ pc[r] \in {"control", "claim"}
      BY <2>2, StepIsLocal, PiecesAreAlone DEF EnsureApproved, ClaimExecution, Step, KeepLocals, Op
    <3> QED
      BY <3>1 DEF ApprovalInv, ApprovedTargetOnly
  <2>3. CASE Permit(r)
    <3>1. /\ Cursor(r)' = Cursor(r) /\ approvals' = approvals /\ print' = print /\ pc[r] = "permit"
      BY <2>3, PiecesAreAlone DEF Permit, SaveStatus, KeepLocals, ledgerVars
    <3> QED
      BY <3>1 DEF ApprovalInv, ApprovedTargetOnly, Op
  <2>4. CASE Resolve(r) /\ Policy[Op(r)] = "allow"
    <3>1. Op(r)' = Op(r)
      BY <2>4, StepIsLocal, PiecesAreAlone DEF Resolve, Op
    <3> QED
      BY <2>4, <3>1
  <2> QED
    BY <2>1, <2>2, <2>3, <2>4, Arrivals
<1>8. ApprovedTargetOnly'
  BY <1>2, <1>7 DEF ApprovedTargetOnly
<1> QED
  BY <1>1, <1>4, <1>6, <1>8 DEF ApprovalInv

(* Without an overlap, a write or a command that needs a human decision    *)
(* reaches the tool only with an approval given for the fingerprint its    *)
(* Run computed, whatever crashes and drifts (_resolve_approval and the    *)
(* fingerprint check of tool_authorization.py).  With one, a rival Run     *)
(* that computed another fingerprint may mark the approval stale while the *)
(* first one is on its way to the tool.                                    *)
THEOREM ApprovalsAreForTheTarget ==
  ASSUME "overlap" \notin Faults
  PROVE  Spec => []ApprovedTargetOnly
<1>1. Init => ApprovalInv
  BY DEF Init, LedgerInit, NoApproval, ApprovalInv, OneLive, Live, PrintsAreTaken, WithPrint, CallPoints,
     ReadIsCurrent,
     ApprovedTargetOnly
<1>2. IInv /\ ApprovalInv /\ [Next]_vars => ApprovalInv'
  <2> SUFFICES ASSUME IInv, ApprovalInv, [Next]_vars PROVE ApprovalInv'
    OBVIOUS
  <2>1. CASE UNCHANGED <<durableVars, localVars, approvals>>
    BY <2>1 DEF ApprovalInv, OneLive, Live, PrintsAreTaken, ReadIsCurrent, ApprovedTargetOnly, Op, Cursor,
       durableVars,
       localVars
  <2>2. ASSUME NEW op \in Ops, NEW decision \in {"approved", "rejected"}, Decide(op, decision),
               UNCHANGED <<durableVars, localVars>>
        PROVE  ApprovalInv'
    <3>1. /\ approvals \in [Ops -> Approvals] /\ approvals[op].status = "pending"
          /\ approvals' = [approvals EXCEPT ![op].status = decision]
      BY <2>2 DEF Decide, IInv, LedgerTypeOK
    <3>2. \A other \in Ops : /\ approvals'[other].print = approvals[other].print
                             /\ approvals[other].status = "none" => approvals'[other] = approvals[other]
                             /\ approvals[other].status = "approved" => approvals'[other] = approvals[other]
      BY <3>1 DEF Approvals
    <3>3. PrintsAreTaken'
      BY <2>2, <3>2 DEF ApprovalInv, PrintsAreTaken, localVars
    <3>4. \A r \in Runs : pc[r] \in CallPoints => Op(r) \in Ops /\ Op(r)' = Op(r)
      BY <2>2, CurrentOperation DEF durableVars, Op, Cursor
    <3>5. ReadIsCurrent'
      BY <2>2, <3>2, <3>4 DEF ApprovalInv, ReadIsCurrent, localVars, CallPoints
    <3>6. ApprovedTargetOnly'
      BY <2>2, <3>2, <3>4 DEF ApprovalInv, ApprovedTargetOnly, localVars, CallPoints
    <3>7. OneLive'
      BY <2>2 DEF ApprovalInv, OneLive, Live, durableVars, localVars
    <3> QED
      BY <3>3, <3>5, <3>6, <3>7 DEF ApprovalInv
  <2>3. ASSUME NEW r \in Runs, Begin(r) \/ Resume(r) \/ Work(r) \/ Crash(r) PROVE ApprovalInv'
    BY <2>3, ApprovalSteps
  <2> QED
    BY <2>1, <2>2, <2>3 DEF Next, Environment, Drift, vars, ledgerVars
<1> QED
  BY <1>1, <1>2, InductiveInvariant, PTL DEF Spec, ApprovalInv

----------------------------------------------------------------------------
(* A rejection is the operator's, when no Run approves automatically: the  *)
(* Run read it from the approval, and a rejection is final.                *)
DecisionIsRead ==
  \A r \in Runs : pc[r] \in {"pend", "wait", "decide"} =>
    /\ seen[r].status \in {"pending", "approved", "rejected"}
    /\ seen[r].status = "rejected" => approvals[Op(r)].status = "rejected"
HeldRejection ==
  \A r \in Runs : pc[r] = "observe" /\ result[r] = "rejected" => approvals[Op(r)].status = "rejected"
ToolResult == \A r \in Runs : pc[r] = "record" => result[r] \in {"ok", "failed"}
ObservedRejection == \A i \in Calls : obs[i] = "rejected" => approvals[Batch[i]].status = "rejected"

RejectionInv == DecisionIsRead /\ HeldRejection /\ ToolResult /\ ObservedRejection

(* A rejected approval stays as it is. *)
LEMMA RejectedStays ==
  ASSUME IInv, Next, NEW op \in Ops, approvals[op].status = "rejected"
  PROVE  approvals'[op].status = "rejected"
<1>1. approvals \in [Ops -> Approvals]
  BY DEF IInv, LedgerTypeOK
<1>2. ASSUME NEW r \in Runs, RequestApproval(r) PROVE approvals'[op].status = "rejected"
  BY <1>1, <1>2 DEF RequestApproval, Requested, Requestable
<1>3. ASSUME NEW r \in Runs, RevokeApproval(r) PROVE approvals'[op].status = "rejected"
  <2>1. CASE CanMarkStale(Op(r))
    BY <1>1, <1>3, <2>1 DEF RevokeApproval, CanMarkStale
  <2>2. CASE ~CanMarkStale(Op(r))
    BY <1>3, <2>2 DEF RevokeApproval, Raise, ledgerVars
  <2> QED
    BY <2>1, <2>2
<1>4. ASSUME Environment PROVE approvals'[op].status = "rejected"
  BY <1>1, <1>4 DEF Environment, Decide, Drift
<1> QED
  BY <1>2, <1>3, <1>4, RunsKeepApprovals DEF Next

(* What a Run holds when it is at the result or the Observation of a call. *)
LEMMA HeldResults ==
  ASSUME IInv, NEW r \in Runs, Begin(r) \/ Resume(r) \/ Work(r) \/ Crash(r), pc'[r] \in {"record", "observe"}
  PROVE  /\ Cursor(r)' = Cursor(r) /\ obs' = obs
         /\ \/ CloseUnexecuted(r) /\ pc'[r] = "observe" /\ ledger' = ledger
            \/ Resolve(r) /\ pc'[r] = "observe" /\ ledger' = ledger
            \/ Reject(r) /\ pc'[r] = "observe" /\ result'[r] = "rejected" /\ ledger' = ledger
            \/ pc'[r] = "observe" /\ result'[r] = "unexecuted"
            \/ Executes(r) /\ result'[r] \in {"ok", "failed"}
            \/ pc[r] = "record" /\ pc'[r] = "observe" /\ result'[r] = result[r]
<1>1. \A observation, next : Answer(r, observation, next) =>
        /\ pc'[r] = "observe" /\ result'[r] = observation /\ ledger' = ledger
        /\ Cursor(r)' = Cursor(r) /\ obs' = obs
  <2>1. \A observation, next : Answer(r, observation, next) =>
          ledger' = ledger /\ Cursor(r)' = Cursor(r) /\ obs' = obs
    BY DEF Answer, durableVars, ledgerVars, Cursor
  <2> QED
    BY <2>1, PiecesAreAlone
<1>2. \A point : Step(r, point) =>
        pc'[r] = point /\ result' = result /\ Cursor(r)' = Cursor(r) /\ obs' = obs
  BY StepIsLocal DEF Step, durableVars
<1>3. ~(Raise(r) \/ Suspend(r) \/ End(r))
  BY PiecesAreAlone
<1>4. CASE CloseUnexecuted(r) \/ ControlSignal(r) \/ Reject(r)
  BY <1>1, <1>3, <1>4 DEF CloseUnexecuted, ControlSignal, Reject
<1>5. ~(StayWaiting(r) \/ Crash(r) \/ Complete(r) \/ Finish(r))
  BY <1>3 DEF StayWaiting, Crash, Complete, Finish
<1>6. CASE Resolve(r)
  BY <1>1, <1>2, <1>6 DEF Resolve
<1>7. ~(Plan(r) \/ RecordPending(r) \/ Approve(r) \/ RevokeApproval(r) \/ EnsureApproved(r) \/ ClaimExecution(r)
        \/ PassAnswered(r))
  BY <1>2, <1>3 DEF Plan, RecordPending, Approve, RevokeApproval, EnsureApproved, ClaimExecution, PassAnswered
<1>8. ~(AwaitApproval(r) \/ Permit(r) \/ TakeCall(r) \/ ReadApproval(r) \/ RequestApproval(r) \/ LeaveBatch(r)
        \/ SaveDenied(r) \/ Advance(r))
  BY DEF AwaitApproval, Permit, TakeCall, ReadApproval, RequestApproval, LeaveBatch, SaveDenied, Advance, Goto,
     IInv, LocalTypeOK
<1>9. ~(Begin(r) \/ Resume(r) \/ Restore(r) \/ ResumePending(r) \/ Propose(r) \/ PointToBatch(r) \/ Observe(r))
  BY <1>3 DEF Begin, Resume, Restore, ResumePending, Propose, PointToBatch, Observe, Goto, IInv, LocalTypeOK
<1>10. CASE Executes(r)
  BY <1>10 DEF Executes, Execute, durableVars, Cursor, IInv, LocalTypeOK
<1>11. CASE RecordResult(r)
  BY <1>2, <1>3, <1>11 DEF RecordResult
<1> QED
  BY <1>4, <1>5, <1>6, <1>7, <1>8, <1>9, <1>10, <1>11 DEF Work, Govern, RunTool, Executes

(* Every step of a Run keeps the rejections those of the operator. *)
LEMMA RejectionSteps ==
  ASSUME AutoRuns = {}, IInv, RejectionInv, Next,
         NEW r \in Runs, Begin(r) \/ Resume(r) \/ Work(r) \/ Crash(r)
  PROVE  RejectionInv'
<1>1. \A s \in Runs \ {r} : /\ pc'[s] = pc[s] /\ Cursor(s)' = Cursor(s) /\ Op(s)' = Op(s)
                            /\ result'[s] = result[s] /\ seen'[s] = seen[s]
  BY RunsStepAlone DEF Alone, Others, Op
<1>2. \A s \in Runs : pc[s] \in CallPoints => Op(s) \in Ops
  BY CurrentOperation
<1>3. pc'[r] \in {"pend", "wait", "decide"} =>
        /\ seen'[r].status \in {"pending", "approved", "rejected"}
        /\ seen'[r].status = "rejected" => approvals'[Op(r)'].status = "rejected"
  <2> SUFFICES ASSUME pc'[r] \in {"pend", "wait", "decide"}
               PROVE  /\ seen'[r].status \in {"pending", "approved", "rejected"}
                      /\ seen'[r].status = "rejected" => approvals'[Op(r)'].status = "rejected"
    OBVIOUS
  <2>1. CASE ReadApproval(r)
    <3>1. Op(r)' = Op(r) /\ seen'[r] = approvals[Op(r)] /\ approvals' = approvals /\ Op(r) \in Ops
      BY <2>1, <1>2 DEF ReadApproval, durableVars, ledgerVars, Op, Cursor, CallPoints, IInv, LocalTypeOK
    <3>2. ~Requestable(approvals[Op(r)])
      BY <2>1 DEF ReadApproval, Goto, IInv, LocalTypeOK
    <3> QED
      BY <3>1, <3>2 DEF Requestable, IInv, LedgerTypeOK, Approvals, ApprovalStates
  <2>2. CASE RequestApproval(r)
    <3>1. Op(r)' = Op(r) /\ seen'[r] = approvals'[Op(r)] /\ Op(r) \in Ops
      BY <2>2, <1>2 DEF RequestApproval, durableVars, Op, Cursor, CallPoints, IInv, LocalTypeOK
    <3>2. approvals'[Op(r)].status \in {"pending", "approved", "rejected"}
      BY <2>2, <3>1 DEF RequestApproval, Requested, Requestable, IInv, LedgerTypeOK, Approvals, ApprovalStates
    <3> QED
      BY <3>1, <3>2
  <2>3. CASE RecordPending(r)
    <3>1. /\ Op(r)' = Op(r) /\ approvals' = approvals /\ seen' = seen /\ pc[r] = "pend"
      BY <2>3, StepIsLocal, PiecesAreAlone DEF RecordPending, Step, KeepLocals, Op
    <3> QED
      BY <3>1 DEF RejectionInv, DecisionIsRead
  <2>4. CASE AwaitApproval(r)
    <3>1. /\ Cursor(r)' = Cursor(r) /\ approvals' = approvals /\ seen' = seen /\ pc[r] = "wait"
      BY <2>4, PiecesAreAlone DEF AwaitApproval, SaveStatus, KeepLocals, ledgerVars
    <3> QED
      BY <3>1 DEF RejectionInv, DecisionIsRead, Op
  <2> QED
    BY <2>1, <2>2, <2>3, <2>4, Arrivals
<1>4. DecisionIsRead'
  <2>1. \A s \in Runs \ {r} : pc[s] \in {"pend", "wait", "decide"} => Op(s) \in Ops
    BY <1>2 DEF CallPoints
  <2> QED
    BY <1>1, <1>3, <2>1, RejectedStays DEF RejectionInv, DecisionIsRead
<1>5. pc'[r] = "observe" /\ result'[r] = "rejected" => approvals'[Op(r)'].status = "rejected"
  <2> SUFFICES ASSUME pc'[r] = "observe", result'[r] = "rejected" PROVE approvals'[Op(r)'].status = "rejected"
    OBVIOUS
  <2>1. Reject(r)
    <3>1. ~(CloseUnexecuted(r) \/ Resolve(r))
      BY PiecesAreAlone, StepIsLocal DEF CloseUnexecuted, Resolve
    <3>2. pc[r] = "record" => result[r] # "rejected"
      BY DEF RejectionInv, ToolResult
    <3> QED
      BY <3>1, <3>2, HeldResults
  <2>2. seen[r].status = "rejected" /\ pc[r] = "decide"
    BY <2>1 DEF Reject, IsApproved, RejectionInv, DecisionIsRead
  <2>3. Op(r)' = Op(r) /\ approvals' = approvals
    BY <2>1 DEF Reject, Answer, durableVars, ledgerVars, Op, Cursor
  <2> QED
    BY <2>2, <2>3 DEF RejectionInv, DecisionIsRead
<1>6. HeldRejection'
  <2>1. \A s \in Runs \ {r} : pc[s] = "observe" => Op(s) \in Ops
    BY <1>2 DEF CallPoints
  <2> QED
    BY <1>1, <1>5, <2>1, RejectedStays DEF RejectionInv, HeldRejection
<1>7. ToolResult'
  <2>1. pc'[r] = "record" => result'[r] \in {"ok", "failed"}
    BY HeldResults
  <2> QED
    BY <1>1, <2>1 DEF RejectionInv, ToolResult
<1>8. ObservedRejection'
  <2> SUFFICES ASSUME NEW i \in Calls, obs'[i] = "rejected" PROVE approvals'[Batch[i]].status = "rejected"
    BY DEF ObservedRejection
  <2>1. Batch[i] \in Ops
    BY BatchIsFinite
  <2>2. CASE obs[i] = "rejected"
    BY <2>1, <2>2, RejectedStays DEF RejectionInv, ObservedRejection
  <2>3. CASE obs[i] # "rejected"
    <3>1. Observe(r) /\ Owns(r) /\ obs[Cursor(r)] = None
      BY <2>3, WritersOfObservations
    <3>2. i = Cursor(r) /\ result[r] = "rejected" /\ pc[r] = "observe"
      BY <2>3, <3>1 DEF Observe, IInv, DurableTypeOK
    <3> QED
      BY <2>1, <3>2, RejectedStays DEF RejectionInv, HeldRejection, Op
  <2> QED
    BY <2>2, <2>3
<1> QED
  BY <1>4, <1>6, <1>7, <1>8 DEF RejectionInv

----------------------------------------------------------------------------
(* A command that was denied, rejected, deferred or withdrawn has not been *)
(* started.  Commands start in the order of the batch, each while its      *)
(* Observation is missing and only within the budget; a Run authorizes a   *)
(* command only while it is unstarted, and one that skips the rest of the  *)
(* batch leaves nothing behind it that somebody started.                   *)
Command(i) == Kind[Batch[i]] = "command"
Started(i) == ledger[Batch[i]].status \in {"executing", "executed", "failed"}
Closing == {"denied", "rejected", "deferred", "withdrawn"}
Working == CallPoints \ {"denied", "advance"}
Authorizing == {"plan", "approval", "request", "pend", "wait", "decide", "permit", "control", "claim"}

UnansweredAtWork == \A r \in Runs : pc[r] \in Working => obs[Cursor(r)] = None
WithinBudget == \A r \in Runs : pc[r] \in Working \ {"observe"} => Cursor(r) \in Executable
StartedInOrder ==
  \A i \in Calls : Command(i) /\ Started(i) => i \in Executable /\ \A j \in Calls : j < i => obs[j] # None
AuthorizedUnstarted ==
  \A r \in Runs : pc[r] \in Authorizing /\ Command(Cursor(r)) => ~Started(Cursor(r))
HeldUnstarted ==
  \A r \in Runs : pc[r] = "observe" /\ result[r] \in Closing /\ Command(Cursor(r)) => ~Started(Cursor(r))
SkippedUnstarted ==
  \A r \in Runs : mode[r] = "skip" => \A i \in Calls : obs[i] = None /\ Command(i) => ~Started(i)
ClosedUnstarted ==
  \A i \in Calls : obs[i] \in Closing /\ Command(i) => ~Started(i)

StartInv ==
  /\ OneLive /\ UnansweredAtWork /\ WithinBudget /\ StartedInOrder
  /\ AuthorizedUnstarted /\ HeldUnstarted /\ SkippedUnstarted /\ ClosedUnstarted

(* The steps that write the ledger. *)
LEMMA WritersOfLedger ==
  ASSUME IInv, NEW r \in Runs, Begin(r) \/ Resume(r) \/ Work(r) \/ Crash(r)
  PROVE  \/ ledger' = ledger
         \/ Plan(r) \/ RecordPending(r) \/ Approve(r) \/ EnsureApproved(r) \/ ClaimExecution(r) \/ RecordResult(r)
<1>1. \A outcome \in Outcomes : Execute(r, outcome) => ledger' = ledger
  BY DEF Execute
<1> QED
  BY <1>1, OpeningIsQuiet, LoopIsQuiet, ClosingIsQuiet, RaiseIsQuiet DEF Work, Govern, RunTool, Crash, Quiet

(* A call starts with the execution claim of the Run at it. *)
LEMMA StartingSteps ==
  ASSUME IInv, NEW r \in Runs, Begin(r) \/ Resume(r) \/ Work(r) \/ Crash(r), NEW i \in Calls,
         Started(i)', ~Started(i)
  PROVE  pc[r] = "claim" /\ Op(r) = Batch[i] /\ Cursor(r) \in Calls /\ ClaimExecution(r) /\ pc'[r] = "gateway"
<1>1. Batch[i] \in Ops
  BY BatchIsFinite
<1>2. ledger'[Batch[i]] # ledger[Batch[i]]
  BY DEF Started
<1>3. Raise(r) => ledger' = ledger
  BY DEF Raise, ledgerVars
<1>4. \/ Plan(r) \/ RecordPending(r) \/ Approve(r) \/ EnsureApproved(r) \/ ClaimExecution(r) \/ RecordResult(r)
  BY <1>2, WritersOfLedger
<1>5. Cursor(r) \in Calls /\ Op(r) \in Ops
  BY <1>4, CurrentOperation DEF Plan, RecordPending, Approve, EnsureApproved, ClaimExecution, RecordResult,
     CallPoints
<1>6. ~Plan(r)
  BY <1>1, <1>2, <1>5, OneRecordChanges DEF Plan, Started, IInv
<1>7. ~RecordPending(r)
  BY <1>1, <1>2, <1>3, <1>5, OneRecordChanges DEF RecordPending, Started, IInv
<1>8. ~Approve(r)
  BY <1>1, <1>2, <1>3, <1>5, OneRecordChanges DEF Approve, Started, IInv
<1>9. ~EnsureApproved(r)
  BY <1>1, <1>2, <1>5, OneRecordChanges DEF EnsureApproved, Started, IInv
<1>10. ~RecordResult(r)
  BY <1>1, <1>2, <1>3, <1>5, OneRecordChanges DEF RecordResult, CanFinish, Started, IInv
<1>11. ClaimExecution(r) /\ CanExecute(Op(r))
  BY <1>2, <1>3, <1>4, <1>6, <1>7, <1>8, <1>9, <1>10 DEF ClaimExecution
<1>12. Op(r) = Batch[i]
  BY <1>1, <1>2, <1>5, <1>11, OneRecordChanges DEF ClaimExecution, IInv
<1>13. pc'[r] = "gateway"
  BY <1>11, StepIsLocal DEF ClaimExecution
<1> QED
  BY <1>5, <1>11, <1>12, <1>13 DEF ClaimExecution

(* How a Run comes to work on a call. *)
LEMMA WorkArrivals ==
  ASSUME IInv, LostInv, NEW r \in Runs, Begin(r) \/ Resume(r) \/ Work(r) \/ Crash(r), pc'[r] \in Working
  PROVE  /\ obs' = obs /\ Cursor(r)' = Cursor(r) /\ Cursor(r) \in Calls
         /\ pc[r] \in Working \/ (pc[r] = "call" /\ ~Answered(r))
         /\ pc'[r] # "observe" => TakeCall(r) \/ pc[r] \in Working \ {"observe"}
<1>1. ~(\/ Begin(r) \/ Resume(r) \/ Restore(r) \/ ResumePending(r) \/ Propose(r) \/ PointToBatch(r)
        \/ Complete(r) \/ Finish(r) \/ LeaveBatch(r) \/ PassAnswered(r) \/ Observe(r) \/ SaveDenied(r)
        \/ Advance(r) \/ Crash(r))
  <2>1. Raise(r) \/ End(r) => pc'[r] = "ended"
    BY PiecesAreAlone
  <2>2. \A point : Step(r, point) => pc'[r] = point
    BY StepIsLocal
  <2> QED
    BY <2>1, <2>2 DEF Begin, Resume, Restore, ResumePending, Propose, PointToBatch, Complete, Finish, LeaveBatch,
       PassAnswered, Observe, SaveDenied, Advance, Crash, Goto, Working, CallPoints, IInv, LocalTypeOK
<1>2. CloseUnexecuted(r) \/ TakeCall(r) \/ ControlSignal(r) \/ Resolve(r) \/ Govern(r) \/ RunTool(r)
  BY <1>1 DEF Work
<1>3. Within(r)
  BY <1>2, CallStepsAreWithin
<1>4. Cursor(r)' = Cursor(r) /\ obs' = obs
  BY <1>3 DEF Within, KeepFiles
<1>5. \A observation, next : Answer(r, observation, next) => pc'[r] = "observe"
  BY PiecesAreAlone
<1>6. Suspend(r) => pc'[r] = "ended"
  BY PiecesAreAlone
<1>7. CASE CloseUnexecuted(r)
  BY <1>4, <1>5, <1>7, BatchIsFinite DEF CloseUnexecuted, IInv, DurableTypeOK, Cursor, Calls
<1>8. CASE TakeCall(r)
  BY <1>4, <1>8, BatchAssumption DEF TakeCall
<1>9. CASE ControlSignal(r)
  <2>1. pc[r] = "control" => Cursor(r) \in Calls
    BY CurrentOperation DEF CallPoints
  <2> QED
    BY <1>4, <1>5, <1>6, <1>9, <2>1, BatchAssumption DEF ControlSignal, Working, CallPoints
<1>10. CASE Resolve(r) \/ Govern(r) \/ RunTool(r)
  <2>1. pc[r] \in Working \ {"observe"}
    BY <1>10 DEF Resolve, Govern, RunTool, Plan, ReadApproval, RequestApproval, RecordPending, AwaitApproval,
       Approve,
       RevokeApproval, StayWaiting, Reject, Permit, EnsureApproved, ClaimExecution, Execute, RecordResult, Working,
       CallPoints
  <2>2. Cursor(r) \in Calls
    BY <2>1, CurrentOperation DEF Working
  <2> QED
    BY <1>4, <2>1, <2>2
<1> QED
  BY <1>2, <1>7, <1>8, <1>9, <1>10

(* A command that the ledger does not know to be started is authorized. *)
LEMMA AuthorizingArrivals ==
  ASSUME IInv, NEW r \in Runs, Begin(r) \/ Resume(r) \/ Work(r) \/ Crash(r), pc'[r] \in Authorizing
  PROVE  \/ pc[r] \in Authorizing \ {"claim"}
         \/ Resolve(r) /\ ledger' = ledger /\ (Command(Cursor(r)) => ~Started(Cursor(r)))
<1>1. Raise(r) \/ Suspend(r) \/ End(r) => pc'[r] = "ended"
  BY PiecesAreAlone
<1>2. \A point : Step(r, point) => pc'[r] = point
  BY StepIsLocal
<1>3. \A observation, next : Answer(r, observation, next) => pc'[r] = "observe"
  BY PiecesAreAlone
<1>4. ~(\/ Begin(r) \/ Resume(r) \/ Restore(r) \/ ResumePending(r) \/ Propose(r) \/ PointToBatch(r)
        \/ Complete(r) \/ Finish(r) \/ LeaveBatch(r) \/ PassAnswered(r) \/ Observe(r) \/ SaveDenied(r)
        \/ Advance(r) \/ Crash(r) \/ TakeCall(r) \/ RecordResult(r))
  BY <1>1, <1>2 DEF Begin, Resume, Restore, ResumePending, Propose, PointToBatch, Complete, Finish, LeaveBatch,
     PassAnswered, Observe, SaveDenied, Advance, Crash, TakeCall, RecordResult, Goto, Authorizing, IInv, LocalTypeOK
<1>5. ~(CloseUnexecuted(r) \/ ControlSignal(r) \/ Reject(r) \/ StayWaiting(r) \/ RevokeApproval(r))
  BY <1>1, <1>3 DEF CloseUnexecuted, ControlSignal, Reject, StayWaiting, RevokeApproval, Authorizing
<1>6. ~(Executes(r) \/ ClaimExecution(r))
  BY <1>1, <1>2 DEF Executes, Execute, ClaimExecution, Goto, Authorizing, IInv, LocalTypeOK
<1>7. CASE Resolve(r)
  <2>1. /\ ledger' = ledger
        /\ ~(Op(r) \in Tracked /\ (ledger[Op(r)].status \in {"executing", "executed"} \/ FailedForGood(Op(r))))
    BY <1>3, <1>7 DEF Resolve, ledgerVars, Authorizing
  <2>2. Op(r) \in Ops
    BY <1>7, CurrentOperation DEF Resolve, CallPoints
  <2>3. Command(Cursor(r)) => ~Started(Cursor(r))
    BY <2>1, <2>2 DEF Command, Started, Tracked, FailedForGood, Op
  <2> QED
    BY <1>7, <2>1, <2>3
<1>8. CASE Plan(r) \/ ReadApproval(r) \/ RequestApproval(r) \/ RecordPending(r) \/ AwaitApproval(r) \/ Approve(r)
           \/ Permit(r) \/ EnsureApproved(r)
  BY <1>8 DEF Plan, ReadApproval, RequestApproval, RecordPending, AwaitApproval, Approve, Permit, EnsureApproved,
     Authorizing
<1> QED
  BY <1>4, <1>5, <1>6, <1>7, <1>8 DEF Work, Govern, RunTool, Executes

(* Without an overlap nobody starts the command that a Run authorizes. *)
LEMMA AuthorizedStaysUnstarted ==
  ASSUME "overlap" \notin Faults, IInv, LostInv, OneLive, AuthorizedUnstarted,
         NEW r \in Runs, Begin(r) \/ Resume(r) \/ Work(r) \/ Crash(r)
  PROVE  AuthorizedUnstarted'
<1>1. \A s \in Runs \ {r} : pc'[s] \notin Authorizing
  BY OneLiveSteps DEF Live, Authorizing
<1>2. ASSUME pc'[r] \in Authorizing, Command(Cursor(r))' PROVE ~Started(Cursor(r))'
  <2>1. Cursor(r)' = Cursor(r) /\ Cursor(r) \in Calls
    BY <1>2, WorkArrivals DEF Working, CallPoints, Authorizing
  <2>2. Command(Cursor(r))
    BY <1>2, <2>1 DEF Command
  <2>3. ~Started(Cursor(r))
    BY <1>2, <2>2, AuthorizingArrivals DEF AuthorizedUnstarted
  <2>4. pc'[r] # "gateway"
    BY <1>2 DEF Authorizing
  <2>5. PICK i \in Calls : i = Cursor(r)
    BY <2>1
  <2>6. ~Started(i)'
    BY <2>3, <2>4, <2>5, StartingSteps
  <2> QED
    BY <2>1, <2>5, <2>6 DEF Started
<1> QED
  BY <1>1, <1>2 DEF AuthorizedUnstarted

(* The calls a Run closes without executing them are unstarted. *)
LEMMA ClosingSteps ==
  ASSUME IInv, LostInv, RejectionInv, StartInv,
         NEW r \in Runs, Begin(r) \/ Resume(r) \/ Work(r) \/ Crash(r),
         pc'[r] = "observe", result'[r] \in Closing, Command(Cursor(r))
  PROVE  ledger' = ledger /\ ~Started(Cursor(r))
<1>1. Cursor(r) \in Calls
  BY WorkArrivals DEF Working, CallPoints
<1>2. \A observation, next : Answer(r, observation, next) =>
        pc'[r] = "observe" /\ result'[r] = observation
  BY PiecesAreAlone
<1>3. CASE CloseUnexecuted(r) /\ ledger' = ledger
  <2>1. obs[Cursor(r)] = None /\ (mode[r] = "skip" \/ Cursor(r) \notin Executable)
    BY <1>2, <1>3 DEF CloseUnexecuted, Answered, Closing
  <2> QED
    BY <1>1, <1>3, <2>1 DEF StartInv, SkippedUnstarted, StartedInOrder
<1>4. CASE Resolve(r) /\ ledger' = ledger
  <2>1. \A point : Step(r, point) => pc'[r] = point
    BY StepIsLocal
  <2>2. ~(Op(r) \in Tracked /\ (ledger[Op(r)].status \in {"executing", "executed"} \/ FailedForGood(Op(r))))
    BY <1>2, <1>4, <2>1 DEF Resolve, Closing
  <2>3. Op(r) \in Ops
    BY <1>4, CurrentOperation DEF Resolve, CallPoints
  <2> QED
    BY <1>4, <2>2, <2>3 DEF Command, Started, Tracked, FailedForGood, Op
<1>5. CASE Reject(r) /\ ledger' = ledger
  BY <1>5 DEF Reject, StartInv, AuthorizedUnstarted, Authorizing
<1>6. ~(result'[r] = "unexecuted" \/ result'[r] \in {"ok", "failed"})
  BY DEF Closing
<1>7. ~(pc[r] = "record" /\ result'[r] = result[r])
  BY <1>6 DEF RejectionInv, ToolResult
<1> QED
  BY <1>3, <1>4, <1>5, <1>6, <1>7, HeldResults

(* Every step of a Run keeps the closed commands unstarted. *)
LEMMA StartSteps ==
  ASSUME "overlap" \notin Faults, IInv, LostInv, SkipInv, RejectionInv, StartInv,
         NEW r \in Runs, Begin(r) \/ Resume(r) \/ Work(r) \/ Crash(r)
  PROVE  StartInv'
<1>1. OneLive' /\ \A s \in Runs \ {r} : ~Live(s) /\ ~Live(s)'
  BY OneLiveSteps DEF StartInv
<1>2. \A s \in Runs \ {r} : pc'[s] \notin Working /\ pc'[s] \notin Authorizing /\ mode'[s] # "skip"
  <2>1. \A s \in Runs \ {r} : mode'[s] = mode[s]
    BY RunsStepAlone DEF Alone
  <2> QED
    BY <1>1, <2>1 DEF Live, Working, CallPoints, Authorizing, IInv, LocalTypeOK, SkipInv, SkipsBehind
<1>3. obs' = obs \/ (Observe(r) /\ Owns(r) /\ obs[Cursor(r)] = None /\ obs' = [obs EXCEPT ![Cursor(r)] = result[r]])
  BY WritersOfObservations DEF Observe
<1>4. \A i \in Calls : obs[i] # None => obs'[i] = obs[i]
  BY <1>3 DEF IInv, DurableTypeOK
<1>5. ASSUME NEW i \in Calls, Command(i), Started(i)', ~Started(i)
      PROVE  i = Cursor(r) /\ pc[r] = "claim" /\ pc'[r] = "gateway" /\ ClaimExecution(r)
  BY <1>5, StartingSteps, BatchAssumption DEF Command, Op
<1>6. UnansweredAtWork'
  <2>1. pc'[r] \in Working => obs'[Cursor(r)'] = None
    BY WorkArrivals, BatchIsFinite DEF Answered, StartInv, UnansweredAtWork, Calls
  <2> QED
    BY <1>2, <2>1 DEF UnansweredAtWork
<1>7. WithinBudget'
  <2>1. pc'[r] \in Working \ {"observe"} => Cursor(r)' \in Executable
    BY WorkArrivals DEF TakeCall, StartInv, WithinBudget
  <2> QED
    BY <1>2, <2>1 DEF WithinBudget
<1>8. StartedInOrder'
  <2> SUFFICES ASSUME NEW i \in Calls, Command(i), Started(i)'
               PROVE  i \in Executable /\ \A j \in Calls : j < i => obs'[j] # None
    BY DEF StartedInOrder, Command
  <2>1. CASE Started(i)
    BY <1>4, <2>1 DEF StartInv, StartedInOrder
  <2>2. CASE ~Started(i)
    <3>1. i = Cursor(r) /\ pc[r] = "claim"
      BY <1>5, <2>2
    <3>2. i \in Executable
      BY <3>1 DEF StartInv, WithinBudget, Working, CallPoints
    <3>3. \A j \in Calls : j < i => obs[j] # None
      BY <3>1 DEF LostInv, AnsweredBehind
    <3> QED
      BY <1>4, <3>2, <3>3
  <2> QED
    BY <2>1, <2>2
<1>9. AuthorizedUnstarted'
  BY AuthorizedStaysUnstarted DEF StartInv
<1>10. HeldUnstarted'
  <2>1. ASSUME pc'[r] = "observe", result'[r] \in Closing, Command(Cursor(r))' PROVE ~Started(Cursor(r))'
    <3>1. Cursor(r)' = Cursor(r)
      BY <2>1, WorkArrivals DEF Working, CallPoints
    <3>2. ledger' = ledger /\ ~Started(Cursor(r))
      BY <2>1, <3>1, ClosingSteps DEF Command
    <3> QED
      BY <3>1, <3>2 DEF Started
  <2> QED
    BY <1>2, <2>1 DEF HeldUnstarted, Working, CallPoints
<1>11. SkippedUnstarted'
  <2>1. ASSUME mode'[r] = "skip", NEW i \in Calls, obs'[i] = None, Command(i) PROVE ~Started(i)'
    <3>1. obs[i] = None
      BY <1>4, <2>1
    <3>2. ~Started(i)
      <4>1. CASE mode[r] = "skip"
        BY <2>1, <3>1, <4>1 DEF StartInv, SkippedUnstarted
      <4>2. CASE Reject(r)
        <5>1. pc[r] = "decide" /\ Cursor(r) \in Calls /\ obs[Cursor(r)] = None
          BY <4>2, CurrentOperation DEF Reject, CallPoints, StartInv, UnansweredAtWork, Working
        <5>2. ~(i < Cursor(r))
          BY <3>1 DEF LostInv, AnsweredBehind
        <5>3. i = Cursor(r) => ~Started(i)
          BY <2>1, <5>1 DEF StartInv, AuthorizedUnstarted, Authorizing
        <5>4. Cursor(r) < i => ~Started(i)
          BY <2>1, <5>1 DEF StartInv, StartedInOrder
        <5> QED
          BY <5>1, <5>2, <5>3, <5>4, BatchIsFinite
      <4> QED
        BY <2>1, <4>1, <4>2, StepsThatSkip
    <3>3. pc'[r] # "gateway"
      BY <2>1, StepsThatSkip, PiecesAreAlone, StepIsLocal DEF Reject, PassAnswered, Advance, Observe, Goto, IInv,
         LocalTypeOK
    <3> QED
      BY <1>5, <2>1, <3>2, <3>3
  <2> QED
    BY <1>2, <2>1 DEF SkippedUnstarted, Command
<1>12. ClosedUnstarted'
  <2> SUFFICES ASSUME NEW i \in Calls, obs'[i] \in Closing, Command(i) PROVE ~Started(i)'
    BY DEF ClosedUnstarted, Command
  <2>1. CASE obs[i] \in Closing
    <3>1. ~Started(i) /\ obs[i] # None
      BY <2>1 DEF StartInv, ClosedUnstarted, Closing, None
    <3>2. i = Cursor(r) => pc[r] # "claim"
      BY <3>1 DEF StartInv, UnansweredAtWork, Working, CallPoints
    <3> QED
      BY <1>5, <3>1, <3>2
  <2>2. CASE obs[i] \notin Closing
    <3>1. Observe(r) /\ i = Cursor(r) /\ result[r] \in Closing
      BY <1>3, <2>2 DEF IInv, DurableTypeOK
    <3>2. ~Started(i) /\ ledger' = ledger
      BY <3>1 DEF Observe, ledgerVars, StartInv, HeldUnstarted
    <3> QED
      BY <3>2 DEF Started
  <2> QED
    BY <2>1, <2>2
<1> QED
  BY <1>1, <1>6, <1>7, <1>8, <1>9, <1>10, <1>11, <1>12 DEF StartInv

(* The operator and the file start nothing and answer nothing. *)
LEMMA EnvironmentIsQuiet ==
  ASSUME Environment
  PROVE  UNCHANGED <<ledger, effects, durableVars, localVars>>
  BY DEF Environment, Decide, Drift

(* The successes and the withdrawn calls of the journal are real, whatever *)
(* crashes, overlaps and approves automatically: a success has its effect, *)
(* a withdrawn call a rejected one before it (_replay_executed, _rejected  *)
(* and _skip_remaining_batch_calls).                                       *)
THEOREM SuccessesAreReal == Spec => [](ObservedSuccess /\ WithdrawnBehind)
<1>1. Init => SuccessIsReal /\ SkipInv
  BY DEF Init, LedgerInit, NoRecord, SuccessIsReal, ObservedSuccess, HeldSuccess, RecordOfTracked, RecordedSuccess,
     SkipInv, WithdrawnBehind, WithdrawsInSkip, SkipsBehind, None
<1>2. IInv /\ SuccessIsReal /\ SkipInv /\ [Next]_vars => SuccessIsReal' /\ SkipInv'
  <2> SUFFICES ASSUME IInv, SuccessIsReal, SkipInv, [Next]_vars PROVE SuccessIsReal' /\ SkipInv'
    OBVIOUS
  <2>1. CASE UNCHANGED vars
    BY <2>1 DEF SuccessIsReal, ObservedSuccess, HeldSuccess, RecordOfTracked, RecordedSuccess, SkipInv,
       WithdrawnBehind,
       WithdrawsInSkip, SkipsBehind, RejectedBefore, Op, Cursor, vars, ledgerVars, durableVars, localVars
  <2>2. CASE Environment
    BY <2>2, EnvironmentIsQuiet, SuccessSteps DEF SkipInv, WithdrawnBehind, WithdrawsInSkip, SkipsBehind,
       RejectedBefore,
       Cursor, durableVars, localVars, Next
  <2>3. ASSUME NEW r \in Runs, Begin(r) \/ Resume(r) \/ Work(r) \/ Crash(r) PROVE SuccessIsReal' /\ SkipInv'
    BY <2>3, SuccessSteps, SkipSteps DEF Next
  <2> QED
    BY <2>1, <2>2, <2>3 DEF Next
<1> QED
  BY <1>1, <1>2, InductiveInvariant, PTL DEF Spec, SuccessIsReal, SkipInv

(* The journal tells the truth to the next model step, for any batch and   *)
(* any number of Runs that crash and resume on files that drift, when no   *)
(* Run approves automatically and none is resumed while its process is     *)
(* alive.  Both assumptions are needed: an automatic Run answers a request *)
(* that is still pending as rejected (tool_authorization.py), and a        *)
(* superseded process may start a command the owner withdraws.             *)
THEOREM ObservationsAreTruthful ==
  ASSUME AutoRuns = {}, "overlap" \notin Faults
  PROVE  Spec => []TruthfulObservations
<1> DEFINE Inv == LostInv /\ SkipInv /\ RejectionInv /\ StartInv
<1>1. Init => Inv
  <2>1. Init => SkipInv
    BY DEF Init, SkipInv, WithdrawnBehind, WithdrawsInSkip, SkipsBehind, None
  <2>2. Init => RejectionInv
    BY DEF Init, RejectionInv, DecisionIsRead, HeldRejection, ToolResult, ObservedRejection, None
  <2>3. Init => StartInv
    BY BatchIsFinite DEF Init, LedgerInit, NoRecord, StartInv, OneLive, Live, UnansweredAtWork, WithinBudget,
       StartedInOrder, AuthorizedUnstarted, HeldUnstarted, SkippedUnstarted, ClosedUnstarted, Started, Working,
       CallPoints, Authorizing, Closing, None
  <2> QED
    BY <2>1, <2>2, <2>3, InitLostInv
<1>2. IInv /\ Inv /\ [Next]_vars => Inv'
  <2> SUFFICES ASSUME IInv, Inv, [Next]_vars PROVE Inv'
    OBVIOUS
  <2>1. CASE UNCHANGED vars \/ Environment
    <3>1. UNCHANGED <<ledger, durableVars, localVars>> /\ (\A r \in Runs : Op(r)' = Op(r) /\ Cursor(r)' = Cursor(r))
      BY <2>1, EnvironmentIsQuiet DEF vars, ledgerVars, Op, Cursor, durableVars
    <3>2. LostInv' /\ SkipInv'
      BY <3>1 DEF LostInv, AnsweredBehind, AnsweredAtCursor, LeavesComplete, OwnerLeavesComplete, HoldsObservation,
         BatchHasOwner, ClosedIsComplete, Missing, Owns, Cursor, durableVars, localVars, SkipInv, WithdrawnBehind,
         WithdrawsInSkip, SkipsBehind, RejectedBefore
    <3>3. StartInv'
      BY <3>1 DEF StartInv, OneLive, Live, UnansweredAtWork, WithinBudget, StartedInOrder, AuthorizedUnstarted,
         HeldUnstarted, SkippedUnstarted, ClosedUnstarted, Started, Command, durableVars, localVars
    <3>4. \A op \in Ops : approvals[op].status = "rejected" => approvals'[op].status = "rejected"
      BY <2>1, RejectedStays DEF Next, vars, ledgerVars
    <3>5. /\ \A r \in Runs : pc[r] \in CallPoints => Op(r) \in Ops
          /\ \A i \in Calls : Batch[i] \in Ops
      BY CurrentOperation, BatchIsFinite
    <3>6. RejectionInv'
      BY <3>1, <3>4, <3>5 DEF RejectionInv, DecisionIsRead, HeldRejection, ToolResult, ObservedRejection,
         durableVars,
         localVars, CallPoints
    <3> QED
      BY <3>2, <3>3, <3>6
  <2>2. ASSUME NEW r \in Runs, Begin(r) \/ Resume(r) \/ Work(r) \/ Crash(r) PROVE Inv'
    <3>1. Next
      BY <2>2 DEF Next
    <3>2. LostInv'
      BY <2>2, CallStepsAreWithin, WithinKeepsLost, OpeningKeepsLost, ModelKeepsLost, LoopKeepsLost,
         ObserveKeepsLost
         DEF Work
    <3> QED
      BY <2>2, <3>1, <3>2, SkipSteps, RejectionSteps, StartSteps
  <2> QED
    BY <2>1, <2>2 DEF Next
<1>3. Inv /\ ObservedSuccess => TruthfulObservations
  <2> SUFFICES ASSUME Inv, ObservedSuccess, NEW i \in Calls
               PROVE  /\ obs[i] = "ok" /\ Batch[i] \in Tracked => effects[Batch[i]] >= 1
                      /\ obs[i] = "rejected" => approvals[Batch[i]].status = "rejected"
                      /\ obs[i] = "withdrawn" => \E j \in 1..(i - 1) : obs[j] = "rejected"
                      /\ obs[i] \in Closing /\ Command(i) => ~Started(i)
    BY DEF TruthfulObservations, Closing, Command, Started
  <2>1. obs[i] = "withdrawn" => \E j \in 1..(i - 1) : obs[j] = "rejected"
    BY BatchIsFinite DEF SkipInv, WithdrawnBehind, RejectedBefore, Calls
  <2> QED
    BY <2>1 DEF ObservedSuccess, RejectionInv, ObservedRejection, StartInv, ClosedUnstarted
<1> QED
  BY <1>1, <1>2, <1>3, SuccessesAreReal, InductiveInvariant, PTL DEF Spec

----------------------------------------------------------------------------
(* A command of Runs that follow one another is executed once even when it *)
(* may fail half-way: its effect leaves a record that every later Run      *)
(* answers with a known result or an unknown outcome, so that none         *)
(* authorizes it again.                                                    *)
CommandEffects ==
  \A op \in Ops : Kind[op] = "command" /\ effects[op] # 0 =>
    effects[op] = 1 /\ ledger[op].status \in {"executing", "executed", "failed"}
FreshAtTool ==
  \A r \in Runs : pc[r] = "gateway" /\ Command(Cursor(r)) =>
    ledger[Op(r)].status = "executing" /\ effects[Op(r)] = 0

CommandInv == OneLive /\ AuthorizedUnstarted /\ CommandEffects /\ FreshAtTool

(* The tool alone has effects. *)
LEMMA WritersOfEffects ==
  ASSUME IInv, NEW r \in Runs, Begin(r) \/ Resume(r) \/ Work(r) \/ Crash(r)
  PROVE  effects' = effects \/ Executes(r)
<1>1. RunTool(r) => effects' = effects \/ Executes(r)
  BY DEF RunTool, EnsureApproved, ClaimExecution, RecordResult, Raise, ledgerVars, Executes
<1>2. Govern(r) => effects' = effects
  BY AuthorizationReopens, ClosingIsQuiet DEF Govern, Quiet, Reopens
<1> QED
  BY <1>1, <1>2, OpeningIsQuiet, LoopIsQuiet, ClosingIsQuiet, RaiseIsQuiet DEF Work, Crash, Quiet

(* A command that was started stays so: a Run reopens or claims only the   *)
(* record it authorizes, and a result is one more sign of the start.       *)
LEMMA StartedStays ==
  ASSUME IInv, AuthorizedUnstarted, NEW r \in Runs, Begin(r) \/ Resume(r) \/ Work(r) \/ Crash(r),
         NEW op \in Ops, Kind[op] = "command", ledger[op].status \in {"executing", "executed", "failed"}
  PROVE  ledger'[op].status \in {"executing", "executed", "failed"}
<1>1. SUFFICES ASSUME ledger'[op] # ledger[op]
               PROVE  ledger'[op].status \in {"executing", "executed", "failed"}
  OBVIOUS
<1>2. Raise(r) => ledger' = ledger
  BY DEF Raise, ledgerVars
<1>3. \/ Plan(r) \/ RecordPending(r) \/ Approve(r) \/ EnsureApproved(r) \/ ClaimExecution(r) \/ RecordResult(r)
  BY <1>1, WritersOfLedger
<1>4. Cursor(r) \in Calls /\ Op(r) \in Ops
  BY <1>3, CurrentOperation DEF Plan, RecordPending, Approve, EnsureApproved, ClaimExecution, RecordResult,
     CallPoints
<1>5. pc[r] \in Authorizing => op # Op(r)
  BY DEF AuthorizedUnstarted, Command, Started, Op
<1>6. ~Plan(r) /\ ~EnsureApproved(r)
  BY <1>1, <1>4, OneRecordChanges DEF Plan, EnsureApproved, IInv
<1>7. ~RecordPending(r)
  BY <1>1, <1>2, <1>4, <1>5, OneRecordChanges DEF RecordPending, Authorizing, IInv
<1>8. ~Approve(r)
  BY <1>1, <1>2, <1>4, <1>5, OneRecordChanges DEF Approve, Authorizing, IInv
<1>9. ~ClaimExecution(r)
  BY <1>1, <1>2, <1>4, <1>5, OneRecordChanges DEF ClaimExecution, Authorizing, IInv
<1>10. RecordResult(r) /\ CanFinish(Op(r), r)
  BY <1>1, <1>2, <1>3, <1>6, <1>7, <1>8, <1>9 DEF RecordResult
<1>11. op = Op(r) /\ ledger'[Op(r)].status \in {"executed", "failed"}
  BY <1>1, <1>4, <1>10, OneRecordChanges DEF RecordResult, IInv
<1> QED
  BY <1>11

(* A Run comes to a tracked tool with a fresh claim. *)
LEMMA ToolArrivals ==
  ASSUME IInv, NEW r \in Runs, Begin(r) \/ Resume(r) \/ Work(r) \/ Crash(r),
         pc'[r] = "gateway", Command(Cursor(r))'
  PROVE  /\ pc[r] = "claim" /\ Op(r)' = Op(r) /\ Op(r) \in Ops /\ Command(Cursor(r))
         /\ ledger'[Op(r)].status = "executing" /\ effects' = effects
<1>1. \A point : Step(r, point) => pc'[r] = point /\ Op(r)' = Op(r)
  BY StepIsLocal DEF Op
<1>2. Raise(r) => pc'[r] = "ended"
  BY PiecesAreAlone
<1>3. \A observation, next : Answer(r, observation, next) => pc'[r] = "observe"
  BY PiecesAreAlone
<1>4. ~(Approve(r) \/ Permit(r) \/ Resolve(r))
  BY <1>1, <1>2, <1>3 DEF Approve, Permit, Resolve, Goto, IInv, LocalTypeOK
<1>5. EnsureApproved(r) \/ ClaimExecution(r)
  BY <1>4, Arrivals
<1>6. Op(r)' = Op(r) /\ Op(r) \in Ops
  BY <1>1, <1>2, <1>5, CurrentOperation DEF EnsureApproved, ClaimExecution, CallPoints
<1>7. Command(Cursor(r))
  BY <1>6 DEF Command, Op
<1>8. ~EnsureApproved(r)
  BY <1>1, <1>6, <1>7 DEF EnsureApproved, Command, Op, Tracked
<1>9. ClaimExecution(r) /\ ledger' = Moved(Op(r), "executing", r) /\ effects' = effects
  BY <1>2, <1>5, <1>8 DEF ClaimExecution
<1>10. ledger'[Op(r)].status = "executing"
  BY <1>6, <1>9, OneRecordChanges DEF IInv
<1> QED
  BY <1>6, <1>7, <1>9, <1>10 DEF ClaimExecution

(* Every step of a Run keeps the commands executed once. *)
LEMMA CommandSteps ==
  ASSUME "overlap" \notin Faults, IInv, LostInv, CommandInv,
         NEW r \in Runs, Begin(r) \/ Resume(r) \/ Work(r) \/ Crash(r)
  PROVE  CommandInv'
<1>1. OneLive' /\ \A s \in Runs \ {r} : pc'[s] # "gateway"
  BY OneLiveSteps DEF Live, CommandInv
<1>2. AuthorizedUnstarted'
  BY AuthorizedStaysUnstarted DEF CommandInv
<1>3. ASSUME NEW op \in Ops, Kind[op] = "command", effects'[op] # 0
      PROVE  effects'[op] = 1 /\ ledger'[op].status \in {"executing", "executed", "failed"}
  <2>1. CASE effects'[op] = effects[op]
    BY <1>3, <2>1, StartedStays DEF CommandInv, CommandEffects
  <2>2. CASE effects'[op] # effects[op]
    <3>1. PICK outcome \in Outcomes : Execute(r, outcome)
      BY <2>2, WritersOfEffects DEF Executes
    <3>2. Op(r) \in Ops /\ pc[r] = "gateway" /\ effects \in [Ops -> 0..2]
      BY <3>1, CurrentOperation DEF Execute, CallPoints, IInv, LedgerTypeOK, MaxEffects
    <3>3. effects' = [effects EXCEPT ![Op(r)] = @ + 1] /\ ledger' = ledger
      BY <2>2, <3>1 DEF Execute
    <3>4. op = Op(r) /\ effects'[op] = effects[op] + 1
      BY <2>2, <3>2, <3>3
    <3>5. effects[op] = 0 /\ ledger[op].status = "executing"
      BY <1>3, <3>2, <3>4 DEF CommandInv, FreshAtTool, Command, Op
    <3> QED
      BY <3>3, <3>4, <3>5
  <2> QED
    BY <2>1, <2>2
<1>4. ASSUME pc'[r] = "gateway", Command(Cursor(r))'
      PROVE  ledger'[Op(r)'].status = "executing" /\ effects'[Op(r)'] = 0
  <2>1. /\ pc[r] = "claim" /\ Op(r)' = Op(r) /\ Op(r) \in Ops /\ Command(Cursor(r))
        /\ ledger'[Op(r)].status = "executing" /\ effects' = effects
    BY <1>4, ToolArrivals
  <2>2. ~Started(Cursor(r))
    BY <2>1 DEF CommandInv, AuthorizedUnstarted, Authorizing
  <2>3. effects[Op(r)] = 0
    BY <2>1, <2>2 DEF CommandInv, CommandEffects, Started, Command, Op
  <2> QED
    BY <2>1, <2>3
<1>5. CommandEffects'
  BY <1>3 DEF CommandEffects
<1>6. FreshAtTool'
  BY <1>1, <1>4 DEF FreshAtTool
<1> QED
  BY <1>1, <1>2, <1>5, <1>6 DEF CommandInv

(* Runs that follow one another execute a command at most once, whatever   *)
(* trace its failure leaves.                                               *)
LEMMA SequentialCommandsOnce ==
  ASSUME "overlap" \notin Faults
  PROVE  Spec => [](\A op \in Ops : Kind[op] = "command" => effects[op] <= 1)
<1> DEFINE Inv == LostInv /\ CommandInv
<1>1. Init => Inv
  <2>1. Init => CommandInv
    BY DEF Init, LedgerInit, CommandInv, OneLive, Live, AuthorizedUnstarted, Authorizing, CommandEffects, FreshAtTool
  <2> QED
    BY <2>1, InitLostInv
<1>2. IInv /\ Inv /\ [Next]_vars => Inv'
  <2> SUFFICES ASSUME IInv, Inv, [Next]_vars PROVE Inv'
    OBVIOUS
  <2>1. CASE UNCHANGED vars \/ Environment
    <3>1. /\ UNCHANGED <<ledger, effects, durableVars, localVars>>
          /\ \A r \in Runs : Op(r)' = Op(r) /\ Cursor(r)' = Cursor(r)
      BY <2>1, EnvironmentIsQuiet DEF vars, ledgerVars, Op, Cursor, durableVars
    <3>2. LostInv'
      BY <3>1 DEF LostInv, AnsweredBehind, AnsweredAtCursor, LeavesComplete, OwnerLeavesComplete, HoldsObservation,
         BatchHasOwner, ClosedIsComplete, Missing, Owns, Cursor, durableVars, localVars
    <3>3. CommandInv'
      BY <3>1 DEF CommandInv, OneLive, Live, AuthorizedUnstarted, CommandEffects, FreshAtTool, Started, Command,
         durableVars, localVars
    <3> QED
      BY <3>2, <3>3
  <2>2. ASSUME NEW r \in Runs, Begin(r) \/ Resume(r) \/ Work(r) \/ Crash(r) PROVE Inv'
    <3>1. LostInv'
      BY <2>2, CallStepsAreWithin, WithinKeepsLost, OpeningKeepsLost, ModelKeepsLost, LoopKeepsLost,
         ObserveKeepsLost
         DEF Work
    <3> QED
      BY <2>2, <3>1, CommandSteps
  <2> QED
    BY <2>1, <2>2 DEF Next
<1>3. IInv /\ Inv => \A op \in Ops : Kind[op] = "command" => effects[op] <= 1
  <2> SUFFICES ASSUME IInv, Inv, NEW op \in Ops, Kind[op] = "command" PROVE effects[op] <= 1
    OBVIOUS
  <2>1. effects[op] \in 0..2
    BY DEF IInv, LedgerTypeOK, MaxEffects
  <2>2. effects[op] = 0 \/ effects[op] = 1
    BY DEF CommandInv, CommandEffects
  <2> QED
    BY <2>1, <2>2
<1> QED
  BY <1>1, <1>2, <1>3, InductiveInvariant, PTL DEF Spec

(* The effect of an operation reaches the world at most once, for any      *)
(* batch and any number of Runs that crash and resume on files that drift  *)
(* (the execution claim of OperationTracker and its repository): of every  *)
(* operation, with Runs that overlap too, when a tool that fails leaves no *)
(* trace, and of a command of Runs that follow one another when it may     *)
(* leave one.  The two conditions are those of EffectAtMostOnce; with      *)
(* neither of them a superseded Run may execute a failed command again.    *)
THEOREM EffectsHappenOnce == Spec => []EffectAtMostOnce
<1> DEFINE AllOnce      == \A op \in Ops : effects[op] <= 1
           CommandsOnce == \A op \in Ops : Kind[op] = "command" => effects[op] <= 1
<1>1. CASE "dirty_failure" \notin Outcomes
  <2>1. AllOnce => EffectAtMostOnce
    BY DEF EffectAtMostOnce
  <2>2. Spec => []AllOnce
    BY <1>1, TracelessEffectsOnce
  <2> QED
    BY <2>1, <2>2, PTL
<1>2. CASE "dirty_failure" \in Outcomes /\ "overlap" \notin Faults
  <2>1. CommandsOnce => EffectAtMostOnce
    BY <1>2 DEF EffectAtMostOnce
  <2>2. Spec => []CommandsOnce
    BY <1>2, SequentialCommandsOnce
  <2> QED
    BY <2>1, <2>2, PTL
<1>3. CASE "dirty_failure" \in Outcomes /\ "overlap" \in Faults
  <2>1. EffectAtMostOnce
    BY <1>3 DEF EffectAtMostOnce
  <2> QED
    BY <2>1, PTL
<1> QED
  BY <1>1, <1>2, <1>3
============================================================================
