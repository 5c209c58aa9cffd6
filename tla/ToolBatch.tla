----------------------------- MODULE ToolBatch -----------------------------
(***************************************************************************)
(* One assistant batch of tool calls, executed by the Runs of one Turn     *)
(* (runtime/application/tool_execution.py, operation_tracker.py and        *)
(* tool_authorization.py) over the records of OperationLedger.             *)
(*                                                                         *)
(*   batch   the assistant item with the tool calls is in the journal      *)
(*   obs     the Observation item of each call, None until it is durable   *)
(*   owner, open   the current Run of the Turn, and whether it is active:  *)
(*           RunOwnership shows what is assumed here, that a claim is a    *)
(*           compare-and-swap on the owner and only the owner of an active *)
(*           Turn appends                                                  *)
(*   ckpt    task_state/<run>.json: status and pending_execution pointer,  *)
(*           next = 0 when there is none                                   *)
(*                                                                         *)
(* Per process: pc, where it is in the pipeline; parent, the Run it        *)
(* continues; mode, what happens to the rest of the batch; print, the      *)
(* fingerprint of its OperationIntent; seen, the approval it read; result, *)
(* the Observation it holds.                                               *)
(*                                                                         *)
(* A process may crash at any step.  An exception leaves the Turn active   *)
(* and the checkpoint as it is, so it is the end of the process too.       *)
(***************************************************************************)
EXTENDS OperationLedger, Sequences

CONSTANTS Batch,       \* the calls of the assistant item, as operation keys
          Executable,  \* indices within the execution budget of a model step
          Policy,      \* [Ops -> {"allow", "ask", "deny"}], the before_tool hook
          AutoRuns,    \* Runs configured with auto_approve_writes
          Outcomes,    \* what a tool may do, see Execute
          Faults       \* "crash": a process may die; "overlap": a Run may be
                       \* resumed while its process is alive; "drift": somebody
                       \* else edits the target file

Calls == 1..Len(Batch)

ASSUME BatchAssumption ==
  /\ Batch \in Seq(Ops) /\ Batch # <<>>
  /\ Executable \subseteq Calls
  /\ Policy \in [Ops -> {"allow", "ask", "deny"}]
  /\ AutoRuns \subseteq Runs
  /\ Outcomes \subseteq {"done", "clean_failure", "dirty_failure"}
  /\ Faults \subseteq {"crash", "overlap", "drift"}
  \* a command key contains the call, so no two calls share it
  /\ \A i, j \in Calls : Batch[i] = Batch[j] /\ Kind[Batch[i]] = "command" => i = j

VARIABLES batch, obs, owner, open, ckpt, pc, parent, mode, print, seen, result

durableVars == <<batch, obs, owner, open, ckpt>>
localVars == <<pc, parent, mode, print, seen, result>>
vars == <<ledgerVars, durableVars, localVars>>

None == "none"

(* "unknown" is operation_outcome_unknown or stale_operation_record,       *)
(* "deferred" a call outside the budget, "withdrawn" one behind a rejected *)
(* call, "unexecuted" one closed by a terminal stop.                       *)
Observations == {None, "ok", "failed", "denied", "rejected", "unknown",
                 "deferred", "withdrawn", "unexecuted"}
Modes == {"go", "skip", "stop"}
Points == {"idle", "claimed", "restoring", "model", "proposed", "call", "resolve",
           "plan", "approval", "request", "pend", "wait", "decide", "permit", "control",
           "claim", "gateway", "record", "observe", "denied", "advance", "finish", "ended"}
CheckpointStatuses == {None, "created", "running", "waiting", "blocked", "completed"}

TypeOK ==
  /\ LedgerTypeOK
  /\ batch \in BOOLEAN /\ open \in BOOLEAN
  /\ obs \in [Calls -> Observations]
  /\ owner \in Runs \cup {NoRun}
  /\ ckpt \in [Runs -> [status : CheckpointStatuses, next : 0..Len(Batch)]]
  /\ pc \in [Runs -> Points]
  /\ parent \in [Runs -> Runs \cup {NoRun}]
  /\ mode \in [Runs -> Modes]
  /\ print \in [Runs -> Prints]
  /\ seen \in [Runs -> Approvals]
  /\ result \in [Runs -> Observations]

Init ==
  /\ LedgerInit
  /\ batch = FALSE
  /\ obs = [i \in Calls |-> None]
  /\ owner = NoRun /\ open = TRUE
  /\ ckpt = [r \in Runs |-> [status |-> None, next |-> 0]]
  /\ pc = [r \in Runs |-> "idle"]
  /\ parent = [r \in Runs |-> NoRun]
  /\ mode = [r \in Runs |-> "go"]
  /\ print = [r \in Runs |-> Unset]
  /\ seen = [r \in Runs |-> NoApproval]
  /\ result = [r \in Runs |-> None]

----------------------------------------------------------------------------
Live(r)   == pc[r] \notin {"idle", "ended"}
Owns(r)   == owner = r /\ open
Cursor(r) == ckpt[r].next
Op(r)     == Batch[Cursor(r)]
Missing   == {i \in Calls : obs[i] = None}
IsFirst(i, s) == \A j \in s : i <= j

Goto(r, point) == pc' = [pc EXCEPT ![r] = point]

(* The process ends; what it leaves is durable. *)
End(r) ==
  /\ Goto(r, "ended")
  /\ mode' = [mode EXCEPT ![r] = "go"]
  /\ print' = [print EXCEPT ![r] = Unset]
  /\ seen' = [seen EXCEPT ![r] = NoApproval]
  /\ result' = [result EXCEPT ![r] = None]
  /\ UNCHANGED parent

KeepLocals == UNCHANGED <<parent, mode, print, seen, result>>
KeepFiles  == UNCHANGED <<batch, obs, owner, open>>

Save(r, status, next) == ckpt' = [ckpt EXCEPT ![r] = [status |-> status, next |-> next]]
SaveStatus(r, status) == Save(r, status, Cursor(r))

(* A local decision, or a step that writes only the ledger or approvals. *)
Step(r, point) == Goto(r, point) /\ KeepLocals /\ UNCHANGED durableVars

Raise(r) == End(r) /\ UNCHANGED <<durableVars, ledgerVars>>

(* The call gets this Observation next, and then the batch goes on as next says. *)
Answer(r, observation, next) ==
  /\ Goto(r, "observe")
  /\ result' = [result EXCEPT ![r] = observation]
  /\ mode' = [mode EXCEPT ![r] = next]
  /\ UNCHANGED <<parent, print, seen, durableVars, ledgerVars>>

----------------------------------------------------------------------------
(* The first Run opens the Turn. *)
Begin(r) ==
  /\ pc[r] = "idle" /\ owner = NoRun
  /\ owner' = r
  /\ Save(r, "running", 0)
  /\ Goto(r, "model")
  /\ UNCHANGED <<batch, obs, open, ledgerVars>> /\ KeepLocals

(* A resume claims the Turn from its current Run, which must be resumable. *)
Resume(r) ==
  /\ pc[r] = "idle" /\ owner # NoRun /\ open
  /\ ckpt[owner].status \in {"created", "running", "waiting"}
  /\ Live(owner) => "overlap" \in Faults
  /\ parent' = [parent EXCEPT ![r] = owner]
  /\ owner' = r
  /\ Save(r, "created", 0)
  /\ Goto(r, "claimed")
  /\ UNCHANGED <<batch, obs, open, mode, print, seen, result, ledgerVars>>

(* create_session copies the pointer of the parent as its file has it now; *)
(* a Run that was superseded meanwhile raises.                             *)
Restore(r) ==
  /\ pc[r] = "claimed"
  /\ IF owner = r THEN Goto(r, "restoring") /\ KeepLocals ELSE End(r)
  /\ Save(r, "running", ckpt[parent[r]].next)
  /\ KeepFiles /\ UNCHANGED ledgerVars

(* Fault: a lost pointer is repaired to the last call. *)
ResumePendingFromLast(r) ==
  /\ pc[r] = "restoring"
  /\ KeepFiles /\ KeepLocals /\ UNCHANGED ledgerVars
  /\ IF Cursor(r) # 0 THEN Goto(r, "call") /\ UNCHANGED ckpt
     ELSE IF batch /\ Missing # {}
     THEN Goto(r, "call") /\ Save(r, "running", Len(Batch))
     ELSE Goto(r, "model") /\ UNCHANGED ckpt

(* resume_pending_calls: without a pointer, a batch with missing           *)
(* Observations is found in the journal.                                   *)
ResumePending(r) ==
  /\ pc[r] = "restoring"
  /\ KeepFiles /\ KeepLocals /\ UNCHANGED ledgerVars
  /\ IF Cursor(r) # 0 THEN Goto(r, "call") /\ UNCHANGED ckpt
     ELSE IF batch /\ Missing # {}
     THEN Goto(r, "call") /\ \E i \in Missing : IsFirst(i, Missing) /\ Save(r, "running", i)
     ELSE Goto(r, "model") /\ UNCHANGED ckpt

(* A model step proposes the batch: execute_calls appends the assistant item ... *)
Propose(r) ==
  /\ pc[r] = "model" /\ ~batch
  /\ IF Owns(r)
     THEN /\ batch' = TRUE
          /\ Goto(r, "proposed") /\ KeepLocals
          /\ UNCHANGED <<obs, owner, open, ckpt, ledgerVars>>
     ELSE Raise(r)

(* ... and then saves the pointer to it. *)
PointToBatch(r) ==
  /\ pc[r] = "proposed"
  /\ Save(r, "running", 1)
  /\ Goto(r, "call")
  /\ KeepFiles /\ KeepLocals /\ UNCHANGED ledgerVars

(* A model step after the batch gives the final answer; RunOwnership has   *)
(* the steps of finalize_run.                                              *)
Complete(r) ==
  /\ pc[r] = "model" /\ batch
  /\ UNCHANGED <<batch, obs, owner, ledgerVars>>
  /\ IF Owns(r) THEN open' = FALSE /\ Save(r, "completed", Cursor(r)) ELSE UNCHANGED <<open, ckpt>>
  /\ End(r)

(* finalize_run with a waiting or paused stop. *)
Suspend(r) ==
  /\ SaveStatus(r, "waiting")
  /\ End(r)
  /\ KeepFiles

(* finalize_run with a terminal stop, once the batch is closed. *)
Finish(r) ==
  /\ pc[r] = "finish"
  /\ UNCHANGED <<batch, obs, owner, ledgerVars>>
  /\ IF Owns(r) THEN open' = FALSE /\ SaveStatus(r, "blocked") ELSE UNCHANGED <<open, ckpt>>
  /\ End(r)

----------------------------------------------------------------------------
(* The loop ends when the pointer is cleared, a skipped call needs no      *)
(* execution, and a call with an Observation only moves the cursor.        *)
LeaveBatch(r) ==
  /\ pc[r] = "call" /\ Cursor(r) = 0
  /\ Goto(r, IF mode[r] = "stop" THEN "finish" ELSE "model")
  /\ mode' = [mode EXCEPT ![r] = "go"]
  /\ UNCHANGED <<parent, print, seen, result, durableVars, ledgerVars>>

Answered(r) == Cursor(r) # 0 /\ obs[Cursor(r)] # None

PassAnswered(r) ==
  /\ pc[r] = "call" /\ Answered(r)
  /\ Step(r, "advance") /\ UNCHANGED ledgerVars

(* _skip_remaining_batch_calls, _close_terminal_batch, the execution budget. *)
CloseUnexecuted(r) ==
  /\ pc[r] = "call" /\ Cursor(r) # 0 /\ ~Answered(r)
  /\ \/ mode[r] = "skip" /\ Answer(r, "withdrawn", "skip")
     \/ mode[r] = "stop" /\ Answer(r, "unexecuted", "stop")
     \/ mode[r] = "go" /\ Cursor(r) \notin Executable /\ Answer(r, "deferred", "go")

(* A call about to be executed: its OperationIntent takes the fingerprint *)
(* of the target.                                                         *)
TakeCall(r) ==
  /\ pc[r] = "call" /\ Cursor(r) \in Executable /\ ~Answered(r) /\ mode[r] = "go"
  /\ Goto(r, "resolve")
  /\ print' = [print EXCEPT ![r] = Fingerprint(Op(r))]
  /\ UNCHANGED <<parent, mode, seen, result, durableVars, ledgerVars>>

(* A cancel or pause signal, at the head of a call and just before the tool *)
(* runs: a cancel closes the batch from this call on, a pause keeps it.     *)
ControlSignal(r) ==
  /\ \/ pc[r] = "call" /\ Cursor(r) \in Executable /\ ~Answered(r) /\ mode[r] = "go"
     \/ pc[r] = "control"
  /\ \/ Answer(r, "unexecuted", "stop")
     \/ Suspend(r) /\ UNCHANGED ledgerVars

(* Fault: a record that says executing is replayed as a success. *)
ResolveExecuting(r) ==
  LET op == Op(r)
      record == ledger[op]
      tracked == op \in Tracked
      known == tracked /\ (record.status \in {"executing", "executed"} \/ FailedForGood(op))
  IN
  /\ pc[r] = "resolve"
  /\ \/ known /\ FailedForGood(op) /\ Answer(r, "failed", "go")
     \/ known /\ ~FailedForGood(op) /\ Answer(r, "ok", "go")
     \/ /\ ~known
        /\ \/ Policy[op] = "deny" /\ Answer(r, "denied", "go")
           \/ Policy[op] = "ask" /\ Step(r, "plan") /\ UNCHANGED ledgerVars
           \/ Policy[op] = "allow" /\ Step(r, "control") /\ UNCHANGED ledgerVars

(* resolve_existing_operation, then the before_tool hook: an execution of  *)
(* unknown outcome or on a target that changed since stops the Run, a      *)
(* known result is replayed, and everything else is to be authorized.      *)
Resolve(r) ==
  LET op == Op(r)
      record == ledger[op]
      tracked == op \in Tracked
      stale == record.post # Unset /\ print[r] # record.post
  IN
  /\ pc[r] = "resolve"
  /\ \/ tracked /\ record.status = "executing" /\ Answer(r, "unknown", "stop")
     \/ tracked /\ FailedForGood(op) /\ Answer(r, "failed", "go")
     \/ tracked /\ record.status = "executed" /\ stale /\ Answer(r, "unknown", "stop")
     \/ tracked /\ record.status = "executed" /\ ~stale /\ Answer(r, "ok", "go")
     \/ /\ ~(tracked /\ (record.status \in {"executing", "executed"} \/ FailedForGood(op)))
        /\ \/ Policy[op] = "deny" /\ Answer(r, "denied", "go")
           \/ Policy[op] = "ask" /\ Step(r, "plan") /\ UNCHANGED ledgerVars
           \/ Policy[op] = "allow" /\ Step(r, "control") /\ UNCHANGED ledgerVars

----------------------------------------------------------------------------
(* _resolve_approval, one action per durable step. *)
Plan(r) ==
  /\ pc[r] = "plan"
  /\ ledger' = IF Op(r) \in Tracked THEN Planned(Op(r), "planned", r, print[r]) ELSE ledger
  /\ Step(r, "approval")
  /\ UNCHANGED <<approvals, file, effects>>

ReadApproval(r) ==
  /\ pc[r] = "approval"
  /\ seen' = [seen EXCEPT ![r] = approvals[Op(r)]]
  /\ Goto(r, IF Requestable(approvals[Op(r)]) /\ r \notin AutoRuns THEN "request" ELSE "wait")
  /\ UNCHANGED <<parent, mode, print, result, durableVars, ledgerVars>>

RequestApproval(r) ==
  /\ pc[r] = "request"
  /\ approvals' = Requested(Op(r), print[r])
  /\ seen' = [seen EXCEPT ![r] = approvals'[Op(r)]]
  /\ Goto(r, "pend")
  /\ UNCHANGED <<parent, mode, print, result, durableVars, ledger, file, effects>>

RecordPending(r) ==
  /\ pc[r] = "pend"
  /\ IF CanReopen(Op(r))
     THEN /\ ledger' = IF Op(r) \in Tracked THEN Pending(Op(r), r, print[r]) ELSE ledger
          /\ Step(r, "wait")
          /\ UNCHANGED <<approvals, file, effects>>
     ELSE Raise(r)

(* The checkpoint says WAITING_APPROVAL before the decision is acted on. *)
AwaitApproval(r) ==
  /\ pc[r] = "wait"
  /\ SaveStatus(r, "waiting")
  /\ Goto(r, "decide")
  /\ KeepFiles /\ KeepLocals /\ UNCHANGED ledgerVars

IsApproved(r) ==
  IF seen[r].status = "none" THEN r \in AutoRuns ELSE seen[r].status = "approved"
TargetDrifted(r) ==
  seen[r].status = "approved" /\ seen[r].print # Unset /\ print[r] # seen[r].print

(* Fault: an approval is used whatever happened to its target. *)
ApproveDrifted(r) ==
  /\ pc[r] = "decide" /\ IsApproved(r)
  /\ IF CanReopen(Op(r)) \/ Op(r) \notin Tracked
     THEN /\ ledger' = IF Op(r) \in Tracked THEN Moved(Op(r), "approved", r) ELSE ledger
          /\ Step(r, "permit")
          /\ UNCHANGED <<approvals, file, effects>>
     ELSE Raise(r)

(* record_approved, when the approval is for the current target. *)
Approve(r) ==
  /\ pc[r] = "decide" /\ IsApproved(r) /\ ~TargetDrifted(r)
  /\ IF CanReopen(Op(r)) \/ Op(r) \notin Tracked
     THEN /\ ledger' = IF Op(r) \in Tracked THEN Moved(Op(r), "approved", r) ELSE ledger
          /\ Step(r, "permit")
          /\ UNCHANGED <<approvals, file, effects>>
     ELSE Raise(r)

(* An approval of a target that has changed becomes stale, and the Run waits. *)
RevokeApproval(r) ==
  /\ pc[r] = "decide" /\ TargetDrifted(r)
  /\ IF CanMarkStale(Op(r))
     THEN /\ approvals' = [approvals EXCEPT ![Op(r)].status = "stale"]
          /\ Suspend(r)
          /\ UNCHANGED <<ledger, file, effects>>
     ELSE Raise(r)

(* No decision yet: the Run stops waiting. *)
StayWaiting(r) ==
  /\ pc[r] = "decide" /\ seen[r].status = "pending" /\ r \notin AutoRuns
  /\ Suspend(r) /\ UNCHANGED ledgerVars

(* _rejected: the call is answered and the rest of the batch withdrawn. *)
Reject(r) ==
  /\ pc[r] = "decide" /\ ~IsApproved(r)
  /\ seen[r].status # "pending" \/ r \in AutoRuns
  /\ Answer(r, "rejected", "skip")

Permit(r) ==
  /\ pc[r] = "permit"
  /\ SaveStatus(r, "running")
  /\ Goto(r, "control")
  /\ KeepFiles /\ KeepLocals /\ UNCHANGED ledgerVars

----------------------------------------------------------------------------
(* _run_tool, one action per durable step. *)
EnsureApproved(r) ==
  /\ pc[r] = "control"
  /\ ledger' = IF Op(r) \in Tracked THEN Planned(Op(r), "approved", r, print[r]) ELSE ledger
  /\ Step(r, IF Op(r) \in Tracked THEN "claim" ELSE "gateway")
  /\ UNCHANGED <<approvals, file, effects>>

ClaimExecution(r) ==
  /\ pc[r] = "claim"
  /\ IF CanExecute(Op(r))
     THEN /\ ledger' = Moved(Op(r), "executing", r)
          /\ Step(r, "gateway")
          /\ UNCHANGED <<approvals, file, effects>>
     ELSE Raise(r)

(* ToolGateway.execute: the tool succeeds, fails without a trace, or fails *)
(* after it changed its target.  The budget may be exhausted afterwards.   *)
Execute(r, outcome) ==
  LET op == Op(r)
      changes == op \in Tracked /\ outcome # "clean_failure"
  IN
  /\ pc[r] = "gateway"
  /\ effects' = IF changes /\ effects[op] < MaxEffects
                THEN [effects EXCEPT ![op] = @ + 1] ELSE effects
  /\ file' \in IF changes /\ Kind[op] = "write"
               THEN IF outcome = "done" THEN {Written[op]} ELSE Contents \ {file}
               ELSE {file}
  /\ result' = [result EXCEPT ![r] = IF outcome = "done" THEN "ok" ELSE "failed"]
  /\ \E next \in {"go", "stop"} : mode' = [mode EXCEPT ![r] = next]
  /\ Goto(r, IF op \in Tracked THEN "record" ELSE "observe")
  /\ UNCHANGED <<parent, print, seen, durableVars, ledger, approvals>>

(* record_execution_result, with the fingerprint of the target afterwards. *)
RecordResult(r) ==
  /\ pc[r] = "record"
  /\ IF CanFinish(Op(r), r)
     THEN /\ ledger' = Finished(Op(r), r, IF result[r] = "ok" THEN "executed" ELSE "failed")
          /\ Step(r, "observe")
          /\ UNCHANGED <<approvals, file, effects>>
     ELSE Raise(r)

----------------------------------------------------------------------------
(* append_tool_observation: only the owner of the active Turn appends. *)
Observe(r) ==
  /\ pc[r] = "observe"
  /\ UNCHANGED ledgerVars
  /\ IF Owns(r) /\ obs[Cursor(r)] = None
     THEN /\ obs' = [obs EXCEPT ![Cursor(r)] = result[r]]
          /\ Goto(r, IF result[r] = "denied" THEN "denied" ELSE "advance")
          /\ KeepLocals /\ UNCHANGED <<batch, owner, open, ckpt>>
     ELSE End(r) /\ UNCHANGED durableVars

(* _deny saves the checkpoint BLOCKED although the Run goes on. *)
SaveDenied(r) ==
  /\ pc[r] = "denied"
  /\ SaveStatus(r, "blocked")
  /\ Goto(r, "advance")
  /\ KeepFiles /\ KeepLocals /\ UNCHANGED ledgerVars

(* Fault: the cursor moves past the last call. *)
AdvancePastEnd(r) ==
  /\ pc[r] = "advance"
  /\ Save(r, "running", Cursor(r) + 1)
  /\ Goto(r, "call")
  /\ KeepFiles /\ KeepLocals /\ UNCHANGED ledgerVars

(* Fault: the cursor stays where it is. *)
AdvanceNowhere(r) ==
  /\ pc[r] = "advance"
  /\ Save(r, "running", Cursor(r))
  /\ Goto(r, "call")
  /\ KeepFiles /\ KeepLocals /\ UNCHANGED ledgerVars

(* _advance_pending_cursor: past the last call the pointer is cleared. *)
Advance(r) ==
  /\ pc[r] = "advance"
  /\ Save(r, "running", IF Cursor(r) = Len(Batch) THEN 0 ELSE Cursor(r) + 1)
  /\ Goto(r, "call")
  /\ result' = [result EXCEPT ![r] = None]
  /\ print' = [print EXCEPT ![r] = Unset]
  /\ seen' = [seen EXCEPT ![r] = NoApproval]
  /\ UNCHANGED <<parent, mode>> /\ KeepFiles /\ UNCHANGED ledgerVars

Crash(r) == "crash" \in Faults /\ Live(r) /\ Raise(r)

----------------------------------------------------------------------------
Govern(r) ==
  \/ Plan(r) \/ ReadApproval(r) \/ RequestApproval(r) \/ RecordPending(r)
  \/ AwaitApproval(r) \/ Approve(r) \/ RevokeApproval(r) \/ StayWaiting(r)
  \/ Reject(r) \/ Permit(r)

RunTool(r) ==
  \/ EnsureApproved(r) \/ ClaimExecution(r)
  \/ \E outcome \in Outcomes : Execute(r, outcome)
  \/ RecordResult(r)

(* What the thread of a Run does by itself. *)
Work(r) ==
  \/ Restore(r) \/ ResumePending(r) \/ Propose(r) \/ PointToBatch(r)
  \/ Complete(r) \/ Finish(r)
  \/ LeaveBatch(r) \/ PassAnswered(r) \/ CloseUnexecuted(r) \/ TakeCall(r)
  \/ ControlSignal(r) \/ Resolve(r)
  \/ Govern(r) \/ RunTool(r)
  \/ Observe(r) \/ SaveDenied(r) \/ Advance(r)

(* The operator decides, and somebody edits the file. *)
Environment ==
  /\ \/ \E op \in Ops, decision \in {"approved", "rejected"} : Decide(op, decision)
     \/ "drift" \in Faults /\ \E content \in Contents : Drift(content)
  /\ UNCHANGED <<durableVars, localVars>>

Next ==
  \/ \E r \in Runs : Begin(r) \/ Resume(r) \/ Work(r) \/ Crash(r)
  \/ Environment

Spec == Init /\ [][Next]_vars

(* A process that is alive goes on: its thread waits for nobody. *)
FairSpec == Spec /\ \A r \in Runs : WF_vars(Work(r))
----------------------------------------------------------------------------
(* The effect of an operation reaches the world at most once: a crash      *)
(* between the execution claim and the result is never followed by another *)
(* execution.  This holds of every operation, for Runs that crash, resume  *)
(* and rival, as long as a tool that fails leaves no trace.  When it may   *)
(* leave one, it holds of a command whose Runs follow one another: a       *)
(* superseded Run that is alive may approve a failed command again, and a  *)
(* write or memory operation with equal fingerprints before and after      *)
(* counts as one that changed nothing.                                     *)
EffectAtMostOnce ==
  \A op \in Ops :
    \/ "dirty_failure" \notin Outcomes
    \/ Kind[op] = "command" /\ "overlap" \notin Faults
    => effects[op] <= 1

(* The journal tells the truth to the next model step: a success was       *)
(* executed, a rejection was decided by the operator, a withdrawn call     *)
(* stands behind a rejected one, and a command that was denied, rejected,  *)
(* deferred or withdrawn has not been started by any Run of the Turn.      *)
TruthfulObservations ==
  \A i \in Calls :
    LET op == Batch[i] IN
    /\ obs[i] = "ok" /\ op \in Tracked => effects[op] >= 1
    /\ obs[i] = "rejected" => approvals[op].status = "rejected"
    /\ obs[i] = "withdrawn" => \E j \in 1..(i - 1) : obs[j] = "rejected"
    /\ obs[i] \in {"denied", "rejected", "deferred", "withdrawn"} /\ Kind[op] = "command"
         => ledger[op].status \notin {"executing", "executed", "failed"}

(* No call is lost: a checkpoint never points past a call without an       *)
(* Observation; when the owner is back at the model step every call has    *)
(* one, and so it is in a terminal Turn (the provider rejects a            *)
(* conversation with an unanswered tool call).                             *)
NoCallIsLost ==
  /\ \A r \in Runs : \A i \in 1..(Cursor(r) - 1) : obs[i] # None
  /\ \A r \in Runs : batch /\ Owns(r) /\ pc[r] = "model" => Missing = {}
  /\ batch /\ ~open => Missing = {}

(* Between the approval and the tool, a write that needed a human decision *)
(* has one, and it was given for the fingerprint the process computed.     *)
ApprovedTargetOnly ==
  \A r \in Runs :
    /\ pc[r] \in {"permit", "control", "claim", "gateway"}
    /\ Policy[Op(r)] = "ask" /\ r \notin AutoRuns
    => approvals[Op(r)] = [status |-> "approved", print |-> print[r]]

(* A decision of the operator is final: later steps of any Run may only    *)
(* revoke an approval because its target changed, never turn it around.    *)
DecisionIsFinal ==
  [][\A op \in Ops :
       /\ approvals[op].status = "rejected" => approvals'[op] = approvals[op]
       /\ approvals[op].status = "approved" => approvals'[op].status \in {"approved", "stale"}]_vars

(* A record that says executed stays so, and one that says executing is    *)
(* left only with the result of the Run that claimed it: no planning,      *)
(* approval or claim of another Run hides that the tool may have run.      *)
ExecutionIsNotForgotten ==
  [][\A op \in Ops :
       /\ ledger[op].status = "executed" => ledger'[op] = ledger[op]
       /\ ledger[op].status = "executing" /\ ledger'[op] # ledger[op]
            => /\ ledger'[op].status \in {"executed", "failed"}
               /\ pc[ledger[op].run] = "record"]_vars

(* Every Run that is alive stops: it completes the Turn, closes it, waits  *)
(* for the operator, raises or dies; no batch keeps it busy for ever.      *)
RunsStop == \A r \in Runs : Live(r) ~> ~Live(r)

----------------------------------------------------------------------------
(* What comments and documents of the repository say, and runs refute.     *)

(* tool_execution.py: a rejection makes the rest of the batch lose its     *)
(* premise, so no later call of the batch is executed.                     *)
RejectionWithdrawsBatch ==
  \A i, j \in Calls :
    obs[i] = "rejected" /\ i < j => obs[j] \in {None, "withdrawn", "unexecuted"}

=============================================================================
