---------------------------- MODULE RunOwnership ---------------------------
(***************************************************************************)
(* Harness.run executed by several processes on one Thread: planning of a  *)
(* fresh Turn or of a resume, the durable bootstrap and claim, the life of *)
(* the Run up to RunLifecycle.finalize_run, the exception path and the     *)
(* orphan cleanup.  Each Run identity is used by exactly one process.      *)
(*                                                                         *)
(* A process may crash between any two steps.  A repository operation that *)
(* makes several durable writes is one action, since it holds the Thread   *)
(* lock; "interrupted after n writes" is a choice of the action, by a      *)
(* crash or by an I/O error that the process survives.                     *)
(*                                                                         *)
(*   pc        where the process of a Run is in Harness.run                *)
(*   parent    the Run a resume continues (NoRun for a fresh Turn)         *)
(*   planned   context revision read by _plan_thread_run                   *)
(*   memory    status of the TaskCheckpoint object the process holds       *)
(*   goal      status of the StopRequest being finalized                   *)
(***************************************************************************)
EXTENDS ThreadStore

CONSTANT Faults   \* the kinds of fault that may happen

ASSUME FaultsAssumption == Faults \subseteq {"crash", "error"}

VARIABLES pc, parent, planned, memory, goal

procVars == <<pc, parent, planned, memory, goal>>
vars == <<storeVars, procVars>>

Points == {"idle", "restoring", "planned", "booted", "cleanup", "created", "announce",
           "running", "denied", "finalizing", "prepared", "settled", "reporting",
           "failing", "ended"}

TypeOK ==
  /\ StoreTypeOK
  /\ pc \in [Runs -> Points]
  /\ parent \in [Runs -> Runs \cup {NoRun}]
  /\ planned \in [Runs -> Nat]
  /\ memory \in [Runs -> Statuses]
  /\ goal \in [Runs -> TerminalStatuses \cup {Absent}]

Init ==
  /\ StoreInit
  /\ pc = [r \in Runs |-> "idle"]
  /\ parent = [r \in Runs |-> NoRun]
  /\ planned = [r \in Runs |-> 0]
  /\ memory = [r \in Runs |-> Absent]
  /\ goal = [r \in Runs |-> Absent]

(* The process is executing Harness.run. *)
Live(r) == pc[r] \notin {"idle", "ended"}

Goto(r, point) == pc' = [pc EXCEPT ![r] = point]

KeepLocals == UNCHANGED <<parent, planned, memory, goal>>
KeepFiles  == UNCHANGED <<journal, intent, ckpt, snapshots, revision, turnOf>>

(* The process returns, raises out of Harness.run or dies: its memory goes, *)
(* and a Run without a durable checkpoint leaves no trace of its identity.  *)
End(r) ==
  /\ Goto(r, "ended")
  /\ memory' = [memory EXCEPT ![r] = Absent]
  /\ goal' = [goal EXCEPT ![r] = Absent]
  /\ planned' = [planned EXCEPT ![r] = 0]
  /\ IF ckpt'[r] = Absent
     THEN /\ turnOf' = [turnOf EXCEPT ![r] = NoTurn]
          /\ parent' = [parent EXCEPT ![r] = NoRun]
     ELSE UNCHANGED <<turnOf, parent>>

(* A durable operation stops half-way: the process survives the I/O error  *)
(* and continues at its handler, or it dies.                               *)
Interrupted(r, handler) ==
  \/ "error" \in Faults /\ Goto(r, handler) /\ KeepLocals /\ UNCHANGED turnOf
  \/ "crash" \in Faults /\ End(r)

EndKeepingFiles(r) ==
  /\ UNCHANGED <<journal, intent, ckpt, snapshots, revision>>
  /\ End(r)

(* Every repository operation writes the repaired metadata back first, and *)
(* a refused one changes nothing else.                                     *)
Refused(r, next) == meta' = Repaired /\ KeepFiles /\ Goto(r, next) /\ KeepLocals

SaveCheckpoint(r, status) ==
  /\ ckpt' = [ckpt EXCEPT ![r] = status]
  /\ memory' = [memory EXCEPT ![r] = status]
  /\ UNCHANGED <<journal, meta, intent, snapshots, revision, turnOf, parent, planned, goal>>

----------------------------------------------------------------------------
(* _plan_thread_run, fresh request: refused while a Turn is active; the    *)
(* Turn id, when the caller supplies it, may be one an earlier attempt     *)
(* failed to claim.                                                        *)
PlanFresh(r, t) ==
  /\ pc[r] = "idle"
  /\ ActiveTurns(Repaired) = {}
  /\ t \notin ClaimedTurns(Repaired)
  /\ turnOf' = [turnOf EXCEPT ![r] = t]
  /\ planned' = [planned EXCEPT ![r] = revision]
  /\ meta' = Repaired
  /\ Goto(r, "planned")
  /\ UNCHANGED <<journal, intent, ckpt, snapshots, revision, parent, memory, goal>>

(* Harness.resume reads the checkpoint of the Run to continue. *)
ReadCheckpoint(r, p) ==
  /\ pc[r] = "idle"
  /\ ckpt[p] \in ActiveStatuses
  /\ parent' = [parent EXCEPT ![r] = p]
  /\ turnOf' = [turnOf EXCEPT ![r] = turnOf[p]]
  /\ Goto(r, "restoring")
  /\ UNCHANGED <<journal, meta, intent, ckpt, snapshots, revision, planned, memory, goal>>

(* _plan_thread_run, resume request: the checkpoint is read again, then    *)
(* the Thread must know the Turn, the Turn must be active and its stable   *)
(* snapshot durable; otherwise the resume raises.                          *)
PlanResume(r) ==
  /\ pc[r] = "restoring"
  /\ meta' = Repaired
  /\ IF /\ ckpt[parent[r]] \in ActiveStatuses
        /\ IsActive(Repaired, turnOf[r])
        /\ turnOf[r] \in snapshots
     THEN Goto(r, "planned") /\ KeepFiles /\ KeepLocals
     ELSE EndKeepingFiles(r)

(* TaskState.start: the CREATED bootstrap checkpoint is durable before the claim. *)
Bootstrap(r) ==
  /\ pc[r] = "planned"
  /\ Goto(r, "booted")
  /\ SaveCheckpoint(r, "created")

(* Fault: thread.json is written before the journal. *)
StartTurnMetaFirst(r, writes) ==
  LET t == turnOf[r]
      saves == t \notin snapshots
  IN
  /\ pc[r] = "booted" /\ parent[r] = NoRun
  /\ CanStart(Repaired, r, planned[r])
  /\ IF writes >= 1 /\ saves
     THEN /\ snapshots' = (snapshots \cap ClaimedTurns(Repaired)) \cup {t}
          /\ revision' = revision + 1
     ELSE UNCHANGED <<snapshots, revision>>
  /\ journal' = IF writes = 3 THEN Append(journal, Item("turn_start", t, r)) ELSE journal
  /\ meta' = IF writes >= 2
             THEN [WithRun(Repaired, r, "created") EXCEPT !.sequence = Len(journal) + 1]
                           ELSE Repaired
  /\ UNCHANGED <<intent, ckpt>>
  /\ IF writes < 3 THEN Interrupted(r, "cleanup")
     ELSE /\ Goto(r, "created")
          /\ planned' = [planned EXCEPT ![r] = 0]
          /\ UNCHANGED <<turnOf, parent, memory, goal>>

(* start_turn writes context_state.json, then the journal, then thread.json; *)
(* writes of them took effect.                                               *)
StartTurn(r, writes) ==
  LET t == turnOf[r]
      saves == t \notin snapshots
  IN
  /\ pc[r] = "booted" /\ parent[r] = NoRun
  /\ CanStart(Repaired, r, planned[r])
  /\ IF writes >= 1 /\ saves
     THEN /\ snapshots' = (snapshots \cap ClaimedTurns(Repaired)) \cup {t}
          /\ revision' = revision + 1
     ELSE UNCHANGED <<snapshots, revision>>
  /\ journal' = IF writes >= 2 THEN Append(journal, Item("turn_start", t, r)) ELSE journal
  /\ meta' = IF writes = 3 THEN WithTail(WithRun(Repaired, r, "created"), journal')
                           ELSE Repaired
  /\ UNCHANGED <<intent, ckpt>>
  /\ IF writes < 3 THEN Interrupted(r, "cleanup")
     ELSE /\ Goto(r, "created")
          /\ planned' = [planned EXCEPT ![r] = 0]
          /\ UNCHANGED <<turnOf, parent, memory, goal>>

StartTurnRefused(r) ==
  /\ pc[r] = "booted" /\ parent[r] = NoRun
  /\ ~CanStart(Repaired, r, planned[r])
  /\ Refused(r, "cleanup")

(* claim_resume_run: one write of thread.json, which may not happen. *)
ClaimResume(r) ==
  /\ pc[r] = "booted" /\ parent[r] # NoRun
  /\ CanClaimResume(Repaired, r, parent[r])
  /\ UNCHANGED <<journal, intent, ckpt, snapshots, revision>>
  /\ \/ /\ meta' = WithRun(Repaired, r, "created")
        /\ Goto(r, "created")
        /\ KeepLocals /\ UNCHANGED turnOf
     \/ meta' = Repaired /\ Interrupted(r, "cleanup")

ClaimResumeRefused(r) ==
  /\ pc[r] = "booted" /\ parent[r] # NoRun
  /\ ~CanClaimResume(Repaired, r, parent[r])
  /\ Refused(r, "cleanup")

(* Fault: the failed claimant deletes its artifacts without reading the Thread. *)
CleanupUnchecked(r) ==
  /\ pc[r] = "cleanup"
  /\ meta' = Repaired
  /\ ckpt' = [ckpt EXCEPT ![r] = Absent]
  /\ End(r)
  /\ UNCHANGED <<journal, intent, snapshots, revision>>

(* The except branch before the claim: artifacts and checkpoint are removed *)
(* only if a fresh read of the Thread shows that the Run was not claimed.   *)
Cleanup(r) ==
  /\ pc[r] = "cleanup"
  /\ meta' = Repaired
  /\ ckpt' = IF Claimed(Repaired, r) THEN ckpt ELSE [ckpt EXCEPT ![r] = Absent]
  /\ End(r)
  /\ UNCHANGED <<journal, intent, snapshots, revision>>

----------------------------------------------------------------------------
(* create_session: CREATED -> RUNNING in the checkpoint, then in thread.json. *)
BeginRunning(r) ==
  /\ pc[r] = "created"
  /\ Goto(r, "announce")
  /\ SaveCheckpoint(r, "running")

(* record_run of status; a late or superseded Run is refused. *)
RecordRun(r, status, next) ==
  /\ LET m == Repaired
         allowed == CanRecord(m, r, status)
     IN /\ meta' = IF allowed THEN WithRun(m, r, status) ELSE m
        /\ Goto(r, IF allowed THEN next ELSE "failing")
  /\ KeepFiles /\ KeepLocals

Announce(r) == pc[r] = "announce" /\ RecordRun(r, "running", "running")

(* A before_tool hook denies a call, or the model calls an unrouted tool:  *)
(* the checkpoint is saved BLOCKED although the Run goes on, and the next  *)
(* cursor advance saves it RUNNING again.                                  *)
DenyTool(r) ==
  /\ pc[r] = "running"
  /\ Goto(r, "denied")
  /\ SaveCheckpoint(r, "blocked")

AdvanceCursor(r) ==
  /\ pc[r] = "denied"
  /\ Goto(r, "running")
  /\ SaveCheckpoint(r, "running")

(* Fault: a waiting stop is prepared like a terminal one. *)
SuspendWithIntent(r) ==
  /\ pc[r] = "running"
  /\ intent' = [intent EXCEPT ![turnOf[r]] = [run |-> r, status |-> "waiting"]]
  /\ ckpt' = [ckpt EXCEPT ![r] = "waiting"]
  /\ memory' = [memory EXCEPT ![r] = "waiting"]
  /\ Goto(r, "reporting")
  /\ UNCHANGED <<journal, meta, snapshots, revision, turnOf, parent, planned, goal>>

(* finalize_run with a waiting or paused stop: only the checkpoint changes. *)
Suspend(r) ==
  /\ pc[r] = "running"
  /\ Goto(r, "reporting")
  /\ SaveCheckpoint(r, "waiting")

(* finalize_run with a terminal stop.  A completed one appends the accepted *)
(* final answer unless the Turn already has it; the append may be           *)
(* interrupted after the journal line, before thread.json.                  *)
Finalize(r, status) ==
  LET t == turnOf[r]
      m == Repaired
  IN
  /\ pc[r] = "running"
  /\ \/ /\ status # "completed" \/ HasFinal(t)
        /\ meta' = m
        /\ goal' = [goal EXCEPT ![r] = status]
        /\ Goto(r, "finalizing")
        /\ KeepFiles /\ UNCHANGED <<parent, planned, memory>>
     \/ /\ status = "completed" /\ ~HasFinal(t) /\ CanAppend(m, r)
        /\ journal' = Append(journal, Item("final", t, r))
        /\ UNCHANGED <<intent, ckpt, snapshots, revision>>
        /\ \/ /\ meta' = WithTail(m, journal')
              /\ goal' = [goal EXCEPT ![r] = status]
              /\ Goto(r, "finalizing")
              /\ UNCHANGED <<turnOf, parent, planned, memory>>
           \/ meta' = m /\ Interrupted(r, "failing")
     \/ /\ status = "completed" /\ ~HasFinal(t) /\ ~CanAppend(m, r)
        /\ Refused(r, "failing")

(* Fault: the Turn is closed before the terminal checkpoint is durable. *)
PrepareClosing(r) ==
  /\ pc[r] = "finalizing"
  /\ CanPrepare(Repaired, r, goal[r])
  /\ meta' = WithRun(Repaired, r, goal[r])
  /\ Goto(r, "prepared")
  /\ UNCHANGED <<journal, intent, ckpt, snapshots, revision, turnOf>> /\ KeepLocals

(* prepare_turn_terminal: an intent of a superseded Run is overwritten. *)
PrepareTerminal(r) ==
  LET t == turnOf[r]
      m == Repaired
      allowed == CanPrepare(m, r, goal[r])
  IN
  /\ pc[r] = "finalizing"
  /\ intent' = IF allowed /\ IsActive(m, t)
               THEN [intent EXCEPT ![t] = [run |-> r, status |-> goal[r]]] ELSE intent
  /\ meta' = m
  /\ Goto(r, IF allowed THEN "prepared" ELSE "failing")
  /\ UNCHANGED <<journal, ckpt, snapshots, revision, turnOf>> /\ KeepLocals

WriteTerminal(r) ==
  /\ pc[r] = "prepared"
  /\ Goto(r, "settled")
  /\ SaveCheckpoint(r, goal[r])

FinishTurn(r) ==
  /\ pc[r] = "settled"
  /\ LET m == Repaired
         allowed == CanFinish(m, r, goal[r])
     IN /\ meta' = IF allowed THEN WithRun(m, r, goal[r]) ELSE m
        /\ Goto(r, IF allowed THEN "reporting" ELSE "failing")
  /\ KeepFiles /\ KeepLocals

(* The finally branch mirrors the RunResult into thread.json; a refusal    *)
(* escapes from Harness.run.                                               *)
Report(r) ==
  /\ pc[r] = "reporting"
  /\ LET m == Repaired
     IN meta' = IF CanRecord(m, r, memory[r]) THEN WithRun(m, r, memory[r]) ELSE m
  /\ EndKeepingFiles(r)

----------------------------------------------------------------------------
(* An exception inside the claimed Run. *)
Raise(r) ==
  /\ "error" \in Faults
  /\ pc[r] \in {"created", "announce", "running", "denied", "finalizing", "prepared",
                "settled", "reporting"}
  /\ Goto(r, "failing")
  /\ KeepFiles /\ KeepLocals /\ UNCHANGED meta

(* The write of a checkpoint fails after apply_transition changed the      *)
(* object: memory moves, the file does not.  In create_session of a resume *)
(* the last checkpoint the process loaded is the parent's, and that one is *)
(* what the exception branch reads (a parent still CREATED is failed in a  *)
(* stray file of the new artifact directory).                              *)
RestoredStatus(r) ==
  IF parent[r] = NoRun THEN "running"
  ELSE IF ckpt[parent[r]] = "created" THEN "failed" ELSE ckpt[parent[r]]

CheckpointWriteFails(r) ==
  /\ "error" \in Faults
  /\ \/ pc[r] = "created" /\ memory' = [memory EXCEPT ![r] = RestoredStatus(r)]
     \/ pc[r] = "running" /\ \E s \in {"blocked", "waiting"} : memory' = [memory EXCEPT ![r] = s]
     \/ pc[r] = "prepared" /\ memory' = [memory EXCEPT ![r] = goal[r]]
  /\ Goto(r, "failing")
  /\ KeepFiles /\ UNCHANGED <<meta, parent, planned, goal>>

(* except branch: a checkpoint still CREATED is failed first, ... *)
FailCreated(r) ==
  /\ pc[r] = "failing" /\ memory[r] = "created"
  /\ UNCHANGED pc
  /\ SaveCheckpoint(r, "failed")

(* ... then the status is recorded, which closes the Turn when it is terminal. *)
RecordFailure(r) ==
  /\ pc[r] = "failing" /\ memory[r] # "created"
  /\ LET m == Repaired
     IN meta' = IF CanRecord(m, r, memory[r]) THEN WithRun(m, r, memory[r]) ELSE m
  /\ EndKeepingFiles(r)

(* Power loss or SIGKILL. *)
Crash(r) ==
  /\ "crash" \in Faults
  /\ Live(r)
  /\ EndKeepingFiles(r)
  /\ UNCHANGED meta

----------------------------------------------------------------------------
Claim(r) ==
  \/ \E writes \in 0..3 : StartTurn(r, writes)
  \/ StartTurnRefused(r)
  \/ ClaimResume(r)
  \/ ClaimResumeRefused(r)
  \/ Cleanup(r)

Execute(r) ==
  \/ BeginRunning(r) \/ Announce(r)
  \/ DenyTool(r) \/ AdvanceCursor(r)
  \/ Suspend(r)
  \/ \E status \in TerminalStatuses : Finalize(r, status)
  \/ PrepareTerminal(r) \/ WriteTerminal(r) \/ FinishTurn(r) \/ Report(r)

Fail(r) ==
  \/ Raise(r) \/ CheckpointWriteFails(r) \/ FailCreated(r) \/ RecordFailure(r) \/ Crash(r)

Next ==
  \E r \in Runs :
    \/ \E t \in Turns : PlanFresh(r, t)
    \/ \E p \in Runs : ReadCheckpoint(r, p)
    \/ PlanResume(r) \/ Bootstrap(r)
    \/ Claim(r) \/ Execute(r) \/ Fail(r)

Spec == Init /\ [][Next]_vars
----------------------------------------------------------------------------
(* Loading the Thread never fails: whatever crash or error left in the     *)
(* files, metadata is not ahead of the journal, no second active Turn      *)
(* appears when turn_start items are reconciled, and a terminal intent of  *)
(* the current Run never contradicts its checkpoint (thread_json.py        *)
(* _load_and_repair_unlocked would raise for ever after).  And while a     *)
(* Turn is active its snapshot is there, without which no Run may resume   *)
(* it, and no snapshot of a Turn that was never claimed, on which every    *)
(* later save of the context state would raise.                            *)
StoreLoads ==
  /\ ~LoadError
  /\ LET m == Repaired
     IN  \A t \in ActiveTurns(m) : t \in snapshots /\ snapshots \subseteq ClaimedTurns(m)

(* Every Run the repaired Thread names has a checkpoint file, although a   *)
(* claim that fails half-way makes the process delete what it created.     *)
ClaimedRunHasCheckpoint ==
  LET m == Repaired IN \A r \in Runs : Claimed(m, r) => ckpt[r] # Absent

(* Two claimed Runs never continue the same parent, and a Turn has one     *)
(* initial Run: concurrent resumes do not fork the attempt chain.          *)
NoForkedResume ==
  LET m == Repaired
  IN \A r, s \in Runs :
       (Claimed(m, r) /\ Claimed(m, s) /\ r # s /\ turnOf[r] = turnOf[s])
         => parent[r] # parent[s]

(* A Turn is shown terminal only when the checkpoint of its Run is durable *)
(* with that status: authority first, navigation after.                    *)
TerminalTurnHasCheckpoint ==
  LET m == Repaired
  IN \A t \in Turns :
       TurnStatus(m, t) \in TerminalStatuses => ckpt[m.cur[t]] = TurnStatus(m, t)

(* The current Run of an active Turn that no process is executing can be   *)
(* resumed: its checkpoint has a resumable status.                         *)
AbandonedTurnIsResumable ==
  \A t \in ActiveTurns(Repaired) :
    Live(Repaired.cur[t]) \/ ckpt[Repaired.cur[t]] \in ActiveStatuses

(* A Turn the Thread shows as terminal keeps its status and its Run, in    *)
(* every step of every process, late ones included.                        *)
TerminalTurnFrozen ==
  [][LET before == Repaired
         after  == Repaired'
     IN \A t \in Turns :
          TurnStatus(before, t) \in TerminalStatuses
            => /\ TurnStatus(after, t) = TurnStatus(before, t)
               /\ after.cur[t] = before.cur[t]]_vars

(* The files as repaired implement the ownership contract: a crash between *)
(* two writes of an operation is either invisible or is that operation.    *)
PublishedState ==
  LET m == Repaired
  IN [t \in Turns |-> IF m.cur[t] = NoRun THEN "none"
                      ELSE IF IsActive(m, t) THEN "open" ELSE TurnStatus(m, t)]
PublishedOwner    == Repaired.cur
PublishedAttempts ==
  LET m == Repaired IN [t \in Turns |-> {r \in Runs : Claimed(m, r) /\ turnOf[r] = t}]

Ownership == INSTANCE TurnOwnership WITH
  Outcomes  <- TerminalStatuses,
  Completed <- "completed",
  state     <- PublishedState,
  owner     <- PublishedOwner,
  attempts  <- PublishedAttempts,
  answered  <- {t \in Turns : HasFinal(t)}

ImplementsOwnership == Ownership!Spec
============================================================================
