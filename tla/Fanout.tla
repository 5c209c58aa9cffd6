------------------------------- MODULE Fanout -------------------------------
(***************************************************************************)
(* FanoutCoordinator (multi_agent/application/fanout.py): one coordinator  *)
(* thread schedules worker attempts over a frozen plan, collects their     *)
(* results and integrates candidates in one strict order, while worker     *)
(* threads run and exchange versions through LiveHandoff.                  *)
(*                                                                         *)
(*   pc, todo, progress   where the coordinator is: the tasks it still has *)
(*             to launch or collect in this round, whether the round moved *)
(*   deciding  the task whose candidate is authorized and about to apply   *)
(*   pending, running, candidates   sets of tasks; a candidate waits for   *)
(*             the frontier                                                *)
(*   count, history   launches per task, results of finished attempts      *)
(*   outcome   per task, what its latest worker attempt has come to        *)
(*   base      per task, the merged tasks its worktree was seeded with     *)
(*   results   logical result of each task; merged, the integrated prefix  *)
(*   tree      the integration workspace: whose patches it holds           *)
(*   checkpoint   fanout_checkpoint.json, the only memory a crash leaves   *)
(*                                                                         *)
(* A candidate is "sound", "unsound" (no patch, or not the file the worker *)
(* reported) or "escaped" (files outside its scope).  Launch waves, traces *)
(* and usage are a log and left out.                                       *)
(***************************************************************************)
EXTENDS LiveHandoff

CONSTANTS Plans,        \* the plans considered
          MaxWorkers,
          MaxCrashes    \* bound on crashes of the coordinator

OrderOf == [p \in Plans |-> IntegrationOrder(p)]
Order == OrderOf[plan]

ASSUME PlansAssumption ==
  \A p \in Plans :
    /\ p.tasks \in Seq(Tasks) /\ p.hard \cup p.live \subseteq Edges
    /\ ValidPlan(p)
    \* LIVE plans are accepted with two workers or more
    /\ p.live # {} => MaxWorkers >= 2

ASSUME BoundsAssumption == MaxWorkers \in 1..8 /\ MaxCrashes \in Nat /\ MaxVersion \in Nat \ {0}

VARIABLES pc, todo, progress, deciding, pending, running, candidates, count, history,
          outcome, base, results, merged, status, tree, checkpoint, crashes

stateVars == <<pending, running, candidates, count, history, outcome, base, results, merged>>
controlVars == <<pc, todo, progress, deciding, status>>
vars == <<plan, liveVars, stateVars, controlVars, tree, checkpoint, crashes>>

Points == {"off", "loop", "launch", "gather", "apply", "save", "wait",
           "settle", "close", "report", "done", "down"}
CandidateOutcomes == {"sound", "unsound", "escaped"}
WorkerOutcomes == CandidateOutcomes \cup {"none", "working", "retryable", "terminal"}
Statuses == {"none", "running", "passed", "blocked", "needs_revision", "partial_failure",
             "conflict_resolution_required"}
Records == [task : Tasks, attempt : 1..2, outcome : WorkerOutcomes]
Results == [status : {"none", "integrated", "failed", "blocked", "not_integrated"},
            kind : {"", "conflict", "other"}, final : Attempts]
NoResult == [status |-> "none", kind |-> "", final |-> 0]
NoTask == "no_task"

Checkpoints == [status : Statuses, merged : Seq(Tasks), results : [Tasks -> Results],
                history : SUBSET Records]
NoCheckpoint == [status |-> "none", merged |-> <<>>, history |-> {},
                 results |-> [t \in Tasks |-> NoResult]]

TypeOK ==
  /\ LiveTypeOK
  /\ plan \in Plans
  /\ pc \in Points
  /\ todo \in Seq(Tasks) /\ progress \in BOOLEAN
  /\ deciding \in Tasks \cup {NoTask}
  /\ pending \subseteq Tasks /\ running \subseteq Tasks /\ candidates \subseteq Tasks
  /\ count \in [Tasks -> Attempts]
  /\ history \subseteq Records
  /\ outcome \in [Tasks -> WorkerOutcomes]
  /\ base \in [Tasks -> SUBSET Tasks]
  /\ results \in [Tasks -> Results]
  /\ merged \in Seq(Tasks) /\ tree \in Seq(Tasks)
  /\ status \in Statuses
  /\ checkpoint \in Checkpoints
  /\ crashes \in 0..MaxCrashes

EmptyState ==
  /\ pending = Members(plan) /\ running = {} /\ candidates = {}
  /\ count = [t \in Tasks |-> 0] /\ history = {}
  /\ outcome = [t \in Tasks |-> "none"] /\ base = [t \in Tasks |-> {}]
  /\ results = [t \in Tasks |-> NoResult] /\ merged = <<>>

Init ==
  /\ plan \in Plans
  /\ LiveInit /\ EmptyState
  /\ pc = "off" /\ todo = <<>> /\ progress = FALSE /\ deciding = NoTask
  /\ status = "none"
  /\ tree = <<>> /\ checkpoint = NoCheckpoint /\ crashes = 0

----------------------------------------------------------------------------
Merged == ToSet(merged)
Writes(t) == plan.scope[t] # {}
Patches(s) == Kept(s, {t \in Tasks : Writes(t)})

Frontier == IF Len(merged) < Len(Order) THEN Order[Len(merged) + 1] ELSE NoTask
FrontierTerminal ==
  Frontier # NoTask /\ results[Frontier].status \notin {"none", "integrated"}

Colliding == [p \in Plans |-> {e \in Edges : ScopesOverlap(p, e[1], e[2])}]
Collide(tasks) == \E t, u \in tasks : t # u /\ <<t, u>> \in Colliding[plan]

HardReady(t) == Upstream(plan.hard, t) \subseteq Merged
IsLive(t) == t \in LiveTasks(plan)
Finished(t) == t \in running /\ outcome[t] # "working"

(* Fault: only the running tasks are checked for overlapping scopes. *)
LaunchableInWave(t, selected) ==
  /\ Len(selected) < MaxWorkers - Cardinality(running)
  /\ t \in pending \ candidates
  /\ results[t] = NoResult
  /\ HardReady(t)
  /\ LiveReady(t)
  /\ ~Collide({t} \cup running)

(* May t join the tasks selected so far in this round? *)
Launchable(t, selected) ==
  /\ Len(selected) < MaxWorkers - Cardinality(running)
  /\ t \in pending \ candidates
  /\ results[t] = NoResult
  /\ HardReady(t)
  /\ LiveReady(t)
  /\ ~Collide({t} \cup running \cup ToSet(selected))

Selection ==
  LET selected[n \in 0..Len(plan.tasks)] ==
        IF n = 0 THEN <<>>
        ELSE LET t == plan.tasks[n]
             IN  IF Launchable(t, selected[n - 1]) THEN Append(selected[n - 1], t)
                                                   ELSE selected[n - 1]
  IN  selected[Len(plan.tasks)]

----------------------------------------------------------------------------
(* run: the first run of a plan. *)
Start ==
  /\ pc = "off"
  /\ pc' = "save"
  /\ UNCHANGED <<plan, liveVars, stateVars, todo, progress, deciding, status, tree,
                 checkpoint, crashes>>

SelectReady ==
  /\ pc = "loop"
  /\ pending \cup running \cup candidates # {}
  /\ todo' = IF FrontierTerminal THEN <<>> ELSE Selection
  /\ progress' = (todo' # <<>>)
  /\ pc' = "launch"
  /\ UNCHANGED <<plan, liveVars, stateVars, deciding, status, tree, checkpoint, crashes>>

LeaveLoop ==
  /\ pc = "loop"
  /\ pending \cup running \cup candidates = {}
  /\ pc' = "settle"
  /\ UNCHANGED <<plan, liveVars, stateVars, todo, progress, deciding, status, tree,
                 checkpoint, crashes>>

(* One selected task after the other is counted and submitted. *)
LaunchNext ==
  LET t == Head(todo) IN
  /\ pc = "launch" /\ todo # <<>>
  /\ todo' = Tail(todo)
  /\ count' = [count EXCEPT ![t] = @ + 1]
  /\ pending' = pending \ {t}
  /\ running' = running \cup {t}
  /\ outcome' = [outcome EXCEPT ![t] = "working"]
  /\ base' = [base EXCEPT ![t] = Merged]
  /\ IF IsLive(t) THEN BeginAttempt(t, count[t] + 1) ELSE UNCHANGED liveVars
  /\ UNCHANGED <<plan, candidates, history, results, merged, pc, progress, deciding, status,
                 tree, checkpoint, crashes>>

(* Fault: a collected result does not count as progress. *)
CollectQuietly ==
  /\ pc = "launch" /\ todo = <<>>
  /\ todo' = Kept(Order, {t \in running : Finished(t)})
  /\ pc' = "gather"
  /\ UNCHANGED <<plan, liveVars, stateVars, progress, deciding, status, tree, checkpoint,
                 crashes>>

(* The futures done by now, in integration order. *)
CollectDone ==
  /\ pc = "launch" /\ todo = <<>>
  /\ todo' = Kept(Order, {t \in running : Finished(t)})
  /\ progress' = (progress \/ todo' # <<>>)
  /\ pc' = "gather"
  /\ UNCHANGED <<plan, liveVars, stateVars, deciding, status, tree, checkpoint, crashes>>

----------------------------------------------------------------------------
Failed(t, kind) == [status |-> "failed", kind |-> kind, final |-> count[t]]

RejectCandidate(t, kind) ==
  /\ results' = [results EXCEPT ![t] = Failed(t, kind)]
  /\ candidates' = candidates \ {t}
  /\ IF IsLive(t) THEN SealIntegration(t, FALSE) ELSE UNCHANGED liveVars
  /\ UNCHANGED <<merged, tree, deciding>>
  /\ pc' = "gather"

KeepCandidate(t) ==
  /\ candidates' = candidates \cup {t}
  /\ UNCHANGED <<liveVars, results, merged, tree, deciding>>
  /\ pc' = "gather"

(* Fault: a candidate waits for its dependencies only. *)
DeferredForDependencies(t) ==
  \/ ~HardReady(t)
  \/ ~(Producers(t) \subseteq Merged)

(* Another task is the frontier, or none is: every task is merged. *)
Deferred(t) ==
  \/ Frontier = NoTask \/ Frontier # t
  \/ ~HardReady(t)
  \/ ~(Producers(t) \subseteq Merged)

(* _integrate_candidate up to the application of the patch. *)
IntegrateCandidate(t) ==
  \/ /\ outcome[t] = "unsound"
     /\ RejectCandidate(t, "other")
  \/ /\ outcome[t] = "escaped"
     /\ RejectCandidate(t, "conflict")
  \/ /\ outcome[t] = "sound" /\ Deferred(t)
     /\ KeepCandidate(t)
  \/ /\ outcome[t] = "sound" /\ ~Deferred(t)
     /\ Producers(t) # {} /\ ~IsFresh(t)
     /\ RejectCandidate(t, "other")
  \/ /\ outcome[t] = "sound" /\ ~Deferred(t)
     /\ IF Producers(t) = {} THEN UNCHANGED liveVars ELSE AuthorizeIntegration(t)
     /\ deciding' = t
     /\ candidates' = candidates \cup {t}
     /\ pc' = "apply"
     /\ UNCHANGED <<results, merged, tree>>

ApplySucceeds ==
  LET t == deciding IN
  /\ pc = "apply"
  /\ tree' = IF Writes(t) THEN Append(tree, t) ELSE tree
  /\ results' = [results EXCEPT ![t] =
       [status |-> "integrated", kind |-> "", final |-> count[t]]]
  /\ merged' = Append(merged, t)
  /\ candidates' = candidates \ {t}
  /\ IF IsLive(t) THEN SealIntegration(t, TRUE) ELSE UNCHANGED liveVars
  /\ deciding' = NoTask
  /\ progress' = TRUE
  /\ pc' = "gather"
  /\ UNCHANGED <<plan, pending, running, count, history, outcome, base, todo, status,
                 checkpoint, crashes>>

(* The dry check or the application of the patch fails. *)
ApplyFails ==
  LET t == deciding IN
  /\ pc = "apply" /\ Writes(t)
  /\ results' = [results EXCEPT ![t] = Failed(t, "conflict")]
  /\ candidates' = candidates \ {t}
  /\ IF IsLive(t) THEN SealIntegration(t, FALSE) ELSE UNCHANGED liveVars
  /\ deciding' = NoTask
  /\ pc' = "gather"
  /\ UNCHANGED <<plan, pending, running, count, history, outcome, base, merged, todo,
                 progress, status, tree, checkpoint, crashes>>

(* Fault: a retry may be retried. *)
RetryableAlways(t) == outcome[t] = "retryable"

RetryAllowed(t) == outcome[t] = "retryable" /\ count[t] = 1

(* One collected result: candidate, retry, ignored, or final failure. *)
GatherNext ==
  LET t == Head(todo)
      failing == outcome[t] \in {"retryable", "terminal"}
      retry == RetryAllowed(t) /\ ~FrontierTerminal
      ignored == outcome[t] = "retryable" /\ FrontierTerminal
  IN  /\ pc = "gather" /\ todo # <<>>
      /\ todo' = Tail(todo)
      /\ running' = running \ {t}
      /\ history' = history \cup {[task |-> t, attempt |-> count[t], outcome |-> outcome[t]]}
      /\ \/ /\ ~failing
            /\ IntegrateCandidate(t)
            /\ UNCHANGED pending
         \/ /\ failing
            /\ pending' = IF retry THEN pending \cup {t} ELSE pending
            /\ results' = IF retry \/ ignored THEN results
                          ELSE [results EXCEPT ![t] = Failed(t, "other")]
            /\ UNCHANGED <<liveVars, candidates, merged, tree, deciding, pc>>
      /\ UNCHANGED <<plan, count, outcome, base, progress, status, checkpoint, crashes>>

(* The candidate at the frontier, if it is there already. *)
Advanceable == ~FrontierTerminal /\ Frontier \in candidates /\ ~Deferred(Frontier)

Advance ==
  /\ pc = "gather" /\ todo = <<>> /\ Advanceable
  /\ IntegrateCandidate(Frontier)
  /\ UNCHANGED <<plan, pending, running, count, history, outcome, base, todo, progress,
                 status, checkpoint, crashes>>

AdvanceDone ==
  /\ pc = "gather" /\ todo = <<>> /\ ~Advanceable
  /\ pc' = IF progress THEN "save" ELSE "wait"
  /\ UNCHANGED <<plan, liveVars, stateVars, todo, progress, deciding, status, tree,
                 checkpoint, crashes>>

Snapshot(s) == [status |-> s, merged |-> merged, results |-> results, history |-> history]

SaveCheckpoint ==
  /\ pc = "save"
  /\ checkpoint' = Snapshot("running")
  /\ pc' = "loop"
  /\ UNCHANGED <<plan, liveVars, stateVars, todo, progress, deciding, status, tree, crashes>>

(* Fault: tasks that are not launched yet are waited for. *)
WaitForPending ==
  /\ pc = "wait"
  /\ pc' = IF running \cup pending # {} THEN "loop" ELSE "settle"
  /\ UNCHANGED <<plan, liveVars, stateVars, todo, progress, deciding, status, tree,
                 checkpoint, crashes>>

(* Without progress: wait for a worker (or 250 ms) or give up. *)
Wait ==
  /\ pc = "wait"
  /\ pc' = IF running # {} THEN "loop" ELSE "settle"
  /\ UNCHANGED <<plan, liveVars, stateVars, todo, progress, deciding, status, tree,
                 checkpoint, crashes>>

----------------------------------------------------------------------------
FinalAttempt(t) == Max({r.attempt : r \in {h \in history : h.task = t}} \cup {0})

(* What a task without a result is told. *)
Untrusted(t) ==
  LET attempted == \E r \in history : r.task = t
      hardFailed == \E d \in Upstream(plan.hard, t) : results[d].status # "integrated"
  IN  IF hardFailed /\ ~attempted
      THEN [status |-> "blocked", kind |-> "other", final |-> 0]
      ELSE [status |-> "not_integrated", kind |-> "other", final |-> FinalAttempt(t)]

Conflicting == \E t \in Tasks : results'[t].kind = "conflict"

(* The finalizer's verdict: what it claims, lowered when a criterion or a  *)
(* validation of the integrated attempts failed, and BLOCKED when it wrote *)
(* files or could not run.                                                 *)
FinalDecision(claim, doubt, broken) ==
  IF broken THEN "blocked"
  ELSE IF claim = "passed" /\ doubt THEN "needs_revision" ELSE claim

(* _materialize_untrusted_results, the finalizer and _fanout_status. *)
Settle ==
  /\ pc = "settle"
  /\ results' = [t \in Tasks |-> IF t \in Members(plan) /\ results[t] = NoResult
                                 THEN Untrusted(t) ELSE results[t]]
  /\ candidates' = {}
  /\ IF Merged = Members(plan)
     THEN \E claim \in {"passed", "blocked", "needs_revision"}, doubt, broken \in BOOLEAN :
            status' = FinalDecision(claim, doubt, broken)
     ELSE status' = IF Conflicting THEN "conflict_resolution_required"
                                   ELSE "partial_failure"
  /\ pc' = "close"
  /\ UNCHANGED <<plan, liveVars, pending, running, count, history, outcome, base, merged,
                 todo, progress, deciding, tree, checkpoint, crashes>>

SaveOutcome ==
  /\ pc = "close"
  /\ checkpoint' = Snapshot(status)
  /\ pc' = "report"
  /\ UNCHANGED <<plan, liveVars, stateVars, todo, progress, deciding, status, tree, crashes>>

WriteSummary ==
  /\ pc = "report"
  /\ pc' = "done"
  /\ UNCHANGED <<plan, liveVars, stateVars, todo, progress, deciding, status, tree,
                 checkpoint, crashes>>

----------------------------------------------------------------------------
(* How the private Run of a worker may end, as its trace tells: the status *)
(* of its last checkpoint and whether its last recovery decision was       *)
(* retryable.  A port that raises is a failed Run, retryable if it timed   *)
(* out or lost its connection.                                             *)
RunEndings == [status : {"completed", "failed", "waiting", "paused", "blocked", "cancelled"},
               retryable : BOOLEAN]

(* What the coordinator is told.  A retryable recovery decision in a Run   *)
(* that waits, pauses or is blocked makes the result invalid, which the    *)
(* adapter reports as a failure of its own.                                *)
AttemptOutcomes(t, ending) ==
  IF ending.status = "completed" THEN {"sound", "escaped"} \cup (IF Writes(t) THEN {"unsound"} ELSE {})
  ELSE IF ending.status = "failed" /\ ending.retryable THEN {"retryable"}
  ELSE {"terminal"}

(* A worker thread ends: run_worker returned or raised. *)
FinishWorker(t) ==
  /\ t \in running /\ outcome[t] = "working"
  /\ \E ending \in RunEndings : \E told \in AttemptOutcomes(t, ending) :
       /\ outcome' = [outcome EXCEPT ![t] = told]
       /\ IF IsLive(t) THEN FinishAttempt(t, told \in CandidateOutcomes)
                       ELSE UNCHANGED liveVars
  /\ UNCHANGED <<plan, pending, running, candidates, count, history, base, results, merged,
                 controlVars, tree, checkpoint, crashes>>

(* The coordination tool and the mailbox drain of running LIVE workers. *)
Coordinate ==
  /\ \E e \in plan.live :
       \/ PublishReady(e[1], e[2])
       \/ PublishUpdate(e[1], e[2])
       \/ PublishFeedback(e[2], e[1])
       \/ DrainMailbox(e[1])
       \/ DrainMailbox(e[2])
  /\ UNCHANGED <<plan, stateVars, controlVars, tree, checkpoint, crashes>>

----------------------------------------------------------------------------
(* The coordinator dies with its workers, perhaps right after a patch was  *)
(* applied, or an exception ends run.                                      *)
Crash ==
  /\ pc \notin {"off", "done", "down"}
  /\ crashes < MaxCrashes
  /\ crashes' = crashes + 1
  /\ tree' \in {tree} \cup (IF pc = "apply" /\ Writes(deciding)
                            THEN {Append(tree, deciding)} ELSE {})
  /\ attempt' = [t \in Tasks |-> 0] /\ worker' = [t \in Tasks |-> "pending"]
  /\ sealed' = [t \in Tasks |-> 0] /\ events' = {}
  /\ latest' = [e \in Edges |-> NoEvent] /\ consumed' = [e \in Edges |-> Unread]
  /\ mailbox' = [t \in Tasks |-> <<>>] /\ delivered' = [t \in Tasks |-> {}]
  /\ pending' = Members(plan) /\ running' = {} /\ candidates' = {}
  /\ count' = [t \in Tasks |-> 0] /\ history' = {}
  /\ outcome' = [t \in Tasks |-> "none"] /\ base' = [t \in Tasks |-> {}]
  /\ results' = [t \in Tasks |-> NoResult] /\ merged' = <<>>
  /\ pc' = "down" /\ todo' = <<>> /\ progress' = FALSE /\ deciding' = NoTask
  /\ status' = "none"
  /\ UNCHANGED <<plan, checkpoint>>

(* The operator restores the clean workspace that a resume asks for. *)
CleanTree ==
  /\ pc = "down" /\ tree # <<>>
  /\ tree' = <<>>
  /\ UNCHANGED <<plan, liveVars, stateVars, controlVars, checkpoint, crashes>>

CanonicalRecords(c, t) ==
  {r \in c.history : r.task = t /\ r.attempt = c.results[t].final /\ r.outcome = "sound"}

(* What _restore_hard_prefix demands of a checkpoint. *)
Resumable(c) ==
  /\ c.status = "running"
  /\ IsPrefix(c.merged, Order)
  /\ \A r, s \in c.history : r.task = s.task /\ r.attempt = s.attempt => r = s
  /\ \A t \in ToSet(c.merged) :
       c.results[t].status = "integrated" /\ CanonicalRecords(c, t) # {}

(* Fault: results of unmerged tasks are taken over, their counts are not. *)
RestoreHistory(c) ==
  LET kept == ToSet(c.merged) IN
  /\ merged' = c.merged
  /\ results' = [t \in Tasks |-> IF t \in kept THEN c.results[t] ELSE NoResult]
  /\ history' = c.history
  /\ count' = [t \in Tasks |-> IF t \in kept THEN c.results[t].final ELSE 0]
  /\ pending' = Members(plan) \ kept
  /\ tree' = Patches(c.merged)

(* Fault: the merged patches are not replayed. *)
RestoreUnplayed(c) ==
  LET kept == ToSet(c.merged) IN
  /\ merged' = c.merged
  /\ results' = [t \in Tasks |-> IF t \in kept THEN c.results[t] ELSE NoResult]
  /\ history' = {r \in c.history : r.task \in kept}
  /\ count' = [t \in Tasks |-> IF t \in kept THEN c.results[t].final ELSE 0]
  /\ pending' = Members(plan) \ kept
  /\ UNCHANGED tree

Restore(c) ==
  LET kept == ToSet(c.merged) IN
  /\ merged' = c.merged
  /\ results' = [t \in Tasks |-> IF t \in kept THEN c.results[t] ELSE NoResult]
  /\ history' = {r \in c.history : r.task \in kept}
  /\ count' = [t \in Tasks |->
       Max({r.attempt : r \in {h \in history' : h.task = t}} \cup {0})]
  /\ pending' = Members(plan) \ kept
  /\ tree' = Patches(c.merged)

Resume ==
  /\ pc = "down"
  /\ plan.live = {}
  /\ (\E t \in Tasks : Writes(t)) => tree = <<>>
  /\ Resumable(checkpoint)
  /\ Restore(checkpoint)
  /\ pc' = "save"
  /\ UNCHANGED <<plan, liveVars, running, candidates, outcome, base, todo, progress, deciding,
                 status, checkpoint, crashes>>

----------------------------------------------------------------------------
Coordinator ==
  \/ Start \/ SelectReady \/ LeaveLoop \/ LaunchNext
  \/ CollectDone \/ GatherNext \/ ApplySucceeds \/ ApplyFails
  \/ Advance \/ AdvanceDone \/ SaveCheckpoint \/ Wait
  \/ Settle \/ SaveOutcome \/ WriteSummary

Stopped == pc \in {"done", "down"} /\ UNCHANGED vars

Next ==
  \/ Coordinator
  \/ \E t \in Tasks : FinishWorker(t)
  \/ Coordinate
  \/ Crash \/ CleanTree \/ Resume
  \/ Stopped

(* The coordinator thread keeps running, and every worker ends: an         *)
(* AgentLoop has at most max_steps model steps with their own timeouts.    *)
Fairness == WF_vars(Coordinator) /\ \A t \in Tasks : WF_vars(FinishWorker(t))

Spec == Init /\ [][Next]_vars /\ Fairness

----------------------------------------------------------------------------
Alive == pc \notin {"off", "down"}

(* The integration workspace holds exactly the patches of the merged       *)
(* tasks, once each and in order, through retries, rejected candidates,    *)
(* crashes and resumes (_integrate_candidate, _restore_hard_prefix).       *)
TreeIsMerged == Alive => tree = Patches(merged)

(* Whatever instant the coordinator dies at, a running checkpoint of a     *)
(* HARD-only plan passes every check of _restore_hard_prefix.              *)
CheckpointResumable ==
  checkpoint.status = "running" => Resumable(checkpoint)

(* Workers that run at the same time never declare overlapping scopes, and *)
(* each started on a tree with all its HARD predecessors                   *)
(* (_launch_ready_attempts).                                               *)
WorkersIsolated ==
  /\ ~Collide(running)
  /\ \A t \in running : Upstream(plan.hard, t) \subseteq base[t]
  /\ Cardinality(running) <= MaxWorkers

(* A consumer is integrated only with the versions its producers ended     *)
(* with, and no producer has moved since (authorize_integration,           *)
(* seal_integration, begin_attempt).                                       *)
IntegratedIsFresh ==
  \A e \in plan.live :
    e[2] \in Merged =>
      /\ e[1] \in Merged
      /\ HasLatest(e[1], e[2])
      /\ consumed[e] = [version |-> latest[e].version, attempt |-> latest[e].attempt]

(* The fanout gives up only when the frontier task itself cannot go on: it *)
(* failed, or a merged producer of it never offered a version.  Everything *)
(* else that is not integrated is told why (_execute_plan,                 *)
(* _materialize_untrusted_results).                                        *)
FrontierIsToBlame ==
  pc \in {"close", "report", "done"} =>
    /\ \A t \in Members(plan) : results[t].status = "integrated" <=> t \in Merged
    /\ \A t \in Members(plan) : results[t].status = "blocked" <=>
         /\ ~\E r \in history : r.task = t
         /\ \E d \in Upstream(plan.hard, t) : d \notin Merged
    /\ Frontier # NoTask =>
         \/ results[Frontier].status = "failed"
         \/ \E p \in Producers(Frontier) : p \in Merged /\ ~HasLatest(p, Frontier)

(* Every run of a plan ends, or dies: no wait of the coordinator lasts     *)
(* forever (_execute_plan, _wait_for_progress).                            *)
RunEnds == (pc = "loop") ~> (pc \in {"done", "down"})

(* The coordinator implements in-order integration, and a resume continues *)
(* exactly the durable prefix.                                             *)
Trusted == IF Alive THEN merged ELSE checkpoint.merged
Decided ==
  LET known == IF Alive THEN status ELSE checkpoint.status
  IN  IF known \in {"none", "running"} THEN "open" ELSE known

InOrder == INSTANCE InOrderIntegration WITH
  Orders <- {OrderOf[p] : p \in Plans}, Verdicts <- Statuses \ {"none", "running"},
  order <- Order, trusted <- Trusted, saved <- Len(checkpoint.merged), outcome <- Decided

ImplementsInOrder == InOrder!Spec
============================================================================
