# NanoHarness: a verification project in TLA+

NanoHarness (`src/agent_forge`, with its front ends in `src/apps`) runs a coding agent over
durable conversation Threads. A Thread is a directory of files; a Turn is one user request in it;
a Run is one process executing `Harness.run` for a Turn, either its first attempt or a resume of an
earlier one. Any process may die at any write and any other process may try to continue, so most of
what makes the program correct lies in the order of its file writes and in what the next reader
does with a half-finished set of them. That is what these modules are about.

## 1. Inventory

| Component | State it keeps | Operations | Interacts through | What is hard |
|---|---|---|---|---|
| Thread store (`runtime/adapters/thread_json.py`, `runtime/domain/thread.py`) | `conversation.jsonl`, `thread.json`, `terminal_intents/*.json`, `context_state.json` | `start_turn`, `claim_resume_run`, `record_run`, `append`, `prepare_turn_terminal`, `finish_turn`, context saves | per-Thread `flock`; repair on every load | several files per operation, crash between them, late writers |
| Checkpoints (`runtime/adapters/task_state_json.py`, `runtime/domain/task.py`) | `task_state/<run>.json` and the process's own object | `start`, `update`, `save` | shared object between lifecycle and exception path | object changed before the file |
| Harness (`harness.py`, `_harness_support.py`) | the position of each process, its plan | plan, bootstrap, claim, execute, exception path, report | store, checkpoints | checks long before the claim they guard; failed claims that took effect |
| Run preparation and lifecycle (`run_preparation.py`, `run_lifecycle.py`) | session, checkpoint | `create_session`, `finalize_run`, `request_human_input` | store, checkpoints, hooks | terminal protocol over three files |
| Tool batch (`tool_execution.py`) | pending pointer, Observations in the journal | select, execute in order, resume, close | store, ledger, approval, gateway | crash between side effect, record and Observation |
| Operation ledger (`operation_tracker.py`, `operation_ledger_json.py`) | one record per operation key | plan, pending, approve, execute, finish | per-operation lock, shared by Runs | unknown outcomes, stale fingerprints, concurrent Runs |
| Approval and human input (`tool_authorization.py`, `approval_json.py`, `human_input_json.py`) | request and decision files | request, decide, consume | operator process, Runs | decision after drift, rejection inside a batch, a question asked again by a resumed Run |
| Agent loop, run control (`agent_loop.py`, `control.py`, `run_control.py`, `step_control.py`) | step, response, retry flag; in-memory mailbox | boundaries, model step, recovery, batch, pause, cancel, guidance | console thread, loop | signals between two boundaries, addressed to one Run or to none |
| Conversation view and digest (`session.py`, `context/application/compaction.py`, `model_step_preparation.py`) | digest, covered sequence, revision; page and base of each Run | page, segment, fold, save with compare-and-swap | `context_state.json`, journal | a digest from an old view, a page that splits a batch, overlapping Runs |
| Fanout (`multi_agent/application/fanout.py`, `domain/fanout.py`, `adapters/local_worker.py`) | task DAG, attempts, candidates, integration frontier, checkpoint, integration workspace | launch, collect, retry, integrate, checkpoint, resume | worker threads, Git worktrees, live handoff | results in any order, overlapping scopes, restart of a partly integrated plan |
| Live handoff (`multi_agent/application/live_handoff.py`) | attempts, events, mailboxes, consumed versions | begin, publish, take, authorize, seal | worker threads under one lock | versions that a retry or an update invalidates |
| Bench campaigns (`bench/application/campaign.py`, `bench/domain/campaign.py`) | `campaign.json`, the state the slot threads share | open, mark, run, judge, retry, conclude, publish | pool of threads, benchmark run, bundle | crash or failed save between a paid trajectory and its record |
| Model gateway, memory, MCP client | attempts; one file per memory; a process per call | retry, save, call | HTTP, files, stdio | not modelled, see 8 |
| Execution environments, tools, observability, evaluation, skills, workbench, showcase | none another component relies on | I/O and read-only projections | | not modelled, see 8 |

`PROJECT.json` lists the same parts with their files and status, and the hazards of each at the line
where it bites.

## 2. Modules

**`ThreadStore`** holds the files of one Thread and everything that is a function of them.
`journal` is the sequence of the items that matter to ownership (`turn_start`, the accepted
`final`); `meta` is `thread.json` (the current Run of a Turn, the status summary of each claimed Run,
the journal length it has acknowledged); `intent`, `ckpt`, `snapshots`/`revision` are the other
files. `turnOf` is the Turn a Run's artifacts name. `Repaired` is what `_load_and_repair_unlocked`
makes of the files: `Reconciled` rebuilds the Turns of unknown `turn_start` items, `Settled`
closes the Turns whose intent has its terminal checkpoint. `LoadError` collects the states in
which the loader raises. `CanStart`, `CanClaimResume`, `CanRecord`, `CanAppend`, `CanPrepare` and
`CanFinish` are the preconditions of the repository operations on repaired metadata.

**`RunOwnership`** is `Harness.run` executed by one process per Run identity. `pc` follows the method:

    idle -PlanFresh-> planned -Bootstrap-> booted -StartTurn/ClaimResume-> created
    idle -ReadCheckpoint-> restoring -PlanResume-> planned
    booted -refused or failed claim-> cleanup -> ended
    created -BeginRunning-> announce -Announce-> running
    running -Suspend-> reporting          running -DenyTool-> denied -AdvanceCursor-> running
    running -Finalize-> finalizing -PrepareTerminal-> prepared -WriteTerminal-> settled -FinishTurn-> reporting
    reporting -Report-> ended             any point of a claimed Run -Raise-> failing -> ended

A repository operation is one action because the process holds the Thread lock throughout; what a
crash or an I/O error inside it leaves is the parameter `writes` of `StartTurn` and the second
disjuncts of `ClaimResume` and `Finalize`. Each operation writes the repaired metadata back first,
as the loader does. `memory` is the `TaskCheckpoint` object of the process: `CheckpointWriteFails`
moves it without the file, because `update` transitions the object before it saves it.
`Faults` selects what may go wrong: `"crash"` (the process is gone at once) and `"error"` (an
exception the process survives).

**`TurnOwnership`** is the abstract contract: a Turn is opened when no other is, passed from its
owner to a fresh Run, answered at most once while open, and closed for good. `RunOwnership`
implements it under the mapping at its end, which reads everything through `Repaired`: a crash
between two writes of an operation is either invisible or is that operation.

**`OperationLedger`** holds the two repositories that govern state-changing operations, keyed by
operation key: `ledger` (status, last writer, fingerprints before and after) and `approvals` (decision,
fingerprint it was asked for), with the outside world they are about: `file`, the content of the file
the writes target, and `effects`, how often each operation reached the world. Its operators are the
repository methods: a precondition and the record left. A fingerprint is the content for a write and
a constant for a command or a memory write, as in `operation_fingerprint`.

**`ToolBatch`** executes one assistant batch over those records, by the successive Runs of one Turn.
`batch` and `obs` are the assistant item and the Observations in the journal, `ckpt` the checkpoint status
and pending pointer of each Run (`next = 0`: no pointer), `owner`/`open` the Turn. What `RunOwnership`
shows is used here: a claim is a compare-and-swap on the owner, and only the owner of an
active Turn appends. `pc` follows the pipeline of one call, one action per durable step:

    idle -Begin-> model -Propose-> proposed -PointToBatch-> call
    idle -Resume-> claimed -Restore-> restoring -ResumePending-> call or model
    call -TakeCall-> resolve -Resolve-> observe, plan or control
    plan -Plan-> approval -ReadApproval-> (request -> pend ->) wait -AwaitApproval-> decide
    decide -Approve-> permit -Permit-> control      decide -Reject-> observe
    decide -StayWaiting, RevokeApproval-> ended (waiting)
    control -EnsureApproved-> claim -ClaimExecution-> gateway -Execute-> record -RecordResult-> observe
    observe -Observe-> advance -Advance-> call      call -LeaveBatch-> model -Complete-> ended

`mode` is what the process remembers about the rest of the batch (go on, withdraw, close), and it is lost
in a crash: that is what two of the findings are about. `ControlSignal` is a cancel or a pause at the
two boundaries where the pipeline consumes one. An exception leaves the Turn active and the
checkpoint as it is, so `Raise` and `Crash` leave the same files. Besides the actions of the Runs there
is the environment: the operator decides at any time, and with `"drift"` somebody else edits the file.

**`RunControl`** is the mailbox of `RunController`: the pause or cancel waiting under each key (the Run, or
nobody in particular) and whether guidance waits. **`HumanInput`** is the repository of questions of one Turn,
keyed by invocation, never by Run. **`AgentLoop`** extends both with `AgentLoop.run` over the successive Runs
of one Turn; one action per boundary or durable step:

    idle -Begin-> before_run -BeforeRun-> input -CheckInput-> restore -Restore-> before_model or call
    before_model -BeforeModel-> prepare -Prepare-> hook -CallModel-> model -ModelReturns-> returned
    returned -Refresh-> before_model (guidance came)    returned -KeepResponse-> dispatch
    dispatch -Recover-> hook (once)   -Propose-> point   -Answer, FailModel, RefuseCalls-> finish
    point -PointToBatch-> call -TakeCall-> ask or control -PassControl-> tool -RunTool-> observe
    observe -Observe-> advance -Advance-> call, close or finish     call -LeaveBatch-> before_model
    any boundary -Interrupt-> finish or close      finish -Finish-> ended -Resume-> before_run

`Operate` and `Respond` are the operator, at any moment; `Crash` empties the mailbox, `Raise` does not. What
`ToolBatch` takes apart (ledger, approval) is one step here, and `ToolBatch`'s omissions (questions, the
repeat guard, unrouted calls, one batch after another) are here.

**`ThreadContext`** is what the model is told of a long Thread: `journal` holds its items by kind, `context` is
`context_state.json`, and each Run keeps the state it loaded (`base`), its page of journal positions, its
revision and whether more follows. `LoadState`, `LoadPage` and `ReadTail` are separate reads, `Compact` rolls the
page up to the end of a segment into the digest and saves under the revision check, `Mark` is the checkpoint behind it; two Runs can be
alive at a time, and any of these steps interleaves with the other's. `Normalized` reads the page item by item and
holds back what is said in an open batch; `Ends` is where `_group_history_segments` ends a segment and `Rolled` builds and merges
the digest of each segment up to the cut. A page is a sequence of positions, and a digest keeps the positions it
stands for, those of the authority updates, and that of the last valid evidence, so that "the digest is exact" can
be said of the journal itself.

**`FanoutPlan`** holds the pure part of a fanout: plan validation, scope overlap and the integration order.
**`LiveHandoff`** holds the runtime through which LIVE workers exchange versions, its operations as operators
and actions over `plan`. **`Fanout`** is the coordinator: `pc` walks its round (launch the ready tasks, gather
finished workers, apply the frontier candidate, save, wait), `FinishWorker` ends a worker thread with any
outcome, `Coordinate` is what running workers publish and read. The coordinator's calls into the runtime
(`BeginAttempt`, `FinishAttempt`, `AuthorizeIntegration`, `SealIntegration`) are conjoined, because it makes them under that lock inside its own
step. `checkpoint` is the only thing a crash leaves besides the integration workspace `tree`.
**`InOrderIntegration`** is the contract: tasks are trusted one by one in integration order, a crash falls back to
what was saved, success means that all are trusted. `Fanout` implements it: `trusted` is the merged prefix,
or the saved one while the coordinator is down.

**`Campaign`** is one benchmark campaign: `file` is `campaign.json`, `mem` the state its threads share, `at` and
`held` where the thread of each slot is and what it brought back. A save writes all of `mem`, whoever calls
it, so what one thread could not save is saved by the next one; the model keeps that.

**`MC...`** modules instantiate the compositions for TLC, `...Proofs` modules hold the proofs.

Definitions whose comment starts with *Fault:* are plausible bugs next to the definition they
would replace; nothing refers to them, and each shows that one property would notice.

## 3. Runs

| Run | Instance | Checks |
|---|---|---|
| `ownership` | 2 Turns, 3 Runs, crashes and errors | types; the files always load and an active Turn has its snapshot; claimed Runs keep checkpoints; resumes do not fork; closed Turns are frozen |
| `ownership_refines` | 2 Turns, 3 Runs, crashes | `TurnOwnership` is implemented; a closed Turn has its terminal checkpoint |
| `abandoned_turn` | 2 Turns, 2 Runs, crashes | finding: an active Turn nothing can resume |
| `batch` | write and command, both approved by hand; 4 Runs in sequence; crashes, drift, all tool outcomes | types; one effect per command, although tools fail half-way; a truthful and complete journal; approvals bind to their target |
| `batch_assorted` | write, denied command, read, memory write, command beyond the budget; one Run with automatic approval, one without, alive at the same time; crashes; weak fairness | one effect per operation; the ledger forgets no execution; every live Run stops |
| `rejected_batch` | 3 Runs, crashes | finding: a crash undoes the withdrawal of a batch |
| `agent_loop` | a question before a call, or one call; 3 Runs of at most 2 steps; guidance, pause and cancel under both keys, at any moment; crashes and exceptions | types; no batch and no answer from a stale response; stops are prompt; questions are asked once; cancels are not lost; Runs end |
| `cancelled_batch` | the same with 2 Runs and unbound signals | finding: a cancelled Turn with an open batch |
| `thread_context` | 3 Runs, 2 alive at a time, journals of up to 6 items, pages of 3 | types; a request is the whole journal; the digest is exact; the words of the humans of a Turn reach its model calls; no save undoes another |
| `fanout` | a LIVE producer and consumer and a task behind them, two versions per edge, feedback, retries | types; no version is lost; only newest versions let a consumer in; only a failed frontier makes the run give up |
| `fanout_crash` | a diamond and an independent task with overlapping scopes, and a LIVE plan; two crashes of the coordinator | the workspace is the merged prefix; running checkpoints can be resumed; overlapping workers never run together; every run ends; `InOrderIntegration` is implemented |
| `campaign` | 2 slots, 3 processes; strict, retrying and changed requests; crashes and failing writes | types; a strict slot runs once; trajectories are counted; what was published stays; invocations end |

Bounds. Identities of Runs and Turns are used once, as in the program, so ownership needs no further bound:
three Runs give a first attempt, a resume and a second, racing resume, or two racing fresh requests
and a late writer; two Turns give a follow-up request that meets an earlier Turn. Turns and Runs are symmetric.

In `batch` two calls give every relation of an interrupted call to an earlier or later one; four
Runs in sequence give a request, an approval, a crash in execution and a recovery of one call. In `batch_assorted` two Runs race for the same operations: both
may execute the memory write, and one plans and requests what the other executes. `MaxEffects`
saturates the ghost counter `effects` at two, which is already once too often. Two file contents distinguish
changed from unchanged. A Turn proposes one batch there, any number in `AgentLoop`.

In `agent_loop` two steps give a step with tools and a last one without, and three Runs a resume of a
resume; `late` and `asked` saturate at two. In `thread_context` six items with pages of three (`PageLimit`, `Lookahead`)
give batches cut by a page, three segments and two saves; `MaxItems` stops the journal and with it the model. `fanout` has
`MaxVersion` two (a READY and an UPDATE or FEEDBACK on an edge), `MaxWorkers` two so that a third ready task waits,
and the two attempts are the code's own; `fanout_crash` has one version and `MaxCrashes` two, so that a
resumed run dies again. In `campaign` two slots and two threads race for one state, and three processes are a crash, its resume,
and one that must find nothing to do.

Deadlock is not checked where the system stops: when every process has ended, when the bounds are used up, or
when nobody resumes. `Fanout` is checked for it (`Stopped` is the intended end): a coordinator that waits for
no worker would be found.

Fairness. All of it is weak fairness of what a live thread does by itself. `batch_assorted` assumes it of each
`Work(r)`: the thread waits for no other process (locks are held for one repository operation, an unanswered
request ends the Run). `agent_loop` assumes it of `Work`; a model call and a tool have timeouts. `fanout` and `fanout_crash` assume it of
the coordinator and of the end of each worker (`FinishWorker`): a worker is a Run, which the loop shows to end, and the
coordinator waits with a timeout. `campaign` assumes it of `Work`: an agent is bounded by its budgets and the
benchmark's timeout. Nobody is assumed to resume, decide, publish a version or send a signal, and a crash
may come at any point.

## 4. Findings

*An abandoned Turn that nothing can resume* (`abandoned_turn`). `_deny` and the unrouted-tool path save the
checkpoint of a Run that goes on as `blocked`, which is not a resumable status. A crash before the
next cursor advance leaves an active Turn without a terminal intent: `Harness.resume` says "cannot
resume terminal Run", a new request says "already has active Turn; resume it first".

*A crash undoes a withdrawal* (`rejected_batch`). The withdrawal of a batch after a rejection is remembered only
by the process: once the Observation is durable, the resumed Run sees an answered call, moves the
cursor past it and executes the next one.

*A cancelled Turn with an open batch* (`cancelled_batch`). A Run paused inside a batch and resumed consumes a
cancel at `before_run`, before it looks at the batch, and ends the Turn. The next Turn's first item follows
the open batch, and `session.py` refuses every page that holds both: the Thread answers no request any more.

### Observed divergences without a run

Met while reading or while an earlier form of a model was checked; each is in the code, and where a
model reaches it, the model has it.

- When saving a checkpoint raises, the exception path reads the already transitioned object and records its
  status in `thread.json`: a Turn can be closed with a status no checkpoint holds. `ownership_refines` therefore
  considers crashes only; `ownership` checks what still holds with errors.
- The stop after an unknown outcome is remembered like a withdrawal, and undone by a crash in the same way.
- On resume a cancel is consumed before the ledger is asked about the interrupted call, and the Observation of a
  call that was executed can say that it was not.
- `resolve_existing_operation` refuses a failed command, `record_approved` does not: a superseded Run that is still
  alive passes between them and executes the command a second time. `EffectAtMostOnce` states the condition: no failure
  leaves a trace, or the operation is a command and Runs do not overlap. The runs with overlap leave `"dirty_failure"` out.
- An operation that needs no approval has no step that takes its record out of `failed`: after a clean failure the
  execution claim raises on every resume.
- A request left pending by one Run is answered as rejected when a Run with automatic approval takes over.
- An unbound pause or cancel that arrives after its Run ended stops the next Run of that process. A bound pause is
  taken before an unbound cancel.
- A Run paused at `before_run` saves step 0, so its resume has the whole step budget again.
- A superseded Run that refreshes its view after a later Turn started may save a digest under the authority of the
  finished Turn: `load_context_state` and the save check the revision, not the owner.
- A page that is a single segment with more journal behind it raises: shipped limits avoid it, configured ones need not.
- A worker whose Run is blocked, waiting or paused after the coordinator chose to retry ends as
  `worker_adapter_exception`.
- A failed save after a slot was judged turns a completed slot into a failed one in parallel mode; a campaign with
  reruns pays for it again. Two processes on one `campaign.json` are not kept apart.
- An MCP reply that is a JSON-RPC error, or that never came, becomes a successful Observation `{}`
  (`tools/mcp/stdio.py:187-192`: `call_tool` drops `error`, `execute` reports success); the deadline is checked only
  between blocking reads. Retries of the model gateway poll no control signal.

## 5. Proofs

`RunOwnershipProofs` proves, for every set of Turns and Runs and every choice of faults,

- `TypeCorrect`: `Spec => []TypeOK`;
- `ClaimedRunsKeepCheckpoints`: `Spec => []ClaimedRunHasCheckpoint`.

The second is not inductive: a Run becomes claimed through `thread.json`, through a `turn_start` item
the next load reconciles, or through an intent, and `Cleanup` deletes a checkpoint on the strength
of a fresh load. The invariant `IInv` therefore says that neither record outlives the checkpoint
(`RecordedHasCheckpoint`, `StarterHasCheckpoint`), that a `turn_start` item `thread.json` does not know is
the only one of its Turn (`StarterIsKnown`, without which the load could pick another Run and
report the claimant as unclaimed), that a process past bootstrap has its checkpoint and its object
(`BootedHasCheckpoint`), that a claimed resume continues a claimed Run (`ParentIsRecorded`, needed because
the exception path may fall back on the parent's checkpoint), and two facts about locals.
`ReconciledFacts` and `RepairedFacts` say what the repair preserves; one lemma per action or family
of actions follows, then the temporal step. The proofs use `IdentityAssumption` only (the empty
identities are not identities).

`TurnOwnershipProofs` extends it and proves, under the same assumption and for any faults,

- `ImplementsOwnershipContract`: `Spec => ImplementsOwnership`, the refinement of `TurnOwnership`;
- `TerminalTurnsStay`: `Spec => TerminalTurnFrozen`;
- `AttemptsDoNotFork`: `Spec => []NoForkedResume`.

The contract speaks of what the next load would show, so the argument has two halves. *What a step writes*: lemmas
such as `OwnedView` and `RecordedStep` say how `Repaired` changes when a step writes the repaired metadata with one Run or one
status changed, when it appends an item, when it announces an intent, and when a checkpoint makes an intent count. *Who may
write it*: `LocalInv` says what the position of a process tells about its files (nothing before bootstrap, a
running checkpoint at work, an intent only near the end, a completed status only behind an answer, a parent of the
same Turn), and `NameInv` that a Run is named by a Turn only after its claim. Then one lemma per family of
actions shows a step of the contract, and freezing and the absence of forks follow from the shape of these steps (`ShownAs`,
`NewOwner`, `SameShown`) and the fact that a claim names the current Run of the Turn as its parent.

`StoreLoadsProofs` extends that and proves

- `LoadNeverFails`: `Spec => []StoreLoads`;
- `TerminalTurnsAreSaved`: `"error" \notin Faults => (Spec => []TerminalTurnHasCheckpoint)`.

A load raises when `thread.json` is ahead of the journal or ignores a Turn of the part it acknowledged (excluded by
`SequenceFits`), when reconciling makes a second Turn active (`OneActive`), or when an intent contradicts a checkpoint
(`IntentIsTrue`). `SnapshotsFit` gives an active Turn its snapshot. The second needs its hypothesis: when a checkpoint cannot be saved, the exception path records the
terminal status of the object in `thread.json` without it, and TLC finds that state at once. `SavedInv` says
that without such errors the object and the file of a Run agree, and that a Turn becomes terminal behind them only.

`ToolBatchProofs` proves, for every batch, every set of Runs, operations and contents and every choice of faults,

- `TypeCorrect`: `Spec => []TypeOK`. The two facts added to make it inductive are that a process working on a call
  has its cursor within the batch, and that a claimed resume has a parent whose pointer it copies;
- `NoExecutionIsForgotten`: `Spec => ExecutionIsNotForgotten`;
- `DecisionsAreFinal`: `Spec => DecisionIsFinal`, which no run repeats: `ApprovedTargetOnly` and `TruthfulObservations` already fail in
  `batch` when a decision is turned around under a Run that acted on it;
- `EffectsHappenOnce`: `Spec => []EffectAtMostOnce`, in two halves after the conditions of the property. When failures leave no
  trace, `EffectInv` says that a Run at the tool holds the record in `executing` under its own name, before any effect, and that an
  effect leaves a record that is `executing` or `executed`; Runs may overlap. When they may leave one and Runs follow one another,
  `CommandInv` says that a command with an effect has a record that is `executing`, `executed` or `failed`, and that no Run on its
  way to the tool (`Authorizing`) has such a command before it. With neither condition the statement is false of the code (see 4).

`LedgerSteps` carries the last three: every step of the system leaves ledger and effects alone (`Quiet`), changes
records nobody executes (`Reopens`), or is the claim, the tool or the result. It proves further

- `CallsAreNotLost`: `Spec => []NoCallIsLost`, for overlapping Runs too. `LostInv` ties the pointers to the journal: what lies
  before a pointer is answered, a process past its Observation has it in the journal and one about to append holds it, and a Run that left the
  batch, the owner at the model step and a closed Turn leave no call behind. A superseded Run may be back at the model step; it proposes nothing;
- `SuccessesAreReal`: an observed success is executed in the ledger and a withdrawn call lies behind a rejected one, always;
- `ApprovalsAreForTheTarget`: `Spec => []ApprovedTargetOnly` when `"overlap" \notin Faults`. `PrintsAreTaken` and `ReadIsCurrent` say
  that a Run at work on a call carries the fingerprint it took then; with overlap a superseded Run that took another one may mark the
  approval stale after the check of the first and before its tool;
- `ObservationsAreTruthful`: `Spec => []TruthfulObservations` when `AutoRuns = {}` and `"overlap" \notin Faults`. The invariant is that
  of the two theorems before with `RejectionInv` (a rejection that is read, held or observed is on file) and `StartInv` (commands start in
  batch order, each while its Observation is missing; none that a Run is about to authorize, holds as closed or skips was started). Both hypotheses exclude real
  divergences: an automatic Run answers a pending request as rejected (see 4), a superseded process may start a command its owner withdraws.

The proofs use `OperationAssumption` (the original contents are contents, the mark of an untaken fingerprint is not) and
`BatchAssumption`; the batch is not empty because a model answer without calls is the final answer.

`AgentLoopProofs` proves, for any budget of steps, any batches, any number of Runs and any faults,

- `TypeCorrect`: `Spec => []TypeOK`;
- `OnlyFreshInput`: `Spec => []ActsOnFreshInput`;
- `StopsArePrompt`: `Spec => []StopIsPrompt`;
- `QuestionsAskedOnce`: `Spec => []AskedOnce`;
- `CancelsAreKept`: `Spec => CancelIsNotLost`.

The second and the third are not inductive. `FreshOK` follows a response guidance overtook: until the boundary the guidance is
still in the mailbox (nothing else drains it), and an accepted answer keeps the Run away from the model for good. `LateOK`
says where a Run can be once a call began with a stop waiting: on its way to a boundary, with the stop still there. `StepOK` and
`CallOK` (the step stays in the budget except before the model, a call being worked on has no Observation) are what the types need. One lemma
per action, then the temporal step. Assumptions: `LoopAssumption`, `MaxCallsAssumption`.

`CampaignProofs` proves, for any number of slots and processes, any requests and any faults,

- `TypeCorrect`: `Spec => []TypeOK`, with the bound on attempts by processes and retries;
- `PassAtOneHolds`: `Spec => []PassAtOne`;
- `TrajectoriesCounted`: `Spec => []CountedOnce`;
- `PublishedStays`: `Spec => PublishedIsFinal`.

The invariant relates three counters of a slot: trajectories begun, attempts on disk, attempts in memory, each at most the next
(`StartIsDurable`, `ThreadOK`), with a gap where a thread has marked an attempt and not begun it. A strict campaign needs that a
queued slot was never attempted and that its request has no retries; the bound on attempts needs that one process gives a slot
at most `retries` of them, hence `(processes - 1) * retries` while it is queued. `SlotOK` is the order of the retries on record,
`Finished` and `Concluded` say what is published. `MemoryStep` is the lemma most actions share: one slot changes in memory, and the file
becomes the memory or stays. Assumption: `CampaignAssumption`.

`FanoutProofs` proves, for any plans, any number of workers and any number of crashes of the coordinator,

- `ImplementsIntegration`: `Spec => ImplementsInOrder`, the refinement of `InOrderIntegration`;
- `TreesAreMerged`: `Spec => []TreeIsMerged`;
- `CheckpointsResume`: `Spec => []CheckpointResumable`;
- `WorkersAreIsolated`: `Spec => []WorkersIsolated`;
- `FanoutTypesAreCorrect`: `Spec => []TypeOK`;
- `HandoffsAreNotLost`: `Spec => []NoLostHandoff`;
- `IntegratedAreFresh`: `Spec => []IntegratedIsFresh`;
- `GivesUpForAReason`: `Spec => []FrontierIsToBlame`.

Four invariants, each on top of the ones before it.

`IInv`, for the refinement. `MergedOK`: a coordinator at work has the prefix that the checkpoint holds, perhaps more, so that
a crash (which leaves `checkpoint.merged`) is the abstract crash and a resume a stutter. `ApplyOK`: what is about to be applied is
the next task in the order; `IntegrateInTurn` draws it from the deferral of every other candidate. `StatusOK`: the status is open
until `Settle` and saved by `SaveOutcome`, so a crash between the two reopens the abstract outcome. `SettleStep` shows
that `"passed"` means the whole order: a sequence has at most as many elements as its length (`FewerElements`) and the order has
one place per task (`OrderFacts`). `Tracks` is the abstract step.

`FanoutInv`, for the workspace, the checkpoint and the workers. A task is in one place at most (`Apart`); it was launched at most once while
it may be launched again (`Counts`); there is one record per attempt that ended and a sound one behind each candidate
(`Histories`, `CandidatesSound`, `MergedSound`), which is what `_restore_hard_prefix` asks of a checkpoint; the tasks still to be
launched in a round fit together and beside what runs (`Todos`); what is merged is a prefix of the order (`PrefixOK`). It needs what the pure
functions return: `OrderInTurn` (the integration order has every task once, after all its upstream) and `SelectionIsFit` (a
selection keeps the limit and the scopes, and is empty only if no task can be launched).

`HandoffInv`, for the versions. What is offered on an edge comes from the producer's current attempt and is seen or waits in the mailbox,
as the last version of its producer there (`NothingLost`, `LastIsLatest`: draining reads the last one, so without the second the first is not
inductive); nothing waits that a withdrawn attempt sent (`MailCurrent`). What is merged, or authorized and about to be, has seen the last
version of each producer (`SecuredFresh`); a step changes the edges of one task only (`Touches`), and it is never a merged one because
only a worker that runs can publish (`WorkerOK`).

`BlameInv`, for giving up. Until the end a task in some place has no result, and one without place or result was given up because the
frontier had failed (`OpenResults`). A round that finds nothing to do while nothing runs has a frontier that failed or lacks a
version (`Rounds`): `FrontierFacts` says its predecessors are merged, so if it waits to be launched and was not selected, what is missing
can only be a version (`FreeFrontier`).

Assumptions: `PlansAssumption` (a plan is well typed and passed its validation) and `BoundsAssumption` (one to eight workers, as
`fanout.py` has it).

`ThreadContextProofs` proves, for a journal, a page and a lookahead of any length, any batches that fit, any number of Turns
and Runs, any number of them alive at a time, and any faults,

- `TypesAreCorrect`: `Spec => []TypeOK`;
- `RequestsAreComplete`: `Spec => []CompleteRequest`;
- `DigestsAreExact`: `Spec => []DigestIsExact`;
- `AuthorityIsKept`: `Spec => []AuthorityKept`;
- `DigestsOnlyGrow`: `Spec => DigestOnlyGrows`.

None of them is inductive: a Run saves what it made of a state, a page and a tail that it read in three steps, while others append
and save. `CInv` adds what these reads are worth. `JournalOK`: a result belongs to the batch before it, with nothing but results
and answers between, and no batch has more results than calls; hence at most one batch is open and everything behind it is a
result or an answer (`OpenIsQuiet`, `OneQuietBatch`). `TurnsOK`: a Turn that was only planned has no item yet. `Exact`, of the stored
state and of the copy each Run has: the digest stands for the items up to `covered`, each once, no batch cut in two, with the
updates of its Turn and the last valid evidence. `ViewOK`, of a Run between its reads: its copy is the stored state as long as nobody saved since (which is
what the revision check asks), its page holds each item behind the covered ones once (`Behind`) and may be cut wherever a
segment ends (`Cuts`), and a Run that may still append knows whether the journal goes on.

The argument has three parts. *Reading*: `PagesCanBeCut` shows that normalization and grouping agree, that is, no end of a segment of the
normalized page lies inside a batch. Its induction (`ReadStep`) follows the reader over the items: what is held back are the answers
of the open batch, what was said so far has its cuts between batches, and the open batch is the last segment. *Rolling*: `RollStep` and `RollsUp` show
that the digests of the segments up to a cut merge into the digest of the prefix, `MergeIsExact` that this and an exact digest merge
into an exact one; `ValidMerge` is the algebra behind both, that the last validation with no write after it can be found piece by piece. *Standing*:
the journal only grows, and completeness, cuts and evidence of what was read do not change with it (`CutsStay`, `ValidStays`, `ExactStays`);
what closes an open batch is a result, never an item of another kind (`ObserveStep`, `AppendStep`). The window a Run keeps behind
what it saved is again behind the covered items (`RestIsBehind`).

`Normalized` and `Rolled` are recursive functions of one value per position; `Recursion` shows that such a function
exists and `Climb` is the induction on it, so the theorems hold of the functions that TLC evaluates. Assumption:
`ContextAssumption`. It asks that the results of a batch and an answer among them fit the lookahead. The code reads 64 items ahead and does not limit a
batch; for one of more than 63 calls that crosses the end of a page its loader raises, and there is no request to speak of.

Induction over data is out of the provers' reach in the form the library has it (a theorem with an operator for the claim). Where the
fanout filters or folds a sequence, the model therefore does it with a function over the positions (`Kept`, `Layered`, `Selection`), and the claim is a
set of positions that contains 0 and with each position the next (`Climb`). That gives `KeptElements`, `KeptAll`, `LastOfKept`
and the two lemmas above. `ThreadContextProofs` uses the same device.

Model-checked only: `ApprovedTargetOnly` and `TruthfulObservations` beyond
the hypotheses named above, where the code has the divergences. Liveness stays with TLC
in any case (`RunsStop`, `RunsEnd`, `RunEnds`, `CampaignEnds`): the prover reaches neither fairness nor `ENABLED`.

## 6. Abstractions

- Item payloads, hashes, titles, timestamps and counters are left out; `waiting` stands for the three
  resumable stops and `blocked` also for `cancelled` (`AgentLoop` keeps `paused` and `cancelled` apart).
- A torn last journal line is repaired by the next scan, so a crashed append left its item or nothing;
  `atomic_write_json` is one step.
- The Thread exists before the first Run (CLI and console create it first).
- In `RunOwnership` tool calls appear only through what they do to the checkpoint status (`DenyTool`, `AdvanceCursor`).
- In `ToolBatch` the terminal protocol of a Run is one step (`Complete`, `Finish`): `RunOwnership` takes it
  apart. In `AgentLoop` one Run follows another; overlapping Runs are in `RunOwnership`, `ToolBatch` and `ThreadContext`.
- Left out of `ToolBatch`: capability narrowing on resume, memory provenance, malformed or ambiguous batches. The verdict
  of the `before_tool` hooks is the constant `Policy`; `MCPolicy` is `PermissionPolicy` in on-risk mode, `MCTrusted` in trusted mode.
- `ToolBatch` leaves the repeated-call guard out (its effect is that of a `ControlSignal` stop), and saves the status of
  a rejection with the cursor that follows it (`Advance`). A failing save of a denied call is in no model, a crash there is.
- `LoadError` has no case for metadata of a Turn that contradicts its `turn_start` item (`thread_json.py:791-800`): no writer
  of the model leaves such a pair.
- `AgentLoop.Propose` leaves out duplicate call identifiers, ambiguous batches and coordination signals.
- In `AgentLoop` the quality gate, hooks, cost, time and failure budgets are free choices; the step budget is counted.
- In `ThreadContext` token estimates only decide whether and where to cut, so every proper cut is possible; an
  answer to a question is an item beside the result, and one kind of batch stands for each thing the digest treats
  differently (question, write, validation). A check that was deferred or barred makes the evidence of its key unknown in the
  code; no batch of the model has one.
- In `Fanout` what a worker does inside its Run is an outcome (`FinishWorker`), Git applies or does not, and the summary is one
  write. A patch is the name of its task. LIVE plans do not resume (the code refuses them), and a crash leaves the integration
  workspace dirty until it is cleaned (`CleanTree`). An exception after a worker's decision was read keeps that decision in the
  code and makes the worker blocked in the model; `history` is a set, and no two of its records are equal.
- In `Campaign` a benchmark run is a verdict, a failure of the infrastructure, or an exception; one process works on a
  campaign at a time. `Publish` is one step although the bundle is many files, and an option to
  publish elsewhere is left out.

## 7. Plan

Done: ownership and its contract; the tool batch and its ledger; loop, control and human input; the
conversation view and digest; the fanout with its contract and live handoff; campaigns; proofs for all of them.

Next: an abstract specification of the batch (an effect at most once per approval, a call closed by one Observation) that
`ToolBatch` implements, with its proof, and capability narrowing on resume.

## 8. Not modelled

- **Model gateway** (`model_gateway.py`, `openai_compatible.py`): a sequential loop over attempts inside one model call; nothing
  of it survives the call, and `AgentLoop` sees its response only.
- **Long-term memory**: one file per record, written atomically, read and written back without a lock. Nothing in the repository
  promises more to concurrent writers, so there is no property to check; ranking is a computation on text.
- **Tools and MCP**: tool bodies are I/O. The MCP client starts a process per call and answers one request after
  another; its divergence is in 4.
- **Execution environments and workspaces**: Git and container I/O, whose effect on a Run is a result or an exception, which the
  models choose freely.
- **Operator Console and CLI**: modelled as the callers that start, resume, steer, stop and answer; their event buffer and rendering are not.
- **Observability, evaluation, skills, workbench, showcase, scripts**: about half of the repository's lines. They project finished Runs into
  reports and HTML, or are one-off scripts; no component relies on their state.
