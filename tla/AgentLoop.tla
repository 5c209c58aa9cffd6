----------------------------- MODULE AgentLoop ------------------------------
(***************************************************************************)
(* AgentLoop.run over the successive Runs of one Turn: the boundaries at   *)
(* which a Run listens to its operator, the model steps between them, the  *)
(* questions it asks, and what a resumed Run continues.                    *)
(*                                                                         *)
(* Durable: ckpt, the checkpoint of the current Run; batch, the last       *)
(* assistant item with tool calls (calls, and the step it was proposed     *)
(* in); obs, the Observations of its calls; accepted, whether the accepted *)
(* answer is in the journal; requests, the questions.                      *)
(*                                                                         *)
(* Of the process: run, step, response, retried (the overflow recovery of  *)
(* this step is spent), result (the Observation it holds), verdict (the    *)
(* StopRequest it carries) and the mailbox of RunControl.                  *)
(*                                                                         *)
(* The details of executing a call are in ToolBatch, the terminal protocol *)
(* and overlapping Runs in RunOwnership; here one Run follows another.     *)
(***************************************************************************)
EXTENDS RunControl, HumanInput, Sequences

CONSTANTS MaxSteps,        \* max_iterations
          MaxRuns,         \* bound on the Runs of the Turn
          Batches,         \* what the model may propose
          Clarifications,  \* verdicts of the clarification policy on the task
          OperatorKeys,    \* how the operator addresses signals
          Faults           \* "crash": the process dies; "error": it catches an exception

ASSUME LoopAssumption ==
  /\ MaxSteps \in Nat \ {0} /\ MaxRuns \in Nat \ {0}
  /\ Batches \subseteq UNION {[1..n -> {"act", "ask"}] : n \in 1..MaxCalls}
  /\ Clarifications \subseteq {"proceed", "ask", "refuse"}
  /\ OperatorKeys \subseteq Keys
  /\ Faults \subseteq {"crash", "error"}

VARIABLES clarification, ckpt, batch, obs, accepted,
          run, pc, step, response, retried, result, verdict,
          outdated,  \* ghost: guidance was waiting when the last response came back
          late       \* ghost: external calls begun while a pause or cancel was waiting

turnVars == <<clarification, batch, obs, accepted>>
localVars == <<response, retried, result, verdict>>
ghostVars == <<outdated, late>>
vars == <<controlVars, humanVars, turnVars, localVars, ghostVars, ckpt, run, pc, step>>

Resumable == {"running", "waiting", "paused"}
Verdicts == {"none", "waiting", "paused", "blocked", "failed", "cancelled", "completed"}
ObsKinds == {"none", "done", "failed", "answered", "deferred", "closed"}
Responses == {"none", "overflow", "error", "answer", "calls"}
Points == {"idle", "before_run", "input", "restore", "before_model", "prepare", "hook", "model",
           "returned", "dispatch", "point", "call", "ask", "control", "tool", "observe",
           "advance", "close", "finish", "ended"}

(* Types of the durable state, the process and the ghosts; the step stays  *)
(* within the budget of the Run, plus the step the loop does not take.     *)
TypeOK ==
  /\ ControlTypeOK /\ HumanTypeOK
  /\ clarification \in Clarifications
  /\ ckpt \in [status : Verdicts \cup {"running"}, step : 0..MaxSteps, pending : BOOLEAN]
  /\ batch \in [calls : Batches \cup {<<>>}, step : 0..MaxSteps]
  /\ obs \in UNION {[1..n -> ObsKinds] : n \in 0..Len(batch.calls)}
  /\ accepted \in BOOLEAN
  /\ run \in 0..MaxRuns /\ pc \in Points /\ step \in 0..MaxSteps + 1
  /\ response \in Responses /\ retried \in BOOLEAN
  /\ result \in ObsKinds /\ verdict \in Verdicts
  /\ outdated \in BOOLEAN /\ late \in 0..2

Init ==
  /\ ControlInit /\ HumanInit
  /\ clarification \in Clarifications
  /\ ckpt = [status |-> "none", step |-> 0, pending |-> FALSE]
  /\ batch = [calls |-> <<>>, step |-> 0] /\ obs = <<>> /\ accepted = FALSE
  /\ run = 0 /\ pc = "idle" /\ step = 0
  /\ response = "none" /\ retried = FALSE /\ result = "none" /\ verdict = "none"
  /\ outdated = FALSE /\ late = 0

----------------------------------------------------------------------------
Size == Len(batch.calls)
Open == Len(obs) < Size
Next1 == Len(obs) + 1      \* the call at the cursor

(* _select_calls_for_model_step: a question is an exclusive barrier. *)
Executable(i) ==
  LET questions == {j \in 1..Size : batch.calls[j] = "ask"}
  IN  questions = {} \/ (i \in questions /\ \A j \in questions : i <= j)

Save(status, s, pending) == ckpt' = [status |-> status, step |-> s, pending |-> pending]

(* A StopRequest: the Run goes to its terminal protocol. *)
StopAs(status) == verdict' = status /\ pc' = "finish"

(* An external call begins; it should not while a stop is waiting. *)
BeginCall == late' = IF ~Requested THEN 0 ELSE IF late = 2 THEN 2 ELSE late + 1

KeepEnv  == UNCHANGED <<controlVars, humanVars>>
KeepTurn == UNCHANGED turnVars

----------------------------------------------------------------------------
(* create_session: the first Run of the Turn, or a resume.  A resume copies *)
(* the step and the pending batch of the checkpoint it continues.           *)
Begin ==
  /\ pc = "idle"
  /\ run' = 1 /\ pc' = "before_run"
  /\ Save("running", 0, FALSE)
  /\ UNCHANGED <<controlVars, humanVars, turnVars, localVars, ghostVars, step>>

Resume ==
  /\ pc = "ended" /\ run < MaxRuns
  /\ ckpt.status \in Resumable
  /\ run' = run + 1 /\ pc' = "before_run"
  /\ Save("running", ckpt.step, ckpt.pending)
  /\ Unbind
  /\ late' = 0
  /\ UNCHANGED <<humanVars, turnVars, localVars, outdated, step>>

(* consume_pending_signals with a pause or cancel waiting: before the Run,  *)
(* before and after the model, before a call and before the tool starts.    *)
(* The signal becomes the StopRequest; a cancel closes the open batch.      *)
Interrupt ==
  /\ pc \in {"before_run", "before_model", "returned", "call", "control"}
  /\ pc = "before_model" => step <= MaxSteps
  /\ pc = "call" => Open /\ Executable(Next1)
  /\ \E signal \in Signals :
       /\ TakeTerminal(signal)
       /\ verdict' = IF signal = "cancel" THEN "cancelled" ELSE "paused"
       /\ pc' = IF signal = "cancel" /\ pc \in {"call", "control"} THEN "close" ELSE "finish"
  /\ late' = 0
  /\ UNCHANGED <<humanVars, turnVars, ckpt, run, step, response, retried, result, outdated>>

BeforeRun ==
  /\ pc = "before_run" /\ ~Requested
  /\ pc' = "input"
  /\ UNCHANGED <<ckpt, run, step>> /\ KeepEnv /\ KeepTurn /\ UNCHANGED <<localVars, ghostVars>>

(* What a question comes back with: its answer, or a stop. *)
Unanswered(i) ==
  verdict' = IF requests[i] = "cancelled" THEN "blocked" ELSE "waiting"

(* prepare_run: the input policy and the clarification of the task. *)
CheckInput ==
  /\ pc = "input"
  /\ \/ clarification = "refuse" /\ StopAs("blocked") /\ UNCHANGED humanVars
     \/ clarification = "proceed" /\ pc' = "restore" /\ UNCHANGED <<verdict, humanVars>>
     \/ /\ clarification = "ask" /\ Ask(0)
        /\ IF requests[0] = "responded"
           THEN pc' = "restore" /\ UNCHANGED verdict
           ELSE Unanswered(0) /\ pc' = "finish"
  /\ UNCHANGED <<controlVars, ckpt, run, step, response, retried, result>>
  /\ KeepTurn /\ UNCHANGED ghostVars

(* existing_accepted_final_answer, then resume_pending_calls: an accepted   *)
(* answer is closed and not asked for again; an open batch is continued     *)
(* from its pointer, or from the journal when the pointer is not there.     *)
Restore ==
  /\ pc = "restore"
  /\ \/ accepted /\ StopAs("completed") /\ UNCHANGED <<ckpt, step>>
     \/ /\ ~accepted /\ ckpt.pending
        /\ step' = ckpt.step /\ pc' = "call"
        /\ UNCHANGED <<ckpt, verdict>>
     \/ /\ ~accepted /\ ~ckpt.pending /\ Open
        /\ Save("running", batch.step, TRUE)
        /\ step' = batch.step /\ pc' = "call"
        /\ UNCHANGED verdict
     \/ /\ ~accepted /\ ~ckpt.pending /\ ~Open
        /\ step' = 1 /\ pc' = "before_model"
        /\ UNCHANGED <<ckpt, verdict>>
  /\ UNCHANGED <<run, response, retried, result, ghostVars>> /\ KeepEnv /\ KeepTurn

----------------------------------------------------------------------------
(* The loop is exhausted: max_steps, recorded at the last saved step. *)
OutOfSteps ==
  /\ pc = "before_model" /\ step > MaxSteps
  /\ StopAs("blocked")
  /\ step' = ckpt.step
  /\ UNCHANGED <<ckpt, run, response, retried, result, ghostVars>> /\ KeepEnv /\ KeepTurn

(* Waiting guidance becomes user items of the journal, then the checkpoint. *)
InjectSteers ==
  /\ DrainSteers
  /\ IF Steered THEN Save(ckpt.status, step, ckpt.pending) ELSE UNCHANGED ckpt

(* Fault: one step more than the budget. *)
BeforeModelLate ==
  /\ pc = "before_model" /\ step <= MaxSteps + 1 /\ ~Requested
  /\ InjectSteers
  /\ pc' = "prepare"
  /\ UNCHANGED <<run, step, humanVars, localVars, ghostVars>> /\ KeepTurn

BeforeModel ==
  /\ pc = "before_model" /\ step <= MaxSteps /\ ~Requested
  /\ InjectSteers
  /\ pc' = "prepare"
  /\ UNCHANGED <<run, step, humanVars, localVars, ghostVars>> /\ KeepTurn

(* prepare_model_step saves the step, then freezes the model's input. *)
Prepare ==
  /\ pc = "prepare"
  /\ Save("running", step, ckpt.pending)
  /\ outdated' = FALSE
  /\ pc' = "hook"
  /\ UNCHANGED <<run, step, localVars, late>> /\ KeepEnv /\ KeepTurn

(* The before_model hook refuses, or the model is called. *)
CallModel ==
  /\ pc = "hook"
  /\ \/ StopAs("blocked") /\ UNCHANGED late
     \/ BeginCall /\ pc' = "model" /\ UNCHANGED verdict
  /\ UNCHANGED <<ckpt, run, step, response, retried, result, outdated>> /\ KeepEnv /\ KeepTurn

ModelReturns ==
  /\ pc = "model"
  /\ response' \in Responses \ {"none"}
  /\ outdated' = Steered
  /\ pc' = "returned"
  /\ UNCHANGED <<ckpt, run, step, retried, result, verdict, late>> /\ KeepEnv /\ KeepTurn

(* Fault: the response is dropped but its step is not counted. *)
RefreshSameStep ==
  /\ pc = "returned" /\ ~Requested /\ Steered
  /\ InjectSteers
  /\ pc' = "before_model"
  /\ response' = "none" /\ retried' = FALSE
  /\ UNCHANGED <<run, step, result, verdict, humanVars, ghostVars>> /\ KeepTurn

(* _after_model_boundary: guidance that came during the call makes the     *)
(* response stale; it is dropped and its step is spent (REFRESH_INPUT).    *)
Refresh ==
  /\ pc = "returned" /\ ~Requested /\ Steered
  /\ InjectSteers
  /\ pc' = "before_model" /\ step' = step + 1
  /\ response' = "none" /\ retried' = FALSE
  /\ UNCHANGED <<run, result, verdict, humanVars, ghostVars>> /\ KeepTurn

(* Fault: the answer to the recovery call skips the boundary. *)
KeepRecovered ==
  /\ pc = "returned" /\ (retried \/ (~Requested /\ ~Steered))
  /\ \/ pc' = "dispatch" /\ UNCHANGED verdict
     \/ StopAs("blocked")
  /\ UNCHANGED <<ckpt, run, step, response, retried, result, ghostVars>> /\ KeepEnv /\ KeepTurn

(* The response is current: use it, unless cost or time are exhausted. *)
KeepResponse ==
  /\ pc = "returned" /\ ~Requested /\ ~Steered
  /\ \/ pc' = "dispatch" /\ UNCHANGED verdict
     \/ StopAs("blocked")
  /\ UNCHANGED <<ckpt, run, step, response, retried, result, ghostVars>> /\ KeepEnv /\ KeepTurn

(* Fault: an overflow is recovered from before anybody is listened to. *)
RecoverAtOnce ==
  /\ pc \in {"returned", "dispatch"} /\ response = "overflow" /\ ~retried
  /\ Save("running", step, ckpt.pending)
  /\ outdated' = FALSE
  /\ \/ pc' = "hook" /\ response' = "none" /\ retried' = TRUE /\ UNCHANGED verdict
     \/ StopAs("failed") /\ UNCHANGED <<response, retried>>
  /\ UNCHANGED <<run, step, result, late>> /\ KeepEnv /\ KeepTurn

(* Context overflow: prepare the step again, compacted.  The model is called *)
(* once more if the input became smaller, otherwise the error stands.        *)
Recover ==
  /\ pc = "dispatch" /\ response = "overflow" /\ ~retried
  /\ Save("running", step, ckpt.pending)
  /\ outdated' = FALSE
  /\ \/ pc' = "hook" /\ response' = "none" /\ retried' = TRUE /\ UNCHANGED verdict
     \/ StopAs("failed") /\ UNCHANGED <<response, retried>>
  /\ UNCHANGED <<run, step, result, late>> /\ KeepEnv /\ KeepTurn

FailModel ==
  /\ pc = "dispatch"
  /\ response = "error" \/ (response = "overflow" /\ retried)
  /\ StopAs("failed")
  /\ UNCHANGED <<ckpt, run, step, response, retried, result, ghostVars>> /\ KeepEnv /\ KeepTurn

(* build_stop_request for an answer: accepted, or blocked when it claims a  *)
(* validation nothing ran.  The accepted answer reaches the journal before  *)
(* the terminal checkpoint.                                                 *)
Answer ==
  /\ pc = "dispatch" /\ response = "answer"
  /\ \/ accepted' = TRUE /\ StopAs("completed")
     \/ StopAs("blocked") /\ UNCHANGED accepted
  /\ UNCHANGED <<clarification, batch, obs, ckpt, run, step, response, retried, result, ghostVars>>
  /\ KeepEnv

(* The last step offers no tools: calls proposed there are refused. *)
RefuseCalls ==
  /\ pc = "dispatch" /\ response = "calls" /\ step = MaxSteps
  /\ StopAs("blocked")
  /\ UNCHANGED <<ckpt, run, step, response, retried, result, ghostVars>> /\ KeepEnv /\ KeepTurn

----------------------------------------------------------------------------
(* execute_calls: the assistant item, then the pointer to it. *)
Propose ==
  /\ pc = "dispatch" /\ response = "calls" /\ step < MaxSteps
  /\ \E calls \in Batches : batch' = [calls |-> calls, step |-> step]
  /\ obs' = <<>> /\ NewBatch
  /\ pc' = "point" /\ response' = "none" /\ retried' = FALSE
  /\ UNCHANGED <<controlVars, clarification, accepted, ckpt, run, step, result, verdict, ghostVars>>

PointToBatch ==
  /\ pc = "point"
  /\ Save("running", step, TRUE)
  /\ pc' = "call"
  /\ UNCHANGED <<run, step, localVars, ghostVars>> /\ KeepEnv /\ KeepTurn

(* A call behind the question of the batch is closed without running. *)
Defer ==
  /\ pc = "call" /\ Open /\ ~Executable(Next1)
  /\ result' = "deferred" /\ pc' = "observe"
  /\ UNCHANGED <<ckpt, run, step, response, retried, verdict, ghostVars>> /\ KeepEnv /\ KeepTurn

(* A call repeated too often, or not routed, fails without running; if it   *)
(* could change something, the repetition ends the Run.                     *)
SkipCall ==
  /\ pc = "call" /\ Open /\ Executable(Next1) /\ ~Requested
  /\ result' = "failed" /\ pc' = "observe"
  /\ verdict' \in {"none", "blocked"}
  /\ UNCHANGED <<ckpt, run, step, response, retried, ghostVars>> /\ KeepEnv /\ KeepTurn

TakeCall ==
  /\ pc = "call" /\ Open /\ Executable(Next1) /\ ~Requested
  /\ pc' = IF batch.calls[Next1] = "ask" THEN "ask" ELSE "control"
  /\ UNCHANGED <<ckpt, run, step, localVars, ghostVars>> /\ KeepEnv /\ KeepTurn

(* _handle_human_question: the answer becomes the Observation, a cancelled  *)
(* question ends the Run and its batch, an open one suspends it.            *)
AskHuman ==
  /\ pc = "ask"
  /\ Ask(Next1)
  /\ IF requests[Next1] = "responded"
     THEN result' = "answered" /\ pc' = "observe" /\ UNCHANGED verdict
     ELSE /\ Unanswered(Next1)
          /\ pc' = IF requests[Next1] = "cancelled" THEN "close" ELSE "finish"
          /\ UNCHANGED result
  /\ UNCHANGED <<controlVars, ckpt, run, step, response, retried, ghostVars>> /\ KeepTurn

(* The last boundary before the gateway, then the tool. *)
PassControl ==
  /\ pc = "control" /\ ~Requested
  /\ pc' = "tool"
  /\ UNCHANGED <<ckpt, run, step, localVars, ghostVars>> /\ KeepEnv /\ KeepTurn

(* A failure may be one too many for the failure budget. *)
RunTool ==
  /\ pc = "tool"
  /\ BeginCall
  /\ \/ result' \in {"done", "failed"} /\ UNCHANGED verdict
     \/ result' = "failed" /\ verdict' = "blocked"
  /\ pc' = "observe"
  /\ UNCHANGED <<ckpt, run, step, response, retried, outdated>> /\ KeepEnv /\ KeepTurn

Observe ==
  /\ pc = "observe"
  /\ obs' = Append(obs, result)
  /\ pc' = "advance"
  /\ UNCHANGED <<clarification, batch, accepted, ckpt, run, step, localVars, ghostVars>> /\ KeepEnv

Advance ==
  /\ pc = "advance"
  /\ Save("running", step, Open)
  /\ result' = "none"
  /\ pc' = IF verdict = "none" THEN "call" ELSE IF Open THEN "close" ELSE "finish"
  /\ UNCHANGED <<run, step, response, retried, verdict, ghostVars>> /\ KeepEnv /\ KeepTurn

LeaveBatch ==
  /\ pc = "call" /\ ~Open
  /\ IF ckpt.pending THEN Save("running", step, FALSE) ELSE UNCHANGED ckpt
  /\ pc' = "before_model" /\ step' = step + 1
  /\ UNCHANGED <<run, localVars, ghostVars>> /\ KeepEnv /\ KeepTurn

(* A terminal stop closes the calls that have no Observation. *)
CloseBatch ==
  /\ pc = "close"
  /\ obs' = [i \in 1..Size |-> IF i <= Len(obs) THEN obs[i] ELSE "closed"]
  /\ Save("running", step, FALSE)
  /\ pc' = "finish"
  /\ UNCHANGED <<clarification, batch, accepted, run, step, localVars, ghostVars>> /\ KeepEnv

----------------------------------------------------------------------------
(* The process forgets everything it did not write. *)
Forget ==
  /\ pc' = "ended" /\ step' = 0
  /\ response' = "none" /\ retried' = FALSE /\ result' = "none" /\ verdict' = "none"

(* finalize_run: the StopRequest becomes the status of the checkpoint. *)
Finish ==
  /\ pc = "finish"
  /\ Save(verdict, step, ckpt.pending)
  /\ Forget
  /\ UNCHANGED <<run, ghostVars>> /\ KeepEnv /\ KeepTurn

Working == pc \notin {"idle", "ended"}

(* The process dies, and its mailbox with it. *)
Crash ==
  /\ "crash" \in Faults /\ Working
  /\ Forget /\ EmptyMailbox
  /\ late' = 0
  /\ UNCHANGED <<humanVars, ckpt, run, outdated>> /\ KeepTurn

(* An exception ends the Run; the host and the mailbox live on. *)
Raise ==
  /\ "error" \in Faults /\ Working
  /\ Forget
  /\ UNCHANGED <<ckpt, run, ghostVars>> /\ KeepEnv /\ KeepTurn

Operate ==
  /\ run > 0
  /\ \E k \in OperatorKeys :
       \/ Steer(k)
       \/ \E signal \in {"pause", "cancel"} : SetTerminal(k, signal)
  /\ UNCHANGED <<humanVars, turnVars, localVars, ghostVars, ckpt, run, pc, step>>

Respond ==
  /\ \E i \in Invocations, decision \in {"responded", "cancelled"} : Decide(i, decision)
  /\ UNCHANGED <<controlVars, turnVars, localVars, ghostVars, ckpt, run, pc, step>>

ModelStep == \/ OutOfSteps \/ BeforeModel \/ Prepare \/ CallModel \/ ModelReturns \/ Refresh
             \/ KeepResponse \/ Recover \/ FailModel \/ Answer \/ RefuseCalls \/ Propose
BatchStep == \/ PointToBatch \/ Defer \/ SkipCall \/ TakeCall \/ AskHuman \/ PassControl \/ RunTool
             \/ Observe \/ Advance \/ LeaveBatch \/ CloseBatch

(* What the thread of a live Run does by itself. *)
Work == Interrupt \/ BeforeRun \/ CheckInput \/ Restore \/ ModelStep \/ BatchStep \/ Finish

Next == Begin \/ Resume \/ Work \/ Crash \/ Raise \/ Operate \/ Respond

Spec == Init /\ [][Next]_vars /\ WF_vars(Work)

----------------------------------------------------------------------------
(* An assistant batch and an accepted answer come from a response to which  *)
(* all guidance that had arrived was known: guidance given during a model   *)
(* call, or between the last boundary and the call, is never overtaken by   *)
(* the calls it was meant to change, in the recovery call as in the first.  *)
ActsOnFreshInput == pc = "point" \/ (accepted /\ pc = "finish") => ~outdated

(* A Run begins at most one more external call once a pause or cancel is    *)
(* waiting: every path from one call of the model or a tool to the next     *)
(* passes a boundary, overflow recovery included.                           *)
StopIsPrompt == late <= 1

(* A question is put to the operator once, however often the Run that asks  *)
(* it is suspended, crashes and is resumed.                                 *)
AskedOnce == \A i \in Invocations : asked[i] <= 1

(* A cancel leaves the mailbox only by cancelling the Run, unless it was    *)
(* bound to a Run that is over, or its process dies: no pause, from         *)
(* whichever thread and under whichever key, takes its place.               *)
CancelIsNotLost ==
  [][\A k \in Keys : terminal[k] = "cancel" /\ terminal'[k] # "cancel" =>
        \/ verdict' = "cancelled"
        \/ run' # run
        \/ Working /\ pc' = "ended"]_vars

(* A Turn that is over left no call of its batch without an Observation: a  *)
(* terminal stop closes the batch, whatever boundary it comes from.  The    *)
(* code breaks this (run cancelled_batch): a cancel that a resumed Run      *)
(* takes at before_run ends the Turn without looking at the open batch.     *)
TerminalTurnIsClosed ==
  ckpt.status \in {"blocked", "failed", "cancelled", "completed"} => ~Open

(* A Run that is not interrupted ends, however often it is steered: a       *)
(* response dropped for new guidance costs its step.                        *)
RunsEnd == Working ~> ~Working
=============================================================================
