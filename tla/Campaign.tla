------------------------------ MODULE Campaign -----------------------------
(***************************************************************************)
(* A benchmark campaign: a fixed list of slots (case, repetition and       *)
(* variant), each of which costs one agent trajectory, worked off by       *)
(* threads that share one state and its file, and resumed after a crash.   *)
(*                                                                         *)
(*   file       campaign.json                                              *)
(*   published  the slots of the public bundle, <<>> without one           *)
(*   main       the process that works on the campaign, "idle" for none;   *)
(*              next is its position in the list before it starts threads  *)
(*   mem        the CampaignState its threads share                        *)
(*   at, held   where the thread of a slot is, and the result it holds     *)
(*                                                                         *)
(* What one thread left in mem but could not save is saved by the next.    *)
(* One process works on the campaign at a time; the code does not see to   *)
(* that.                                                                   *)
(***************************************************************************)
EXTENDS Naturals, FiniteSets, Sequences

CONSTANTS Slots,        \* number of slots of the campaign
          Requests,     \* the requests its operator makes
          MaxProcesses, \* bound on the processes that work on it
          Faults        \* "crash": the process dies; "io": campaign.json cannot be written

(* rerun: rerun_incomplete_slots; retries: max_infrastructure_attempts;    *)
(* parallel: max_parallel_slots; source: revision of the source tree.      *)
ASSUME CampaignAssumption ==
  /\ Slots \in Nat \ {0} /\ MaxProcesses \in Nat
  /\ \A q \in Requests : /\ q.rerun \in BOOLEAN /\ q.retries \in 1..2
                         /\ q.parallel \in 1..4 /\ q.source \in Nat
                         /\ ~q.rerun => q.retries = 1
  /\ Faults \subseteq {"crash", "io"}

VARIABLES file, published, processes, main, next, mem, at, held,
          begun  \* ghost: agent trajectories begun for a slot

threadVars == <<at, held>>
vars == <<file, published, processes, main, next, mem, threadVars, begun>>

Ordinals == 1..Slots
MaxAttempts == 2 * MaxProcesses
Judged == {"decided", "infra"}
NoEvidence == [attempt |-> 0, class |-> "none"]
SlotStates == [status : {"pending", "running", "retry_pending", "completed", "failed"},
               attempts : 0..MaxAttempts,
               evidence : [attempt : 1..MaxAttempts, class : Judged] \cup {NoEvidence},
               history : Seq(1..MaxAttempts)]
NoState == [digest |-> "none", status |-> "none", slots |-> <<>>]
OpenStates == [digest : Requests, slots : [Ordinals -> SlotStates],
               status : {"running", "completed", "completed_with_failures"}]
States == OpenStates \cup {NoState}

(* Types.  A thread is at work only while its process is, and no slot has  *)
(* more attempts than the processes could give it.                         *)
TypeOK ==
  /\ file \in States /\ mem \in States
  /\ published \in [Ordinals -> SlotStates] \cup {<<>>}
  /\ processes \in 0..MaxProcesses
  /\ main \in {"idle", "select", "run", "publish"} /\ next \in 1..Slots + 1
  /\ at \in [Ordinals -> {"out", "queued", "again", "started", "agent", "returned", "caught",
                          "done", "raised"}]
  /\ held \in [Ordinals -> Judged \cup {"none", "exception"}]
  /\ \A s \in Ordinals : main \notin {"select", "run"} => at[s] = "out"
  /\ \A s \in DOMAIN file.slots :
       file.slots[s].attempts <= processes * file.digest.retries
  /\ begun \in [Ordinals -> Nat]

Init ==
  /\ file = NoState /\ published = <<>> /\ processes = 0
  /\ main = "idle" /\ next = 1 /\ mem = NoState
  /\ at = [s \in Ordinals |-> "out"] /\ held = [s \in Ordinals |-> "none"]
  /\ begun = [s \in Ordinals |-> 0]

Goto(s, point) == at' = [at EXCEPT ![s] = point]

(* save_state of what the process now has in memory. *)
Saved == file' = mem'
Unsaved == "io" \in Faults /\ UNCHANGED file

(* One slot changed, and the status of the campaign. *)
Changed(s, slot, status) == [mem EXCEPT !.slots[s] = slot, !.status = status]
Failed(s) == [mem.slots[s] EXCEPT !.status = "failed"]

(* The process is over: it returned, raised or died. *)
Leave ==
  /\ main' = "idle" /\ next' = 1 /\ mem' = NoState
  /\ at' = [s \in Ordinals |-> "out"] /\ held' = [s \in Ordinals |-> "none"]

----------------------------------------------------------------------------
(* _load_or_create_state.  The digest of the request and its source tree   *)
(* is frozen with the campaign; another request is refused.                *)
Fresh(q) ==
  [digest |-> q, status |-> "running",
   slots |-> [s \in Ordinals |-> [status |-> "pending", attempts |-> 0,
                                  evidence |-> NoEvidence, history |-> <<>>]]]

Open(q) ==
  /\ main = "idle" /\ processes < MaxProcesses
  /\ processes' = processes + 1
  /\ IF file = NoState
     THEN mem' = Fresh(q) /\ Saved /\ main' = "select"
     ELSE /\ UNCHANGED file
          /\ IF file.digest = q
             THEN mem' = file /\ main' = "select"
             ELSE UNCHANGED <<mem, main>>
  /\ UNCHANGED <<published, next, threadVars, begun>>

Strict == ~mem.digest.rerun

(* Fault: a failed slot is worked on again in any case. *)
EnqueueAll(s) ==
  /\ mem.slots[s].status # "completed"
  /\ ~Strict \/ mem.slots[s].status # "running"
  /\ Goto(s, "queued")
  /\ UNCHANGED <<file, mem>>

(* A slot that is not completed is worked on (again); in a strict campaign *)
(* only if it was never started.                                           *)
Enqueue(s) ==
  /\ mem.slots[s].status # "completed"
  /\ ~Strict \/ mem.slots[s].attempts = 0
  /\ Goto(s, "queued")
  /\ UNCHANGED <<file, mem>>

(* _fail_closed_started_slot. *)
FailClosed(s) ==
  /\ mem.slots[s].status # "completed"
  /\ Strict /\ mem.slots[s].attempts > 0
  /\ mem' = Changed(s, Failed(s), "running")
  /\ Saved
  /\ UNCHANGED at

FailClosedRaises(s) ==
  /\ main = "select" /\ next = s /\ "io" \in Faults
  /\ mem.slots[s].status # "completed" /\ Strict /\ mem.slots[s].attempts > 0
  /\ Leave
  /\ UNCHANGED <<file, published, processes, begun>>

SkipCompleted(s) == mem.slots[s].status = "completed" /\ UNCHANGED <<file, mem, at>>

Select(s) ==
  /\ main = "select" /\ next = s
  /\ Enqueue(s) \/ FailClosed(s) \/ SkipCompleted(s)
  /\ next' = s + 1
  /\ main' = IF s = Slots THEN "run" ELSE main
  /\ UNCHANGED <<published, processes, held, begun>>

----------------------------------------------------------------------------
(* _mark_run_slot_started: the start of an attempt is saved before the     *)
(* agent runs.                                                             *)
Marked(s) ==
  Changed(s, [mem.slots[s] EXCEPT !.status = "running", !.attempts = @ + 1], "running")

(* A thread of the pool takes the first slot of the queue, or begins the   *)
(* next attempt of the slot it is at.  Without a pool an exception ends    *)
(* the loop.                                                               *)
Busy == {s \in Ordinals : at[s] \in {"again", "started", "agent", "returned", "caught"}}
Raised == \E s \in Ordinals : at[s] = "raised"
MayStart(s) ==
  \/ at[s] = "again"
  \/ /\ at[s] = "queued" /\ \A t \in 1..s - 1 : at[t] # "queued"
     /\ Cardinality(Busy) < mem.digest.parallel
     /\ ~(Raised /\ mem.digest.parallel = 1)

(* Fault: the agent runs, whether or not the start could be saved. *)
MarkLeniently(s) ==
  /\ main = "run" /\ MayStart(s)
  /\ mem' = Marked(s)
  /\ (Saved \/ Unsaved) /\ Goto(s, "started")
  /\ UNCHANGED <<published, processes, main, next, held, begun>>

Mark(s) ==
  /\ main = "run" /\ MayStart(s)
  /\ mem' = Marked(s)
  /\ \/ Saved /\ Goto(s, "started")
     \/ Unsaved /\ Goto(s, "raised")
  /\ UNCHANGED <<published, processes, main, next, held, begun>>

RunAgent(s) ==
  /\ at[s] = "started"
  /\ begun' = [begun EXCEPT ![s] = @ + 1]
  /\ Goto(s, "agent")
  /\ UNCHANGED <<file, published, processes, main, next, mem, held>>

(* The benchmark run ends with a scorecard: a verdict, or a failure of the *)
(* infrastructure; or with an exception.                                   *)
AgentReturns(s) ==
  /\ at[s] = "agent"
  /\ \E result \in Judged \cup {"exception"} : held' = [held EXCEPT ![s] = result]
  /\ Goto(s, "returned")
  /\ UNCHANGED <<file, published, processes, main, next, mem, begun>>

(* Fault: one attempt more than the bound. *)
RetryOnceMore(s) == held[s] = "infra" /\ mem.slots[s].attempts <= mem.digest.retries

(* _record_run_slot_completion. *)
Retry(s) == held[s] = "infra" /\ mem.slots[s].attempts < mem.digest.retries

Judge(s) ==
  LET slot == mem.slots[s]
      judged == [slot EXCEPT !.evidence = [attempt |-> slot.attempts, class |-> held[s]]]
  IN  IF Retry(s) THEN [judged EXCEPT !.status = "retry_pending",
                                      !.history = Append(@, slot.attempts)]
      ELSE [judged EXCEPT !.status = "completed"]

Record(s) ==
  /\ at[s] = "returned" /\ held[s] \in Judged
  /\ mem' = Changed(s, Judge(s), mem.status)
  /\ \/ Saved /\ Goto(s, IF Retry(s) THEN "again" ELSE "done")
     \/ Unsaved /\ Goto(s, "caught")
  /\ held' = [held EXCEPT ![s] = "none"]
  /\ UNCHANGED <<published, processes, main, next, begun>>

(* The exception handler, which takes the lock anew. *)
Catch(s) ==
  /\ at[s] = "caught" \/ (at[s] = "returned" /\ held[s] = "exception")
  /\ mem' = Changed(s, Failed(s), mem.status)
  /\ \/ Saved /\ Goto(s, "done")
     \/ Unsaved /\ Goto(s, "raised")
  /\ held' = [held EXCEPT ![s] = "none"]
  /\ UNCHANGED <<published, processes, main, next, begun>>

----------------------------------------------------------------------------
(* Fault: the join waits for slots an exception kept from starting. *)
JoinedByAll == main = "run" /\ \A s \in Ordinals : at[s] \in {"out", "done", "raised"}

Joined ==
  /\ main = "run"
  /\ \A s \in Ordinals : at[s] \in {"queued", "out", "done", "raised"}
  /\ (\E s \in Ordinals : at[s] = "queued") => Raised /\ mem.digest.parallel = 1

Reraise ==
  /\ Joined /\ Raised
  /\ Leave
  /\ UNCHANGED <<file, published, processes, begun>>

(* The verdict on the campaign is saved, then its bundle published. *)
AllCompleted(state) == \A s \in Ordinals : state.slots[s].status = "completed"

Conclude ==
  /\ Joined /\ ~Raised
  /\ mem' = [mem EXCEPT !.status = IF AllCompleted(mem) THEN "completed"
                                   ELSE "completed_with_failures"]
  /\ Saved
  /\ main' = "publish"
  /\ at' = [s \in Ordinals |-> "out"]
  /\ UNCHANGED <<published, processes, next, held, begun>>

ConcludeRaises ==
  /\ "io" \in Faults /\ Joined /\ ~Raised
  /\ Leave
  /\ UNCHANGED <<file, published, processes, begun>>

(* Fault: whatever could be run is published. *)
PublishAnyway ==
  /\ main = "publish"
  /\ published' = mem.slots
  /\ Leave
  /\ UNCHANGED <<file, processes, begun>>

Publish ==
  /\ main = "publish"
  /\ IF mem.status = "completed" THEN published' = mem.slots ELSE UNCHANGED published
  /\ Leave
  /\ UNCHANGED <<file, processes, begun>>

Crash ==
  /\ "crash" \in Faults /\ main # "idle"
  /\ Leave
  /\ UNCHANGED <<file, published, processes, begun>>

SlotStep(s) == Mark(s) \/ RunAgent(s) \/ AgentReturns(s) \/ Record(s) \/ Catch(s)
Work == \/ \E s \in Ordinals : Select(s) \/ SlotStep(s)
        \/ Reraise \/ Conclude \/ Publish

Next == \/ \E q \in Requests : Open(q)
        \/ Work
        \/ \E s \in Ordinals : FailClosedRaises(s)
        \/ ConcludeRaises \/ Crash

(* Every thread of a live process goes on; the agent is bounded by its own *)
(* budgets and its benchmark timeout.                                      *)
Spec == Init /\ [][Next]_vars /\ WF_vars(Work)

----------------------------------------------------------------------------
(* pass@1: in a strict campaign no slot gets a second trajectory, whatever *)
(* crashes, and whatever could not be saved.                               *)
PassAtOne ==
  file # NoState /\ ~file.digest.rerun => \A s \in Ordinals : begun[s] <= 1

(* No trajectory is paid for and not counted: the attempts on disk are at  *)
(* least the trajectories begun.  A completed slot is judged by the last   *)
(* of them, and the retries on its record are earlier ones, each once.     *)
CountedOnce ==
  \A s \in DOMAIN file.slots :
    LET slot == file.slots[s]
    IN  /\ begun[s] <= slot.attempts
        /\ slot.status = "completed" => slot.evidence.attempt = slot.attempts
        /\ \A i, j \in DOMAIN slot.history : i < j => slot.history[i] < slot.history[j]
        /\ \A i \in DOMAIN slot.history :
             slot.status = "completed" => slot.history[i] < slot.evidence.attempt

(* What was published stays true: later invocations of the campaign begin  *)
(* no trajectory and change no slot.                                       *)
PublishedIsFinal ==
  [][published # <<>> => published' = published /\ begun' = begun
                         /\ file'.slots = published]_vars

(* An invocation that is not killed ends, and with it every retry.         *)
CampaignEnds == main # "idle" ~> main = "idle"
=============================================================================
