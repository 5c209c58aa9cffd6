---------------------------- MODULE ThreadStore ----------------------------
(***************************************************************************)
(* The durable files of one conversation Thread, as kept by                *)
(* runtime/adapters/thread_json.py and runtime/adapters/task_state_json.py *)
(*                                                                         *)
(*   journal    conversation.jsonl, the authoritative item sequence        *)
(*   meta       thread.json, the Turn / Run navigation                     *)
(*   intent     terminal_intents/<turn>.json                               *)
(*   ckpt       task_state/<run>.json, one checkpoint per Run              *)
(*   snapshots, revision   context_state.json                              *)
(*   turnOf     the Turn a Run belongs to, as its checkpoint and its       *)
(*              ThreadRun record both name it                              *)
(*                                                                         *)
(* Every public operation of the repository takes the per-Thread flock,    *)
(* loads thread.json and repairs it from the journal and from a terminal   *)
(* intent, and only then acts.  The repair is a function of the files, so  *)
(* it is the operator Repaired; the operations that use it are the actions *)
(* of RunOwnership.                                                        *)
(*                                                                         *)
(* Hash chaining, item payloads, timestamps and navigation fields are left *)
(* out.  A torn last journal line is truncated by the next scan and a line *)
(* without its newline is completed by it, so a crashed append either left *)
(* its item or left nothing.                                               *)
(***************************************************************************)
EXTENDS Naturals, Sequences, FiniteSets

CONSTANTS Turns,   \* Turn identities of the Thread
          Runs,    \* Run identities; a Run is one process executing Harness.run
          NoTurn,  \* a Run whose request has not been planned
          NoRun    \* the empty current_run_id / parent_run_id

ASSUME IdentityAssumption == NoRun \notin Runs /\ NoTurn \notin Turns

VARIABLES journal, meta, intent, ckpt, snapshots, revision, turnOf

storeVars == <<journal, meta, intent, ckpt, snapshots, revision, turnOf>>

(* "waiting" stands for waiting_approval, waiting_human and paused; the    *)
(* terminal status "cancelled" behaves as "blocked".                       *)
ActiveStatuses   == {"created", "running", "waiting"}
TerminalStatuses == {"completed", "blocked", "failed"}
Absent           == "absent"
Statuses         == ActiveStatuses \cup TerminalStatuses \cup {Absent}

Item(kind, t, r) == [kind |-> kind, turn |-> t, run |-> r]
Items == [kind : {"turn_start", "final"}, turn : Turns, run : Runs]

(* thread.json: the current Run of each Turn, the status summary of each   *)
(* claimed Run, and the journal length it has acknowledged.                *)
Metas == [cur : [Turns -> Runs \cup {NoRun}], run : [Runs -> Statuses], sequence : Nat]

NoIntent == [run |-> NoRun, status |-> Absent]
Intents  == [run : Runs, status : TerminalStatuses] \cup {NoIntent}

StoreTypeOK ==
  /\ journal \in Seq(Items)
  /\ meta \in Metas
  /\ intent \in [Turns -> Intents]
  /\ ckpt \in [Runs -> Statuses]
  /\ snapshots \subseteq Turns
  /\ revision \in Nat
  /\ turnOf \in [Runs -> Turns \cup {NoTurn}]

(* A freshly created Thread, which the CLI or the Operator Console made.   *)
StoreInit ==
  /\ journal = << >>
  /\ meta = [cur |-> [t \in Turns |-> NoRun], run |-> [r \in Runs |-> Absent],
             sequence |-> 0]
  /\ intent = [t \in Turns |-> NoIntent]
  /\ ckpt = [r \in Runs |-> Absent]
  /\ snapshots = {}
  /\ revision = 0
  /\ turnOf = [r \in Runs |-> NoTurn]

----------------------------------------------------------------------------
(* Turn status is the status of its current Run: with_run copies it.       *)
TurnStatus(m, t) == IF m.cur[t] = NoRun THEN Absent ELSE m.run[m.cur[t]]
IsActive(m, t)   == TurnStatus(m, t) \in ActiveStatuses
ActiveTurns(m)   == {t \in Turns : IsActive(m, t)}
ClaimedTurns(m)  == {t \in Turns : m.cur[t] # NoRun}
Claimed(m, r)    == m.run[r] # Absent
IsCurrent(m, r)  == m.cur[turnOf[r]] = r

(* thread.with_turn(turn.with_run(run)) *)
WithRun(m, r, status) == [m EXCEPT !.cur[turnOf[r]] = r, !.run[r] = status]
WithTail(m, items)    == [m EXCEPT !.sequence = Len(items)]

(* _reconcile_turn_starts_unlocked: a turn_start item whose Turn thread.json *)
(* does not know rebuilds that Turn with the Run recorded in the item.       *)
StartedBy(t, r) ==
  \E i \in DOMAIN journal :
    journal[i].turn = t /\ journal[i].kind = "turn_start" /\ journal[i].run = r
Started(t)      == \E r \in Runs : StartedBy(t, r)
FirstRun(t)     == CHOOSE r \in Runs : StartedBy(t, r)
Unclaimed       == {t \in Turns : meta.cur[t] = NoRun /\ Started(t)}

Reconciled ==
  LET new == Unclaimed IN
  IF new = {} THEN [meta EXCEPT !.sequence = Len(journal)]
  ELSE [cur |-> [t \in Turns |-> IF t \in new THEN FirstRun(t) ELSE meta.cur[t]],
        run |-> [r \in Runs |-> IF \E t \in new : FirstRun(t) = r
                                THEN "created" ELSE meta.run[r]],
        sequence |-> Len(journal)]

(* _reconcile_terminal_intent_unlocked: an intent of the current Run, with *)
(* the terminal checkpoint it announced, closes the Turn.                  *)
IntentApplies(m, t) ==
  /\ intent[t].run \in Runs
  /\ intent[t].run = m.cur[t]
  /\ ckpt[intent[t].run] \in TerminalStatuses
  /\ IsActive(m, t)

Settled(m) == {t \in Turns : IntentApplies(m, t)}

Repaired ==
  LET m == Reconciled
      settled == Settled(m)
  IN IF settled = {} THEN m
     ELSE [m EXCEPT !.run = [r \in Runs |->
             IF \E t \in settled : m.cur[t] = r THEN ckpt[r] ELSE m.run[r]]]

(* The states in which _load_and_repair_unlocked raises: metadata ahead of *)
(* the journal, an acknowledged Turn missing from the metadata, a second   *)
(* active Turn in the journal, an intent its checkpoint contradicts.       *)
LoadError ==
  \/ meta.sequence > Len(journal)
  \/ \E i \in DOMAIN journal :
       /\ journal[i].kind = "turn_start"
       /\ journal[i].turn \in Unclaimed
       /\ i <= meta.sequence
  \/ Cardinality(ActiveTurns(Reconciled)) > 1
  \/ \E t \in Turns : IntentApplies(Reconciled, t) /\ ckpt[intent[t].run] # intent[t].status

----------------------------------------------------------------------------
(* Preconditions of the repository operations; m is the repaired metadata.  *)

(* Fault: start_turn relies on the planning-time check for an active Turn. *)
CanStartUnchecked(m, r, expectedRevision) ==
  LET t == turnOf[r] IN
  /\ t \notin ClaimedTurns(m)
  /\ ckpt[r] = "created"
  /\ t \in snapshots \/ revision = expectedRevision

(* start_turn: no other Turn is active, the Turn is new, and, unless its   *)
(* snapshot is already stored, context_state.json is at the revision read  *)
(* when the Run was planned.                                               *)
CanStart(m, r, expectedRevision) ==
  LET t == turnOf[r] IN
  /\ ActiveTurns(m) = {}
  /\ t \notin ClaimedTurns(m)
  /\ ckpt[r] = "created"
  /\ t \in snapshots \/ revision = expectedRevision

(* Fault: claim_resume_run without the compare-and-swap. *)
CanClaimAnyParent(m, r, parentRun) ==
  /\ IsActive(m, turnOf[r])
  /\ ckpt[r] = "created"

(* claim_resume_run: compare-and-swap on the current Run of an active Turn. *)
CanClaimResume(m, r, parentRun) ==
  LET t == turnOf[r] IN
  /\ IsActive(m, t)
  /\ m.cur[t] = parentRun
  /\ ckpt[r] = "created"

(* Fault: record_run accepts a Run that is no longer current. *)
CanRecordLate(m, r, status) == Claimed(m, r)

(* record_run: only the current Run, never a different terminal status.    *)
CanRecord(m, r, status) ==
  /\ Claimed(m, r)
  /\ IsCurrent(m, r)
  /\ IsActive(m, turnOf[r]) \/ TurnStatus(m, turnOf[r]) = status

(* A new item is appended only by the current Run of an active Turn.       *)
CanAppend(m, r) == IsActive(m, turnOf[r]) /\ IsCurrent(m, r)

HasFinal(t) == \E i \in DOMAIN journal : journal[i].kind = "final" /\ journal[i].turn = t

(* prepare_turn_terminal *)
CanPrepare(m, r, status) ==
  LET t == turnOf[r] IN
  /\ IsCurrent(m, r)
  /\ \/ IsActive(m, t) /\ ~(intent[t].run = r /\ intent[t].status # status)
     \/ TurnStatus(m, t) = status

(* finish_turn *)
CanFinish(m, r, status) ==
  /\ IsCurrent(m, r)
  /\ IsActive(m, turnOf[r]) \/ TurnStatus(m, turnOf[r]) = status
============================================================================
