------------------------- MODULE RunOwnershipProofs -------------------------
(***************************************************************************)
(* Proofs about RunOwnership, for any number of Turns and Runs: the type   *)
(* invariant, and that every Run the repaired Thread names has its         *)
(* checkpoint file.                                                        *)
(*                                                                         *)
(* ClaimedRunHasCheckpoint is not inductive.  A Run becomes claimed by a   *)
(* write of thread.json, or because the next load finds its turn_start     *)
(* item, or because an intent settles it; and the only step that removes a *)
(* checkpoint, Cleanup, trusts a fresh load.  So the invariant says of     *)
(* each of the three records that it never outlives the checkpoint, and    *)
(* that a turn_start item the metadata does not know yet is the only one   *)
(* of its Turn, which makes the load that Cleanup trusts tell the truth.   *)
(***************************************************************************)
EXTENDS RunOwnership, TLAPS

(* A process past planning, and a checkpoint, belong to a Turn. *)
RunHasTurn ==
  \A r \in Runs : (Live(r) \/ ckpt[r] # Absent) => turnOf[r] \in Turns

Unbooted == {"idle", "restoring", "planned", "ended"}

BootedHasCheckpoint ==
  \A r \in Runs : pc[r] \notin Unbooted => ckpt[r] # Absent /\ memory[r] # Absent

GoalIsTerminal ==
  \A r \in Runs : pc[r] \in {"finalizing", "prepared", "settled"} => goal[r] \in TerminalStatuses

RecordedHasCheckpoint == \A r \in Runs : meta.run[r] # Absent => ckpt[r] # Absent

StarterHasCheckpoint ==
  \A i \in DOMAIN journal : journal[i].kind = "turn_start" => ckpt[journal[i].run] # Absent

(* A turn_start item is known to thread.json, or it is the only one of a   *)
(* Turn that thread.json does not have.                                    *)
StarterIsKnown ==
  \A t \in Turns, r \in Runs :
    StartedBy(t, r) =>
      \/ meta.run[r] # Absent
      \/ meta.cur[t] = NoRun /\ \A s \in Runs : StartedBy(t, s) => s = r

(* The Run a claimed resume continues was claimed before it, so that the    *)
(* checkpoint the exception branch may fall back on is there.              *)
ParentIsRecorded ==
  \A r \in Runs :
    (parent[r] # NoRun /\ pc[r] \notin Unbooted \cup {"booted", "cleanup"})
      => meta.run[parent[r]] # Absent

StoreInv == RecordedHasCheckpoint /\ StarterHasCheckpoint /\ StarterIsKnown

(* The types, split between the processes and the files. *)
ProcTypeOK ==
  /\ turnOf \in [Runs -> Turns \cup {NoTurn}]
  /\ pc \in [Runs -> Points]
  /\ parent \in [Runs -> Runs \cup {NoRun}]
  /\ planned \in [Runs -> Nat]
  /\ memory \in [Runs -> Statuses]
  /\ goal \in [Runs -> TerminalStatuses \cup {Absent}]

FilesTypeOK ==
  /\ journal \in Seq(Items)
  /\ meta \in Metas
  /\ intent \in [Turns -> Intents]
  /\ ckpt \in [Runs -> Statuses]
  /\ snapshots \subseteq Turns
  /\ revision \in Nat

ProcInv == ProcTypeOK /\ RunHasTurn /\ BootedHasCheckpoint /\ GoalIsTerminal

IInv == TypeOK /\ ProcInv /\ StoreInv /\ ParentIsRecorded

----------------------------------------------------------------------------
(* What reconciling turn_start items does to the metadata: it keeps its    *)
(* type, forgets no Run, names only Runs with a checkpoint, and leaves no  *)
(* item it does not know.                                                  *)
LEMMA ReconciledFacts ==
  ASSUME StoreTypeOK, StoreInv
  PROVE  /\ Reconciled \in Metas
         /\ \A r \in Runs : meta.run[r] # Absent => Reconciled.run[r] # Absent
         /\ \A r \in Runs : Reconciled.run[r] # Absent => ckpt[r] # Absent
         /\ \A t \in Turns, r \in Runs : StartedBy(t, r) => Reconciled.run[r] # Absent
         /\ \A t \in Turns : Reconciled.cur[t] = NoRun
                => meta.cur[t] = NoRun /\ \A r \in Runs : ~StartedBy(t, r)
<1>1. \A t \in Unclaimed : FirstRun(t) \in Runs /\ StartedBy(t, FirstRun(t))
  BY DEF Unclaimed, Started, FirstRun
<1>2. \A t \in Turns, r \in Runs : StartedBy(t, r) => ckpt[r] # Absent
  BY DEF StoreInv, StarterHasCheckpoint, StartedBy
<1>3. \A t \in Turns, r \in Runs :
        StartedBy(t, r) => meta.run[r] # Absent \/ (t \in Unclaimed /\ FirstRun(t) = r)
  BY <1>1 DEF StoreInv, StarterIsKnown, Unclaimed, Started
<1>4. Len(journal) \in Nat
  BY DEF StoreTypeOK
<1>5. CASE Unclaimed = {}
  <2>1. Reconciled = [meta EXCEPT !.sequence = Len(journal)]
    BY <1>5 DEF Reconciled
  <2>2. Reconciled \in Metas
    BY <1>4, <2>1 DEF StoreTypeOK, Metas
  <2>3. Reconciled.run = meta.run /\ Reconciled.cur = meta.cur
    BY <2>1 DEF StoreTypeOK, Metas
  <2>4. \A t \in Turns : meta.cur[t] = NoRun => \A r \in Runs : ~StartedBy(t, r)
    BY <1>5 DEF Unclaimed, Started
  <2> QED
    BY <1>2, <1>3, <1>5, <2>2, <2>3, <2>4 DEF StoreInv, RecordedHasCheckpoint
<1>6. CASE Unclaimed # {}
  <2>1. Reconciled =
          [cur |-> [t \in Turns |-> IF t \in Unclaimed THEN FirstRun(t) ELSE meta.cur[t]],
           run |-> [r \in Runs |-> IF \E t \in Unclaimed : FirstRun(t) = r
                                   THEN "created" ELSE meta.run[r]],
           sequence |-> Len(journal)]
    BY <1>6 DEF Reconciled
  <2>2. Reconciled \in Metas
    BY <1>1, <1>4, <2>1 DEF StoreTypeOK, Metas, Statuses, ActiveStatuses
  <2>3. \A r \in Runs : Reconciled.run[r] = IF \E t \in Unclaimed : FirstRun(t) = r
                                            THEN "created" ELSE meta.run[r]
    BY <2>1
  <2>4. \A t \in Turns : Reconciled.cur[t] = IF t \in Unclaimed THEN FirstRun(t) ELSE meta.cur[t]
    BY <2>1
  <2>5. \A r \in Runs : Reconciled.run[r] # Absent => ckpt[r] # Absent
    BY <1>1, <1>2, <2>3 DEF Unclaimed, StoreInv, RecordedHasCheckpoint
  <2>6. \A t \in Turns : Reconciled.cur[t] = NoRun
          => meta.cur[t] = NoRun /\ \A r \in Runs : ~StartedBy(t, r)
    BY <1>1, <2>4, IdentityAssumption DEF Unclaimed, Started
  <2> QED
    BY <1>3, <2>2, <2>3, <2>5, <2>6 DEF Absent
<1> QED
  BY <1>5, <1>6

(* The same of the whole repair: an intent only settles a Run whose        *)
(* terminal checkpoint is there.                                           *)
LEMMA RepairedFacts ==
  ASSUME StoreTypeOK, StoreInv
  PROVE  /\ Repaired \in Metas
         /\ \A r \in Runs : meta.run[r] # Absent => Repaired.run[r] # Absent
         /\ \A r \in Runs : Repaired.run[r] # Absent => ckpt[r] # Absent
         /\ \A t \in Turns, r \in Runs : StartedBy(t, r) => Repaired.run[r] # Absent
         /\ \A t \in Turns : Repaired.cur[t] = NoRun
                => meta.cur[t] = NoRun /\ \A r \in Runs : ~StartedBy(t, r)
<1> DEFINE settled == Settled(Reconciled)
<1>1. \A t \in settled : ckpt[Reconciled.cur[t]] \in TerminalStatuses
  BY DEF Settled, IntentApplies
<1>2. Absent \notin TerminalStatuses /\ TerminalStatuses \subseteq Statuses
  BY DEF Absent, TerminalStatuses, Statuses
<1>3. CASE settled = {}
  BY <1>3, ReconciledFacts DEF Repaired
<1>4. CASE settled # {}
  <2>1. Repaired = [Reconciled EXCEPT !.run = [r \in Runs |->
                      IF \E t \in settled : Reconciled.cur[t] = r
                      THEN ckpt[r] ELSE Reconciled.run[r]]]
    BY <1>4 DEF Repaired
  <2>2. Repaired \in Metas
    BY <2>1, ReconciledFacts DEF Metas, StoreTypeOK
  <2>3. Repaired.cur = Reconciled.cur
    BY <2>1, ReconciledFacts DEF Metas
  <2>4. \A r \in Runs : Repaired.run[r] = IF \E t \in settled : Reconciled.cur[t] = r
                                          THEN ckpt[r] ELSE Reconciled.run[r]
    BY <2>1, ReconciledFacts DEF Metas
  <2>5. \A r \in Runs : Repaired.run[r] # Absent <=> Reconciled.run[r] # Absent \/ \E t \in settled : Reconciled.cur[t] = r
    BY <1>1, <1>2, <2>4, ReconciledFacts
  <2>6. \A r \in Runs : Repaired.run[r] # Absent => ckpt[r] # Absent
    BY <2>4, ReconciledFacts
  <2> QED
    BY <2>2, <2>3, <2>5, <2>6, ReconciledFacts
<1> QED
  BY <1>3, <1>4

----------------------------------------------------------------------------
(* A step that writes neither the journal nor thread.json and removes no   *)
(* checkpoint keeps the store part of the invariant.                       *)
LEMMA StoreInvUntouched ==
  ASSUME StoreTypeOK, StoreInv, journal' = journal, meta' = meta,
         \A r \in Runs : ckpt[r] # Absent => ckpt'[r] # Absent
  PROVE  StoreInv'
<1>1. RecordedHasCheckpoint'
  BY DEF StoreInv, RecordedHasCheckpoint
<1>2. StarterHasCheckpoint'
  <2> SUFFICES ASSUME NEW i \in DOMAIN journal, journal[i].kind = "turn_start"
               PROVE  ckpt'[journal[i].run] # Absent
    BY DEF StarterHasCheckpoint
  <2>1. journal[i] \in Items
    BY DEF StoreTypeOK
  <2> QED
    BY <2>1 DEF Items, StoreInv, StarterHasCheckpoint
<1>3. StarterIsKnown'
  BY DEF StoreInv, StarterIsKnown, StartedBy
<1> QED
  BY <1>1, <1>2, <1>3 DEF StoreInv

(* A step that writes metadata which still names every starter, and only   *)
(* Runs with a checkpoint, keeps it too.                                   *)
LEMMA StoreInvWritten ==
  ASSUME StoreTypeOK, journal' = journal,
         \A r \in Runs : meta'.run[r] # Absent => ckpt'[r] # Absent,
         \A t \in Turns, r \in Runs : StartedBy(t, r) => meta'.run[r] # Absent
  PROVE  StoreInv'
<1>1. RecordedHasCheckpoint'
  BY DEF RecordedHasCheckpoint
<1>2. StarterHasCheckpoint'
  <2> SUFFICES ASSUME NEW i \in DOMAIN journal, journal[i].kind = "turn_start"
               PROVE  ckpt'[journal[i].run] # Absent
    BY DEF StarterHasCheckpoint
  <2>1. journal[i] \in Items
    BY DEF StoreTypeOK
  <2>2. StartedBy(journal[i].turn, journal[i].run)
    BY DEF StartedBy
  <2> QED
    BY <2>1, <2>2 DEF Items
<1>3. StarterIsKnown'
  BY DEF StarterIsKnown, StartedBy
<1> QED
  BY <1>1, <1>2, <1>3 DEF StoreInv

(* Writing the status of a Run with a checkpoint into repaired metadata.   *)
LEMMA WithRunFacts ==
  ASSUME StoreTypeOK, StoreInv, NEW r \in Runs, NEW status \in Statuses \ {Absent},
         ckpt[r] # Absent
  PROVE  LET m == WithRun(Repaired, r, status) IN
         /\ m \in Metas
         /\ \A s \in Runs : m.run[s] # Absent => ckpt[s] # Absent
         /\ \A t \in Turns, s \in Runs : StartedBy(t, s) => m.run[s] # Absent
<1> DEFINE m == WithRun(Repaired, r, status)
<1>1. Repaired \in Metas
  BY RepairedFacts
<1>2. m = [Repaired EXCEPT !.cur[turnOf[r]] = r, !.run[r] = status]
  BY DEF WithRun
<1>3. m \in Metas
  <2>1. m = [Repaired EXCEPT !.cur = [Repaired.cur EXCEPT ![turnOf[r]] = r],
                             !.run = [Repaired.run EXCEPT ![r] = status]]
    BY <1>1, <1>2 DEF Metas
  <2>2. [Repaired.cur EXCEPT ![turnOf[r]] = r] \in [Turns -> Runs \cup {NoRun}]
    BY <1>1 DEF Metas
  <2>3. [Repaired.run EXCEPT ![r] = status] \in [Runs -> Statuses]
    BY <1>1 DEF Metas
  <2> QED
    BY <1>1, <2>1, <2>2, <2>3 DEF Metas
<1>4. \A s \in Runs : m.run[s] = IF s = r THEN status ELSE Repaired.run[s]
  BY <1>1, <1>2 DEF Metas
<1> QED
  BY <1>3, <1>4, RepairedFacts

(* An appended item of a kind other than turn_start starts no Turn.        *)
LEMMA AppendedStarts ==
  ASSUME StoreTypeOK, NEW item \in Items, journal' = Append(journal, item)
  PROVE  /\ journal' \in Seq(Items)
         /\ Len(journal)' \in Nat
         /\ \A t \in Turns, r \in Runs :
              StartedBy(t, r)' <=> \/ StartedBy(t, r)
                                   \/ item = Item("turn_start", t, r)
<1>1. journal \in Seq(Items) /\ journal' \in Seq(Items)
  BY DEF StoreTypeOK
<1>2. Len(journal') = Len(journal) + 1 /\ Len(journal) \in Nat
  BY <1>1
<1>3. \A i \in 1..Len(journal) : journal'[i] = journal[i]
  BY <1>1
<1>4. journal'[Len(journal) + 1] = item
  BY <1>1
<1>5. DOMAIN journal' = DOMAIN journal \cup {Len(journal) + 1} /\ DOMAIN journal = 1..Len(journal)
  BY <1>1, <1>2
<1>6. ASSUME NEW t \in Turns, NEW r \in Runs
      PROVE  StartedBy(t, r)' <=> StartedBy(t, r) \/ item = Item("turn_start", t, r)
  <2>1. item = Item("turn_start", t, r)
          <=> item.turn = t /\ item.kind = "turn_start" /\ item.run = r
    BY DEF Items, Item
  <2> QED
    BY <1>3, <1>4, <1>5, <2>1 DEF StartedBy
<1> QED
  BY <1>1, <1>2, <1>6

----------------------------------------------------------------------------
LEMMA SplitTypeOK == TypeOK <=> ProcTypeOK /\ FilesTypeOK
BY DEF TypeOK, StoreTypeOK, ProcTypeOK, FilesTypeOK

(* A process that ends keeps the process part of the invariant: it loses   *)
(* its Turn only with its checkpoint.                                      *)
LEMMA EndKeepsProcInv ==
  ASSUME FilesTypeOK, ProcInv, NEW r \in Runs, End(r), ckpt' \in [Runs -> Statuses],
         \A s \in Runs : s # r => ckpt'[s] = ckpt[s],
         ckpt'[r] # Absent => ckpt[r] # Absent
  PROVE  ProcInv'
<1> USE DEF ProcInv, ProcTypeOK
<1>1. /\ pc' = [pc EXCEPT ![r] = "ended"]
      /\ memory' = [memory EXCEPT ![r] = Absent]
      /\ goal' = [goal EXCEPT ![r] = Absent]
      /\ planned' = [planned EXCEPT ![r] = 0]
  BY DEF End, Goto
<1>2. \/ ckpt'[r] = Absent /\ turnOf' = [turnOf EXCEPT ![r] = NoTurn]
                           /\ parent' = [parent EXCEPT ![r] = NoRun]
      \/ ckpt'[r] # Absent /\ turnOf' = turnOf /\ parent' = parent
  BY DEF End
<1>3. ProcTypeOK'
  BY <1>1, <1>2 DEF Points, Statuses
<1>4. RunHasTurn'
  BY <1>1, <1>2 DEF RunHasTurn, Live
<1>5. BootedHasCheckpoint'
  BY <1>1 DEF BootedHasCheckpoint, Unbooted
<1>6. GoalIsTerminal'
  BY <1>1 DEF GoalIsTerminal
<1> QED
  BY <1>3, <1>4, <1>5, <1>6

(* A live process moves to another point with its locals and Turn kept. *)
LEMMA GotoKeepsProcInv ==
  ASSUME ProcInv, NEW r \in Runs, NEW point \in Points, Goto(r, point), Live(r),
         ckpt' = ckpt, turnOf' = turnOf, KeepLocals,
         point \notin Unbooted => ckpt[r] # Absent /\ memory[r] # Absent,
         point \in {"finalizing", "prepared", "settled"} => goal[r] \in TerminalStatuses
  PROVE  ProcInv'
<1> USE DEF ProcInv, ProcTypeOK
<1>1. pc' = [pc EXCEPT ![r] = point] /\ UNCHANGED <<parent, planned, memory, goal>>
  BY DEF Goto, KeepLocals
<1>2. ProcTypeOK'
  BY <1>1
<1>3. RunHasTurn'
  BY <1>1 DEF RunHasTurn, Live
<1>4. BootedHasCheckpoint'
  BY <1>1 DEF BootedHasCheckpoint
<1>5. GoalIsTerminal'
  BY <1>1 DEF GoalIsTerminal
<1> QED
  BY <1>2, <1>3, <1>4, <1>5

(* Metadata that forgets no Run keeps the parents of claimed Runs known,   *)
(* as long as no Run becomes claimed.                                      *)
LEMMA ParentStaysRecorded ==
  ASSUME TypeOK, ParentIsRecorded,
         \A s \in Runs : meta.run[s] # Absent => meta'.run[s] # Absent,
         \A s \in Runs :
           (parent'[s] # NoRun /\ pc'[s] \notin Unbooted \cup {"booted", "cleanup"})
             => \/ pc[s] \notin Unbooted \cup {"booted", "cleanup"} /\ parent'[s] = parent[s]
                \/ meta'.run[parent'[s]] # Absent
  PROVE  ParentIsRecorded'
<1> SUFFICES ASSUME NEW s \in Runs, parent'[s] # NoRun,
                    pc'[s] \notin Unbooted \cup {"booted", "cleanup"}
             PROVE  meta'.run[parent'[s]] # Absent
  BY DEF ParentIsRecorded, Unbooted
<1>1. CASE meta'.run[parent'[s]] # Absent
  BY <1>1
<1>2. CASE pc[s] \notin Unbooted \cup {"booted", "cleanup"} /\ parent'[s] = parent[s]
  <2>1. meta.run[parent[s]] # Absent
    BY <1>2 DEF ParentIsRecorded
  <2>2. parent[s] \in Runs
    BY <1>2 DEF TypeOK
  <2> QED
    BY <1>2, <2>1, <2>2
<1> QED
  BY <1>1, <1>2

(* A process saves its checkpoint, and the point it moves to asks nothing  *)
(* of its goal that the goal does not give, nor of its parent.             *)
LEMMA SaveKeepsIInv ==
  ASSUME IInv, NEW r \in Runs, NEW status \in Statuses \ {Absent}, NEW point \in Points,
         SaveCheckpoint(r, status), pc' = [pc EXCEPT ![r] = point], Live(r),
         point \in {"finalizing", "prepared", "settled"} => goal[r] \in TerminalStatuses,
         point = "booted" \/ pc[r] \notin Unbooted \cup {"booted", "cleanup"}
  PROVE  IInv'
<1> USE DEF IInv, ProcInv, ProcTypeOK
<1>1. /\ ckpt' = [ckpt EXCEPT ![r] = status]
      /\ memory' = [memory EXCEPT ![r] = status]
      /\ UNCHANGED <<journal, meta, intent, snapshots, revision, turnOf, parent, planned, goal>>
  BY DEF SaveCheckpoint
<1>2. TypeOK'
  BY <1>1 DEF TypeOK, StoreTypeOK
<1>3. RunHasTurn'
  BY <1>1, SplitTypeOK DEF RunHasTurn, Live, FilesTypeOK
<1>4. BootedHasCheckpoint'
  BY <1>1, SplitTypeOK DEF BootedHasCheckpoint, FilesTypeOK, Unbooted
<1>5. GoalIsTerminal'
  BY <1>1 DEF GoalIsTerminal
<1>6. \A s \in Runs : ckpt[s] # Absent => ckpt'[s] # Absent
  BY <1>1, SplitTypeOK DEF FilesTypeOK
<1>7. StoreInv'
  BY <1>1, <1>6, StoreInvUntouched DEF TypeOK
<1>8. ProcTypeOK'
  BY <1>2 DEF TypeOK, StoreTypeOK
<1>9. ParentIsRecorded'
  BY <1>1, ParentStaysRecorded DEF Unbooted
<1> QED
  BY <1>2, <1>3, <1>4, <1>5, <1>7, <1>8, <1>9

(* A step that leaves journal and checkpoints alone, and writes thread.json *)
(* only through the repair or by recording a Run with a checkpoint.         *)
LEMMA MetaStepKeepsIInv ==
  ASSUME IInv, ProcInv', journal' = journal, ckpt' = ckpt,
         intent' \in [Turns -> Intents], snapshots' \subseteq Turns, revision' \in Nat,
         \/ meta' = meta
         \/ meta' = Repaired
         \/ \E r \in Runs, status \in Statuses \ {Absent} :
              ckpt[r] # Absent /\ meta' = WithRun(Repaired, r, status),
         \A s \in Runs :
           (parent'[s] # NoRun /\ pc'[s] \notin Unbooted \cup {"booted", "cleanup"})
             => \/ pc[s] \notin Unbooted \cup {"booted", "cleanup"} /\ parent'[s] = parent[s]
                \/ meta'.run[parent'[s]] # Absent
  PROVE  IInv'
<1>1. StoreTypeOK /\ StoreInv /\ TypeOK /\ ParentIsRecorded
  BY DEF IInv, TypeOK
<1>2. /\ meta' \in Metas /\ StoreInv'
      /\ \A s \in Runs : meta.run[s] # Absent => meta'.run[s] # Absent
  <2>1. CASE meta' = meta
    BY <1>1, <2>1, StoreInvUntouched DEF StoreTypeOK
  <2>2. CASE meta' = Repaired
    BY <1>1, <2>2, RepairedFacts, StoreInvWritten
  <2>3. ASSUME NEW r \in Runs, NEW status \in Statuses \ {Absent},
               ckpt[r] # Absent, meta' = WithRun(Repaired, r, status)
        PROVE  /\ meta' \in Metas /\ StoreInv'
               /\ \A s \in Runs : meta.run[s] # Absent => meta'.run[s] # Absent
    <3>1. meta' \in Metas /\ StoreInv'
      BY <1>1, <2>3, WithRunFacts, StoreInvWritten
    <3>2. \A s \in Runs : meta'.run[s] = IF s = r THEN status ELSE Repaired.run[s]
      BY <1>1, <2>3, RepairedFacts DEF WithRun, Metas
    <3> QED
      BY <1>1, <3>1, <3>2, RepairedFacts
  <2> QED
    BY <2>1, <2>2, <2>3
<1>3. ParentIsRecorded'
  BY <1>1, <1>2, ParentStaysRecorded
<1>4. TypeOK'
  BY <1>1, <1>2 DEF TypeOK, StoreTypeOK, ProcInv, ProcTypeOK
<1> QED
  BY <1>2, <1>3, <1>4 DEF IInv

----------------------------------------------------------------------------
(* Planning. *)
LEMMA PlanFreshStep ==
  ASSUME IInv, NEW r \in Runs, NEW t \in Turns, PlanFresh(r, t)
  PROVE  IInv'
<1> USE DEF IInv, ProcInv, ProcTypeOK
<1>1. /\ pc[r] = "idle" /\ pc' = [pc EXCEPT ![r] = "planned"]
      /\ turnOf' = [turnOf EXCEPT ![r] = t]
      /\ planned' = [planned EXCEPT ![r] = revision]
      /\ meta' = Repaired
      /\ UNCHANGED <<journal, intent, ckpt, snapshots, revision, parent, memory, goal>>
  BY DEF PlanFresh, Goto
<1>2. ProcTypeOK'
  BY <1>1 DEF Points, TypeOK, StoreTypeOK
<1>3. RunHasTurn' /\ BootedHasCheckpoint' /\ GoalIsTerminal'
  BY <1>1 DEF RunHasTurn, Live, BootedHasCheckpoint, GoalIsTerminal, Unbooted
<1> QED
  BY <1>1, <1>2, <1>3, MetaStepKeepsIInv DEF TypeOK, StoreTypeOK, Unbooted

LEMMA ReadCheckpointStep ==
  ASSUME IInv, NEW r \in Runs, NEW p \in Runs, ReadCheckpoint(r, p)
  PROVE  IInv'
<1> USE DEF IInv, ProcInv, ProcTypeOK
<1>1. /\ pc[r] = "idle" /\ pc' = [pc EXCEPT ![r] = "restoring"]
      /\ ckpt[p] # Absent
      /\ parent' = [parent EXCEPT ![r] = p]
      /\ turnOf' = [turnOf EXCEPT ![r] = turnOf[p]]
      /\ UNCHANGED <<journal, meta, intent, ckpt, snapshots, revision, planned, memory, goal>>
  BY DEF ReadCheckpoint, Goto, ActiveStatuses, Absent
<1>2. ProcTypeOK'
  BY <1>1 DEF Points
<1>3. RunHasTurn' /\ BootedHasCheckpoint' /\ GoalIsTerminal'
  BY <1>1 DEF RunHasTurn, Live, BootedHasCheckpoint, GoalIsTerminal, Unbooted
<1> QED
  BY <1>1, <1>2, <1>3, MetaStepKeepsIInv DEF TypeOK, StoreTypeOK, Unbooted

(* A process that ends, the metadata repaired, a Run recorded or neither.  *)
LEMMA EndStep ==
  ASSUME IInv, NEW r \in Runs, EndKeepingFiles(r),
         \/ meta' = meta
         \/ meta' = Repaired
         \/ \E s \in Runs, status \in Statuses \ {Absent} :
              ckpt[s] # Absent /\ meta' = WithRun(Repaired, s, status)
  PROVE  IInv'
<1>1. End(r) /\ UNCHANGED <<journal, intent, ckpt, snapshots, revision>>
  BY DEF EndKeepingFiles
<1>2. FilesTypeOK
  BY SplitTypeOK DEF IInv
<1>3. ProcInv'
  BY <1>1, <1>2, EndKeepsProcInv DEF IInv, FilesTypeOK
<1>4. \A s \in Runs : pc'[s] \notin Unbooted => pc[s] \notin Unbooted /\ pc'[s] = pc[s] /\ parent'[s] = parent[s]
  BY <1>1 DEF IInv, ProcInv, ProcTypeOK, End, Goto, Unbooted
<1> QED
  BY <1>1, <1>2, <1>3, <1>4, MetaStepKeepsIInv DEF FilesTypeOK

(* A live process goes on, the metadata repaired, a Run recorded or neither; *)
(* an unclaimed Run stays unclaimed.                                         *)
LEMMA GotoStep ==
  ASSUME IInv, NEW r \in Runs, NEW point \in Points, Goto(r, point), Live(r), KeepFiles, KeepLocals,
         \/ meta' = meta
         \/ meta' = Repaired
         \/ \E s \in Runs, status \in Statuses \ {Absent} :
              ckpt[s] # Absent /\ meta' = WithRun(Repaired, s, status),
         \/ point = "planned"
         \/ point = "cleanup" /\ pc[r] \notin Unbooted
         \/ pc[r] \notin Unbooted \cup {"booted", "cleanup"},
         point \in {"finalizing", "prepared", "settled"} => goal[r] \in TerminalStatuses
  PROVE  IInv'
<1>1. /\ pc' = [pc EXCEPT ![r] = point] /\ UNCHANGED <<parent, planned, memory, goal>>
      /\ UNCHANGED <<journal, intent, ckpt, snapshots, revision, turnOf>>
  BY DEF Goto, KeepLocals, KeepFiles
<1>2. FilesTypeOK /\ ProcInv
  BY SplitTypeOK DEF IInv
<1>3. pc[r] \notin Unbooted => ckpt[r] # Absent /\ memory[r] # Absent
  BY <1>2 DEF ProcInv, BootedHasCheckpoint
<1>4. ProcInv'
  BY <1>1, <1>2, <1>3, GotoKeepsProcInv DEF Unbooted
<1>5. \A s \in Runs :
        pc'[s] \notin Unbooted \cup {"booted", "cleanup"}
          => pc[s] \notin Unbooted \cup {"booted", "cleanup"} /\ parent'[s] = parent[s]
  BY <1>1, <1>2 DEF ProcInv, ProcTypeOK, Unbooted
<1> QED
  BY <1>1, <1>2, <1>4, <1>5, MetaStepKeepsIInv DEF FilesTypeOK

LEMMA PlanResumeStep ==
  ASSUME IInv, NEW r \in Runs, PlanResume(r)
  PROVE  IInv'
<1>1. Live(r)
  BY DEF PlanResume, Live
<1>2. CASE Goto(r, "planned") /\ KeepFiles /\ KeepLocals
  BY <1>1, <1>2, GotoStep DEF PlanResume, Points
<1>3. CASE EndKeepingFiles(r)
  BY <1>3, EndStep DEF PlanResume
<1> QED
  BY <1>2, <1>3 DEF PlanResume

----------------------------------------------------------------------------
(* The claim. *)
LEMMA BootstrapStep ==
  ASSUME IInv, NEW r \in Runs, Bootstrap(r)
  PROVE  IInv'
<1>1. pc[r] = "planned" /\ pc' = [pc EXCEPT ![r] = "booted"] /\ SaveCheckpoint(r, "created")
  BY DEF Bootstrap, Goto
<1> QED
  BY <1>1, SaveKeepsIInv DEF Points, Live, Statuses, ActiveStatuses, Absent

(* An interrupted claim leaves the process in its handler, or ended. *)
LEMMA InterruptedKeepsProcInv ==
  ASSUME IInv, NEW r \in Runs, NEW handler \in {"cleanup", "failing"},
         Interrupted(r, handler), ckpt' = ckpt, pc[r] \notin Unbooted
  PROVE  /\ ProcInv'
         /\ \A s \in Runs :
              pc'[s] \notin Unbooted \cup {"booted", "cleanup"}
                => \/ pc[s] \notin Unbooted \cup {"booted", "cleanup"} /\ parent'[s] = parent[s]
                   \/ s = r /\ handler = "failing"
         /\ \A s \in Runs : s # r => parent'[s] = parent[s] /\ pc'[s] = pc[s]
         /\ parent'[r] \in {parent[r], NoRun}
         /\ pc'[r] \in {handler, "ended"}
         /\ parent'[r] = NoRun => parent[r] = NoRun \/ pc'[r] = "ended"
<1>1. FilesTypeOK /\ ProcInv
  BY SplitTypeOK DEF IInv
<1>2. CASE Goto(r, handler) /\ KeepLocals /\ UNCHANGED turnOf
  <2>1. Live(r) /\ ckpt[r] # Absent /\ memory[r] # Absent
    BY <1>1 DEF Live, Unbooted, ProcInv, BootedHasCheckpoint
  <2>2. ProcInv'
    BY <1>1, <1>2, <2>1, GotoKeepsProcInv DEF Points
  <2> QED
    BY <1>1, <1>2, <2>2 DEF Goto, KeepLocals, ProcInv, ProcTypeOK
<1>3. CASE End(r)
  <2>1. ProcInv'
    BY <1>1, <1>3, EndKeepsProcInv DEF FilesTypeOK
  <2> QED
    BY <1>1, <1>3, <2>1 DEF End, Goto, Unbooted, ProcInv, ProcTypeOK
<1> QED
  BY <1>2, <1>3 DEF Interrupted

LEMMA StartTurnStep ==
  ASSUME IInv, NEW r \in Runs, NEW writes \in 0..3, StartTurn(r, writes)
  PROVE  IInv'
<1> DEFINE t == turnOf[r]
<1> DEFINE item == Item("turn_start", t, r)
<1>1. FilesTypeOK /\ ProcInv /\ StoreTypeOK /\ StoreInv /\ TypeOK /\ ParentIsRecorded
  BY SplitTypeOK DEF IInv, TypeOK
<1>2. /\ pc[r] = "booted" /\ parent[r] = NoRun
      /\ t \notin ClaimedTurns(Repaired) /\ ckpt[r] = "created"
      /\ intent' = intent /\ ckpt' = ckpt
  BY DEF StartTurn, CanStart
<1>3. t \in Turns /\ ckpt[r] # Absent
  BY <1>1, <1>2 DEF ProcInv, RunHasTurn, Live, Absent
<1>4. Repaired.cur[t] = NoRun /\ \A s \in Runs : ~StartedBy(t, s)
  BY <1>1, <1>2, <1>3, RepairedFacts DEF ClaimedTurns
<1>5. snapshots' \subseteq Turns /\ revision' \in Nat
  BY <1>1, <1>3 DEF StartTurn, FilesTypeOK
<1>6. \/ writes < 2 /\ journal' = journal /\ meta' = Repaired
      \/ writes = 2 /\ journal' = Append(journal, item) /\ meta' = Repaired
      \/ /\ writes = 3 /\ journal' = Append(journal, item)
         /\ meta' = WithTail(WithRun(Repaired, r, "created"), journal')
  BY DEF StartTurn
<1>7. item \in Items
  BY <1>3 DEF Item, Items
<1>8. \A u \in Turns, s \in Runs : item = Item("turn_start", u, s) <=> u = t /\ s = r
  BY DEF Item
<1>9. /\ WithRun(Repaired, r, "created") \in Metas
      /\ \A s \in Runs : WithRun(Repaired, r, "created").run[s] =
                           IF s = r THEN "created" ELSE Repaired.run[s]
  BY <1>1, <1>3, WithRunFacts, RepairedFacts
     DEF WithRun, Metas, Statuses, ActiveStatuses, Absent
<1>10. /\ journal' \in Seq(Items) /\ Len(journal') \in Nat
       /\ \A u \in Turns, s \in Runs :
            StartedBy(u, s)' => StartedBy(u, s) \/ (writes >= 2 /\ u = t /\ s = r)
  <2>1. CASE journal' = journal
    BY <1>1, <2>1 DEF FilesTypeOK, StartedBy
  <2>2. CASE writes >= 2 /\ journal' = Append(journal, item)
    BY <1>1, <1>7, <1>8, <2>2, AppendedStarts
  <2> QED
    BY <1>6, <2>1, <2>2
<1>11. /\ meta' \in Metas
       /\ \A s \in Runs : meta'.run[s] = IF s = r /\ writes = 3 THEN "created" ELSE Repaired.run[s]
  <2>1. CASE writes < 3
    BY <1>1, <1>6, <2>1, RepairedFacts
  <2>2. CASE writes = 3
    <3> DEFINE m == WithRun(Repaired, r, "created")
    <3>1. meta' = [m EXCEPT !.sequence = Len(journal')]
      BY <1>6, <2>2 DEF WithTail
    <3> QED
      BY <1>9, <1>10, <2>2, <3>1 DEF Metas
  <2> QED
    BY <2>1, <2>2
<1>12. StoreInv'
  <2>1. RecordedHasCheckpoint'
    BY <1>1, <1>2, <1>3, <1>11, RepairedFacts DEF RecordedHasCheckpoint
  <2>2. StarterHasCheckpoint'
    <3> SUFFICES ASSUME NEW i \in DOMAIN journal', journal'[i].kind = "turn_start"
                 PROVE  ckpt'[journal'[i].run] # Absent
      BY DEF StarterHasCheckpoint
    <3>1. journal'[i] \in Items
      BY <1>10
    <3>2. PICK u \in Turns, s \in Runs : u = journal'[i].turn /\ s = journal'[i].run
      BY <3>1 DEF Items
    <3>3. StartedBy(u, s)'
      BY <3>2 DEF StartedBy
    <3> QED
      BY <1>1, <1>2, <1>3, <1>10, <3>2, <3>3, RepairedFacts
  <2>3. StarterIsKnown'
    <3> SUFFICES ASSUME NEW u \in Turns, NEW s \in Runs, StartedBy(u, s)'
                 PROVE  \/ meta'.run[s] # Absent
                        \/ meta'.cur[u] = NoRun /\ \A v \in Runs : StartedBy(u, v)' => v = s
      BY DEF StarterIsKnown
    <3>1. CASE StartedBy(u, s)
      BY <1>1, <1>11, <3>1, RepairedFacts DEF Absent
    <3>2. CASE writes = 2 /\ u = t /\ s = r
      BY <1>4, <1>6, <1>10, <3>2
    <3>3. CASE writes = 3 /\ u = t /\ s = r
      BY <1>11, <3>3 DEF Absent
    <3> QED
      BY <1>10, <3>1, <3>2, <3>3
  <2> QED
    BY <2>1, <2>2, <2>3 DEF StoreInv
<1>13. ProcInv' /\ \A s \in Runs :
         (parent'[s] # NoRun /\ pc'[s] \notin Unbooted \cup {"booted", "cleanup"})
           => pc[s] \notin Unbooted \cup {"booted", "cleanup"} /\ parent'[s] = parent[s]
  <2>1. CASE writes < 3
    <3>1. Interrupted(r, "cleanup")
      BY <2>1 DEF StartTurn
    <3> QED
      BY <1>1, <1>2, <3>1, InterruptedKeepsProcInv DEF Unbooted
  <2>2. CASE ~(writes < 3)
    <3>1. /\ pc' = [pc EXCEPT ![r] = "created"]
          /\ planned' = [planned EXCEPT ![r] = 0]
          /\ UNCHANGED <<turnOf, parent, memory, goal>>
      BY <2>2 DEF StartTurn, Goto
    <3>2. ProcTypeOK'
      BY <1>1, <3>1 DEF ProcInv, ProcTypeOK, Points
    <3>3. RunHasTurn' /\ BootedHasCheckpoint' /\ GoalIsTerminal'
      BY <1>1, <1>2, <3>1
         DEF ProcInv, ProcTypeOK, RunHasTurn, Live, BootedHasCheckpoint, GoalIsTerminal, Unbooted
    <3> QED
      BY <1>1, <1>2, <3>1, <3>2, <3>3 DEF ProcInv, ProcTypeOK
  <2> QED
    BY <2>1, <2>2
<1>14. ParentIsRecorded'
  <2> SUFFICES ASSUME NEW s \in Runs, parent'[s] # NoRun,
                      pc'[s] \notin Unbooted \cup {"booted", "cleanup"}
               PROVE  meta'.run[parent'[s]] # Absent
    BY DEF ParentIsRecorded, Unbooted
  <2>1. parent'[s] = parent[s] /\ meta.run[parent[s]] # Absent
    BY <1>1, <1>13 DEF ParentIsRecorded
  <2>2. parent[s] \in Runs
    BY <1>1, <2>1 DEF TypeOK
  <2> QED
    BY <1>1, <1>11, <2>1, <2>2, RepairedFacts DEF Absent
<1>15. TypeOK'
  BY <1>1, <1>2, <1>5, <1>10, <1>11, <1>13 DEF TypeOK, StoreTypeOK, FilesTypeOK, ProcInv, ProcTypeOK
<1> QED
  BY <1>12, <1>13, <1>14, <1>15 DEF IInv

LEMMA ClaimResumeStep ==
  ASSUME IInv, NEW r \in Runs, ClaimResume(r)
  PROVE  IInv'
<1>1. /\ pc[r] = "booted" /\ parent[r] # NoRun
      /\ CanClaimResume(Repaired, r, parent[r])
      /\ UNCHANGED <<journal, intent, ckpt, snapshots, revision>>
  BY DEF ClaimResume
<1>2. FilesTypeOK /\ ProcInv /\ StoreTypeOK /\ StoreInv /\ TypeOK
  BY SplitTypeOK DEF IInv, TypeOK
<1>3. CASE meta' = Repaired /\ Interrupted(r, "cleanup")
  BY <1>1, <1>2, <1>3, InterruptedKeepsProcInv, MetaStepKeepsIInv DEF FilesTypeOK, Unbooted
<1>4. CASE /\ meta' = WithRun(Repaired, r, "created")
           /\ Goto(r, "created") /\ KeepLocals /\ UNCHANGED turnOf
  <2>1. ckpt[r] # Absent /\ memory[r] # Absent /\ Live(r)
    BY <1>1, <1>2 DEF ProcInv, BootedHasCheckpoint, Unbooted, Live
  <2>2. ProcInv'
    BY <1>1, <1>2, <1>4, <2>1, GotoKeepsProcInv DEF Points
  <2>3. Repaired.run[parent[r]] # Absent /\ parent[r] \in Runs
    BY <1>1, <1>2 DEF CanClaimResume, IsActive, TurnStatus, ActiveStatuses, Absent, TypeOK
  <2>4. meta'.run[parent[r]] # Absent
    BY <1>2, <1>4, <2>3, RepairedFacts DEF WithRun, Metas, Absent
  <2>5. parent' = parent /\ \A s \in Runs : s # r => pc'[s] = pc[s]
    BY <1>2, <1>4 DEF KeepLocals, Goto, ProcInv, ProcTypeOK
  <2>6. "created" \in Statuses \ {Absent}
    BY DEF Statuses, ActiveStatuses, Absent
  <2> QED
    BY <1>1, <1>2, <1>4, <2>1, <2>2, <2>4, <2>5, <2>6, MetaStepKeepsIInv DEF FilesTypeOK
<1> QED
  BY <1>3, <1>4 DEF ClaimResume

LEMMA RefusedClaimStep ==
  ASSUME IInv, NEW r \in Runs, StartTurnRefused(r) \/ ClaimResumeRefused(r)
  PROVE  IInv'
<1>1. pc[r] = "booted" /\ Refused(r, "cleanup")
  BY DEF StartTurnRefused, ClaimResumeRefused
<1> QED
  BY <1>1, GotoStep DEF Refused, Points, Live, Unbooted

(* Cleanup removes a checkpoint only when neither thread.json nor the      *)
(* journal names the Run.                                                  *)
LEMMA CleanupStep ==
  ASSUME IInv, NEW r \in Runs, Cleanup(r)
  PROVE  IInv'
<1>1. FilesTypeOK /\ ProcInv /\ StoreTypeOK /\ StoreInv /\ TypeOK /\ ParentIsRecorded
  BY SplitTypeOK DEF IInv, TypeOK
<1>2. /\ pc[r] = "cleanup" /\ meta' = Repaired /\ End(r)
      /\ UNCHANGED <<journal, intent, snapshots, revision>>
      /\ ckpt' = IF Repaired.run[r] # Absent THEN ckpt ELSE [ckpt EXCEPT ![r] = Absent]
  BY DEF Cleanup, Claimed
<1>3. /\ ckpt' \in [Runs -> Statuses]
      /\ \A s \in Runs : s # r => ckpt'[s] = ckpt[s]
      /\ ckpt'[r] # Absent => ckpt[r] # Absent
      /\ Repaired.run[r] # Absent => ckpt'[r] = ckpt[r]
  BY <1>1, <1>2 DEF FilesTypeOK, Statuses
<1>4. ProcInv'
  BY <1>1, <1>2, <1>3, EndKeepsProcInv
<1>5. StoreInv'
  BY <1>1, <1>2, <1>3, RepairedFacts, StoreInvWritten
<1>6. \A s \in Runs : pc'[s] \notin Unbooted => pc'[s] = pc[s] /\ parent'[s] = parent[s]
  BY <1>1, <1>2 DEF End, Goto, Unbooted, ProcInv, ProcTypeOK
<1>7. ParentIsRecorded'
  BY <1>1, <1>2, <1>6, RepairedFacts, ParentStaysRecorded DEF Unbooted
<1>8. TypeOK'
  BY <1>1, <1>2, <1>3, <1>4, RepairedFacts
     DEF TypeOK, StoreTypeOK, FilesTypeOK, ProcInv, ProcTypeOK
<1> QED
  BY <1>4, <1>5, <1>7, <1>8 DEF IInv

----------------------------------------------------------------------------
(* The claimed Run. *)
LEMMA SaveStep ==
  ASSUME IInv, NEW r \in Runs,
         \/ BeginRunning(r) \/ DenyTool(r) \/ AdvanceCursor(r) \/ Suspend(r)
         \/ WriteTerminal(r) \/ FailCreated(r)
  PROVE  IInv'
<1> USE DEF Points, Live, Unbooted, Statuses, ActiveStatuses, TerminalStatuses, Absent
<1>1. ProcInv
  BY DEF IInv
<1>2. CASE BeginRunning(r)
  BY <1>2, SaveKeepsIInv DEF BeginRunning, Goto
<1>3. CASE DenyTool(r)
  BY <1>3, SaveKeepsIInv DEF DenyTool, Goto
<1>4. CASE AdvanceCursor(r)
  BY <1>4, SaveKeepsIInv DEF AdvanceCursor, Goto
<1>5. CASE Suspend(r)
  BY <1>5, SaveKeepsIInv DEF Suspend, Goto
<1>6. CASE WriteTerminal(r)
  <2>1. goal[r] \in TerminalStatuses
    BY <1>1, <1>6 DEF WriteTerminal, ProcInv, GoalIsTerminal
  <2> QED
    BY <1>6, <2>1, SaveKeepsIInv DEF WriteTerminal, Goto
<1>7. CASE FailCreated(r)
  <2>1. pc' = [pc EXCEPT ![r] = "failing"] /\ pc[r] = "failing"
    BY <1>1, <1>7 DEF FailCreated, ProcInv, ProcTypeOK
  <2> QED
    BY <1>7, <2>1, SaveKeepsIInv DEF FailCreated
<1> QED
  BY <1>2, <1>3, <1>4, <1>5, <1>6, <1>7

(* record_run and finish_turn by a process that goes on. *)
LEMMA RecordStep ==
  ASSUME IInv, NEW r \in Runs, Announce(r) \/ FinishTurn(r)
  PROVE  IInv'
<1> USE DEF Points, Live, Unbooted
<1>1. ProcInv
  BY DEF IInv
<1>2. pc[r] \in {"announce", "settled"} => ckpt[r] # Absent
  BY <1>1 DEF ProcInv, BootedHasCheckpoint
<1>3. CASE Announce(r)
  <2>1. "running" \in Statuses \ {Absent}
    BY DEF Statuses, ActiveStatuses, Absent
  <2>2. /\ pc[r] = "announce" /\ KeepFiles /\ KeepLocals
        /\ meta' = Repaired \/ meta' = WithRun(Repaired, r, "running")
        /\ \E point \in {"running", "failing"} : Goto(r, point)
    BY <1>3 DEF Announce, RecordRun
  <2> QED
    BY <1>2, <2>1, <2>2, GotoStep
<1>4. CASE FinishTurn(r)
  <2>1. goal[r] \in TerminalStatuses /\ goal[r] \in Statuses \ {Absent}
    BY <1>1, <1>4 DEF FinishTurn, ProcInv, GoalIsTerminal, Statuses, TerminalStatuses, Absent
  <2>2. /\ pc[r] = "settled" /\ KeepFiles /\ KeepLocals
        /\ meta' = Repaired \/ meta' = WithRun(Repaired, r, goal[r])
        /\ \E point \in {"reporting", "failing"} : Goto(r, point)
    BY <1>4 DEF FinishTurn
  <2> QED
    BY <1>2, <2>1, <2>2, GotoStep
<1> QED
  BY <1>3, <1>4

(* The appended answer starts no Turn, so metadata that knows every starter *)
(* still does.                                                              *)
LEMMA FinalizeStep ==
  ASSUME IInv, NEW r \in Runs, NEW status \in TerminalStatuses, Finalize(r, status)
  PROVE  IInv'
<1> DEFINE t == turnOf[r]
<1> DEFINE item == Item("final", t, r)
<1> USE DEF Unbooted
<1>1. FilesTypeOK /\ ProcInv /\ StoreTypeOK /\ StoreInv /\ TypeOK /\ ParentIsRecorded
  BY SplitTypeOK DEF IInv, TypeOK
<1>2. pc[r] = "running" /\ Live(r) /\ t \in Turns /\ ckpt[r] # Absent /\ memory[r] # Absent
  BY <1>1 DEF Finalize, Live, ProcInv, RunHasTurn, BootedHasCheckpoint
<1>3. ASSUME Goto(r, "finalizing"), goal' = [goal EXCEPT ![r] = status],
             UNCHANGED <<turnOf, parent, planned, memory, ckpt>>
      PROVE  /\ ProcInv'
             /\ \A s \in Runs : pc'[s] \notin Unbooted \cup {"booted", "cleanup"}
                  => pc[s] \notin Unbooted \cup {"booted", "cleanup"} /\ parent'[s] = parent[s]
  <2>1. pc' = [pc EXCEPT ![r] = "finalizing"]
    BY <1>3 DEF Goto
  <2>2. ProcTypeOK'
    BY <1>1, <1>3, <2>1 DEF ProcInv, ProcTypeOK, Points
  <2>3. RunHasTurn' /\ BootedHasCheckpoint' /\ GoalIsTerminal'
    BY <1>1, <1>2, <1>3, <2>1
       DEF ProcInv, ProcTypeOK, RunHasTurn, Live, BootedHasCheckpoint, GoalIsTerminal
  <2> QED
    BY <1>1, <1>2, <1>3, <2>1, <2>2, <2>3 DEF ProcInv, ProcTypeOK
<1>4. CASE /\ meta' = Repaired /\ goal' = [goal EXCEPT ![r] = status]
           /\ Goto(r, "finalizing") /\ KeepFiles /\ UNCHANGED <<parent, planned, memory>>
  <2>1. UNCHANGED <<journal, intent, ckpt, snapshots, revision, turnOf>>
    BY <1>4 DEF KeepFiles
  <2> QED
    BY <1>1, <1>3, <1>4, <2>1, MetaStepKeepsIInv DEF FilesTypeOK
<1>5. CASE Refused(r, "failing")
  BY <1>2, <1>5, GotoStep DEF Refused, Points
<1>6. CASE /\ journal' = Append(journal, item)
           /\ UNCHANGED <<intent, ckpt, snapshots, revision>>
           /\ \/ /\ meta' = WithTail(Repaired, journal')
                 /\ goal' = [goal EXCEPT ![r] = status]
                 /\ Goto(r, "finalizing")
                 /\ UNCHANGED <<turnOf, parent, planned, memory>>
              \/ meta' = Repaired /\ Interrupted(r, "failing")
  <2>1. item \in Items /\ \A u \in Turns, s \in Runs : item # Item("turn_start", u, s)
    BY <1>2 DEF Item, Items
  <2>2. /\ journal' \in Seq(Items) /\ Len(journal') \in Nat
        /\ \A u \in Turns, s \in Runs : StartedBy(u, s)' <=> StartedBy(u, s)
    BY <1>1, <1>6, <2>1, AppendedStarts
  <2>3. meta' \in Metas /\ \A s \in Runs : meta'.run[s] = Repaired.run[s]
    BY <1>1, <1>6, <2>2, RepairedFacts DEF WithTail, Metas
  <2>4. StoreInv'
    <3>1. RecordedHasCheckpoint'
      BY <1>1, <1>6, <2>3, RepairedFacts DEF RecordedHasCheckpoint
    <3>2. StarterHasCheckpoint'
      <4> SUFFICES ASSUME NEW i \in DOMAIN journal', journal'[i].kind = "turn_start"
                   PROVE  ckpt'[journal'[i].run] # Absent
        BY DEF StarterHasCheckpoint
      <4>1. journal'[i] \in Items
        BY <2>2
      <4>2. PICK u \in Turns, s \in Runs : u = journal'[i].turn /\ s = journal'[i].run
        BY <4>1 DEF Items
      <4>3. StartedBy(u, s)'
        BY <4>2 DEF StartedBy
      <4> QED
        BY <1>1, <1>6, <2>2, <4>2, <4>3, RepairedFacts
    <3>3. StarterIsKnown'
      BY <1>1, <2>2, <2>3, RepairedFacts DEF StarterIsKnown
    <3> QED
      BY <3>1, <3>2, <3>3 DEF StoreInv
  <2>5. /\ ProcInv'
        /\ \A s \in Runs :
             (parent'[s] # NoRun /\ pc'[s] \notin Unbooted \cup {"booted", "cleanup"})
               => pc[s] \notin Unbooted \cup {"booted", "cleanup"} /\ parent'[s] = parent[s]
    <3>1. CASE Interrupted(r, "failing")
      BY <1>2, <1>6, <3>1, InterruptedKeepsProcInv
    <3> QED
      BY <1>3, <1>6, <3>1
  <2>6. ParentIsRecorded'
    BY <1>1, <2>3, <2>5, RepairedFacts, ParentStaysRecorded
  <2>7. TypeOK'
    BY <1>1, <1>6, <2>2, <2>3, <2>5
       DEF TypeOK, StoreTypeOK, FilesTypeOK, ProcInv, ProcTypeOK
  <2> QED
    BY <2>4, <2>5, <2>6, <2>7 DEF IInv
<1> QED
  BY <1>4, <1>5, <1>6 DEF Finalize

LEMMA PrepareTerminalStep ==
  ASSUME IInv, NEW r \in Runs, PrepareTerminal(r)
  PROVE  IInv'
<1>1. FilesTypeOK /\ ProcInv
  BY SplitTypeOK DEF IInv
<1>2. /\ pc[r] = "finalizing" /\ meta' = Repaired
      /\ UNCHANGED <<journal, ckpt, snapshots, revision, turnOf>> /\ KeepLocals
      /\ \E point \in {"prepared", "failing"} : Goto(r, point)
  BY DEF PrepareTerminal
<1>3. /\ goal[r] \in TerminalStatuses /\ Live(r)
      /\ ckpt[r] # Absent /\ memory[r] # Absent
  BY <1>1, <1>2 DEF ProcInv, GoalIsTerminal, BootedHasCheckpoint, Live, Unbooted
<1>4. intent' \in [Turns -> Intents]
  BY <1>1, <1>3 DEF PrepareTerminal, FilesTypeOK, Intents
<1>5. ProcInv'
  BY <1>1, <1>2, <1>3, GotoKeepsProcInv DEF Points
<1>6. \A s \in Runs : pc'[s] \notin Unbooted \cup {"booted", "cleanup"}
        => pc[s] \notin Unbooted \cup {"booted", "cleanup"} /\ parent'[s] = parent[s]
  BY <1>1, <1>2 DEF Goto, KeepLocals, ProcInv, ProcTypeOK, Unbooted
<1> QED
  BY <1>1, <1>2, <1>4, <1>5, <1>6, MetaStepKeepsIInv DEF FilesTypeOK

(* The finally branch and the exception branch record what the process    *)
(* holds in memory and end.                                               *)
LEMMA LastRecordStep ==
  ASSUME IInv, NEW r \in Runs, Report(r) \/ RecordFailure(r)
  PROVE  IInv'
<1>1. ProcInv
  BY DEF IInv
<1>2. pc[r] \in {"reporting", "failing"} /\ EndKeepingFiles(r)
  BY DEF Report, RecordFailure
<1>3. ckpt[r] # Absent /\ memory[r] \in Statuses \ {Absent}
  BY <1>1, <1>2 DEF ProcInv, ProcTypeOK, BootedHasCheckpoint, Unbooted
<1>4. meta' = Repaired \/ meta' = WithRun(Repaired, r, memory[r])
  BY DEF Report, RecordFailure
<1> QED
  BY <1>2, <1>3, <1>4, EndStep

LEMMA RaiseStep ==
  ASSUME IInv, NEW r \in Runs, Raise(r)
  PROVE  IInv'
BY GotoStep DEF Raise, Points, Live, Unbooted

(* A failed write moves only the object; what a resume falls back on is the *)
(* checkpoint of its parent, which exists.                                  *)
LEMMA CheckpointWriteFailsStep ==
  ASSUME IInv, NEW r \in Runs, CheckpointWriteFails(r)
  PROVE  IInv'
<1>1. FilesTypeOK /\ ProcInv /\ StoreInv /\ TypeOK /\ ParentIsRecorded
  BY SplitTypeOK DEF IInv
<1>2. /\ pc[r] \in {"created", "running", "prepared"}
      /\ pc' = [pc EXCEPT ![r] = "failing"]
      /\ UNCHANGED <<journal, meta, intent, ckpt, snapshots, revision, turnOf>>
      /\ UNCHANGED <<parent, planned, goal>>
  BY DEF CheckpointWriteFails, Goto, KeepFiles
<1>3. \E status \in Statuses \ {Absent} : memory' = [memory EXCEPT ![r] = status]
  <2>1. CASE pc[r] = "created" /\ memory' = [memory EXCEPT ![r] = RestoredStatus(r)]
    <3>1. parent[r] # NoRun => parent[r] \in Runs /\ ckpt[parent[r]] \in Statuses \ {Absent}
      BY <1>1, <2>1 DEF ParentIsRecorded, StoreInv, RecordedHasCheckpoint, Unbooted,
                        ProcInv, ProcTypeOK, FilesTypeOK
    <3>2. RestoredStatus(r) \in Statuses \ {Absent}
      BY <3>1 DEF RestoredStatus, Statuses, ActiveStatuses, TerminalStatuses, Absent
    <3> QED
      BY <2>1, <3>2
  <2>2. CASE pc[r] = "running" /\ \E s \in {"blocked", "waiting"} :
               memory' = [memory EXCEPT ![r] = s]
    BY <2>2 DEF Statuses, ActiveStatuses, TerminalStatuses, Absent
  <2>3. CASE pc[r] = "prepared" /\ memory' = [memory EXCEPT ![r] = goal[r]]
    <3>1. goal[r] \in TerminalStatuses
      BY <1>1, <2>3 DEF ProcInv, GoalIsTerminal
    <3> QED
      BY <2>3, <3>1 DEF Statuses, TerminalStatuses, Absent
  <2> QED
    BY <2>1, <2>2, <2>3 DEF CheckpointWriteFails
<1>4. ProcTypeOK'
  BY <1>1, <1>2, <1>3 DEF ProcInv, ProcTypeOK, Points
<1>5. RunHasTurn' /\ BootedHasCheckpoint' /\ GoalIsTerminal'
  BY <1>1, <1>2, <1>3
     DEF ProcInv, ProcTypeOK, RunHasTurn, Live, BootedHasCheckpoint, GoalIsTerminal, Unbooted
<1>6. \A s \in Runs : pc'[s] \notin Unbooted \cup {"booted", "cleanup"}
        => pc[s] \notin Unbooted \cup {"booted", "cleanup"} /\ parent'[s] = parent[s]
  BY <1>1, <1>2 DEF ProcInv, ProcTypeOK, Unbooted
<1> QED
  BY <1>1, <1>2, <1>4, <1>5, <1>6, MetaStepKeepsIInv DEF FilesTypeOK, ProcInv

LEMMA CrashStep ==
  ASSUME IInv, NEW r \in Runs, Crash(r)
  PROVE  IInv'
BY EndStep DEF Crash

----------------------------------------------------------------------------
LEMMA InitIInv == Init => IInv
<1> SUFFICES ASSUME Init PROVE IInv
  OBVIOUS
<1> USE DEF Init, StoreInit, Absent
<1>1. journal = << >> /\ journal \in Seq(Items)
  OBVIOUS
<1>2. meta \in Metas /\ meta.run = [r \in Runs |-> Absent]
  BY DEF Metas, Statuses
<1>3. TypeOK
  BY <1>1, <1>2 DEF TypeOK, StoreTypeOK, Statuses, Points, Intents, NoIntent
<1>4. ProcInv
  BY <1>3, SplitTypeOK DEF ProcInv, RunHasTurn, Live, BootedHasCheckpoint, GoalIsTerminal, Unbooted
<1>5. StoreInv
  BY <1>1, <1>2 DEF StoreInv, RecordedHasCheckpoint, StarterHasCheckpoint, StarterIsKnown, StartedBy
<1>6. ParentIsRecorded
  BY DEF ParentIsRecorded, Unbooted
<1> QED
  BY <1>3, <1>4, <1>5, <1>6 DEF IInv

LEMMA NextIInv == IInv /\ [Next]_vars => IInv'
<1> SUFFICES ASSUME IInv, [Next]_vars PROVE IInv'
  OBVIOUS
<1>1. CASE UNCHANGED vars
  <2>1. TypeOK' /\ ProcInv'
    BY <1>1 DEF IInv, vars, storeVars, procVars, TypeOK, StoreTypeOK, ProcInv, ProcTypeOK,
                RunHasTurn, Live, BootedHasCheckpoint, GoalIsTerminal
  <2>2. StoreInv' /\ ParentIsRecorded'
    BY <1>1 DEF IInv, vars, storeVars, procVars, StoreInv, RecordedHasCheckpoint,
                StarterHasCheckpoint, StarterIsKnown, StartedBy, ParentIsRecorded
  <2> QED
    BY <2>1, <2>2 DEF IInv
<1>2. ASSUME NEW r \in Runs, NEW t \in Turns, PlanFresh(r, t) PROVE IInv'
  BY <1>2, PlanFreshStep
<1>3. ASSUME NEW r \in Runs, NEW p \in Runs, ReadCheckpoint(r, p) PROVE IInv'
  BY <1>3, ReadCheckpointStep
<1>4. ASSUME NEW r \in Runs, PlanResume(r) \/ Bootstrap(r) PROVE IInv'
  BY <1>4, PlanResumeStep, BootstrapStep
<1>5. ASSUME NEW r \in Runs, Claim(r) PROVE IInv'
  BY <1>5, StartTurnStep, ClaimResumeStep, RefusedClaimStep, CleanupStep DEF Claim
<1>6. ASSUME NEW r \in Runs, Execute(r) PROVE IInv'
  BY <1>6, SaveStep, RecordStep, FinalizeStep, PrepareTerminalStep, LastRecordStep DEF Execute
<1>7. ASSUME NEW r \in Runs, Fail(r) PROVE IInv'
  BY <1>7, RaiseStep, CheckpointWriteFailsStep, SaveStep, LastRecordStep, CrashStep DEF Fail
<1> QED
  BY <1>1, <1>2, <1>3, <1>4, <1>5, <1>6, <1>7 DEF Next

(* The files and the processes keep their types for any number of Turns    *)
(* and Runs, whatever crashes or fails (thread_json.py, harness.py).       *)
THEOREM TypeCorrect == Spec => []TypeOK
<1>1. IInv => TypeOK
  BY DEF IInv
<1> QED
  BY <1>1, InitIInv, NextIInv, PTL DEF Spec

(* Every Run that loading the Thread names has its checkpoint file, for    *)
(* any number of concurrent claimants: Harness.run never deletes the       *)
(* checkpoint of a Run whose claim took effect, not even when the claim    *)
(* raised after its journal line.                                          *)
THEOREM ClaimedRunsKeepCheckpoints == Spec => []ClaimedRunHasCheckpoint
<1>1. IInv => ClaimedRunHasCheckpoint
  BY RepairedFacts DEF IInv, TypeOK, ClaimedRunHasCheckpoint, Claimed
<1> QED
  BY <1>1, InitIInv, NextIInv, PTL DEF Spec
============================================================================
