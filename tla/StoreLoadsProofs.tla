-------------------------- MODULE StoreLoadsProofs --------------------------
(***************************************************************************)
(* Loading a Thread never fails, whatever crashes or fails in whichever    *)
(* process, for any number of Turns and Runs; and without I/O errors a     *)
(* Turn is shown terminal only when the checkpoint of its Run says so too. *)
(***************************************************************************)
EXTENDS TurnOwnershipProofs, FiniteSetTheorems

(* thread.json is not ahead of the journal, and knows every Turn of the    *)
(* part it has acknowledged.                                               *)
SequenceFits ==
  /\ meta.sequence <= Len(journal)
  /\ \A i \in DOMAIN journal :
       journal[i].kind = "turn_start" /\ i <= meta.sequence => meta.cur[journal[i].turn] # NoRun

(* Reconciling the turn_start items never makes a second Turn active. *)
OneActive ==
  \A t, u \in Turns : IsActive(Reconciled, t) /\ IsActive(Reconciled, u) => t = u

(* The Run an intent names can only write the checkpoint it announces. *)
IntentIsTrue ==
  \A t \in Turns : intent[t].run \in Runs =>
    /\ pc[intent[t].run] = "prepared" => goal[intent[t].run] = intent[t].status
    /\ ckpt[intent[t].run] \in TerminalStatuses => ckpt[intent[t].run] = intent[t].status

(* At most one snapshot is of a Turn nobody claimed, none while a Turn is  *)
(* active, and an active Turn has its own.                                 *)
SnapshotsFit ==
  /\ \A t, u \in snapshots \ ClaimedTurns(Repaired) : t = u
  /\ \A t \in ActiveTurns(Repaired) : t \in snapshots /\ snapshots \subseteq ClaimedTurns(Repaired)

LoadInv == OwnInv /\ SequenceFits /\ OneActive /\ IntentIsTrue /\ SnapshotsFit

----------------------------------------------------------------------------
(* How a step writes the journal and thread.json. *)
KeptMeta == meta'.cur = Repaired.cur /\ meta'.run = Repaired.run

(* r, which owns t or starts it, gets a status in t. *)
Recorded(t, r, status) ==
  /\ t = turnOf[r] /\ t \in Turns
  /\ meta'.cur = [Repaired.cur EXCEPT ![t] = r]
  /\ meta'.run = [Repaired.run EXCEPT ![r] = status]
  /\ IsActive(Repaired, t) \/ (Repaired.cur[t] = r /\ TurnStatus(Repaired, t) = status)

Starts(r) ==
  /\ turnOf[r] \in Turns /\ ActiveTurns(Repaired) = {} /\ Repaired.run[r] = Absent
  /\ Repaired.cur[turnOf[r]] = NoRun
  /\ journal' = Append(journal, Item("turn_start", turnOf[r], r))

Writes(r) ==
  \/ UNCHANGED <<journal, meta>>
  \/ /\ journal' = journal /\ meta'.sequence = Len(journal)
     /\ KeptMeta \/ \E status \in Statuses \ {Absent} : Recorded(turnOf[r], r, status)
  \/ /\ turnOf[r] \in Turns
     /\ journal' = Append(journal, Item("final", turnOf[r], r))
     /\ meta'.sequence \in {Len(journal), Len(journal')} /\ KeptMeta
  \/ /\ Starts(r)
     /\ \/ meta' = Repaired
        \/ /\ meta'.sequence = Len(journal')
           /\ meta'.cur = [Repaired.cur EXCEPT ![turnOf[r]] = r]
           /\ meta'.run = [Repaired.run EXCEPT ![r] = "created"]

LEMMA RepairedSequence == ASSUME OwnInv PROVE Repaired.sequence = Len(journal)
<1>1. meta \in Metas /\ Reconciled \in Metas
  BY ReconciledView DEF OwnInv, IInv, TypeOK, StoreTypeOK
<1>2. Reconciled.sequence = Len(journal)
  BY <1>1 DEF Reconciled, Metas
<1> QED
  BY <1>1, <1>2 DEF Repaired, Metas

LEMMA WithRunView ==
  ASSUME OwnInv, NEW r \in Runs, NEW status
  PROVE  /\ WithRun(Repaired, r, status).cur = [Repaired.cur EXCEPT ![turnOf[r]] = r]
         /\ WithRun(Repaired, r, status).run = [Repaired.run EXCEPT ![r] = status]
         /\ WithRun(Repaired, r, status).sequence = Len(journal)
BY RepairedSequence, RepairedView DEF WithRun, Metas


LEMMA StepWrites ==
  ASSUME OwnInv, IInv', Next
  PROVE  \E r \in Runs : Writes(r)
<1> PICK r \in Runs : \/ \E t \in Turns : PlanFresh(r, t)
                      \/ \E p \in Runs : ReadCheckpoint(r, p)
                      \/ PlanResume(r) \/ Bootstrap(r)
                      \/ Claim(r) \/ Execute(r) \/ Fail(r)
  BY DEF Next
<1> SUFFICES Writes(r)
  OBVIOUS
<1>1. ProcInv /\ Repaired \in Metas /\ Repaired.sequence = Len(journal)
  BY RepairedSequence, RepairedView DEF OwnInv, IInv
<1>2. ASSUME meta' = Repaired, journal' = journal PROVE Writes(r)
  BY <1>1, <1>2 DEF Writes, KeptMeta
<1>3. ASSUME NEW status \in Statuses \ {Absent}, meta' = WithRun(Repaired, r, status),
             journal' = journal, Live(r),
             \/ IsActive(Repaired, turnOf[r])
             \/ Repaired.cur[turnOf[r]] = r /\ TurnStatus(Repaired, turnOf[r]) = status
      PROVE  Writes(r)
  BY <1>1, <1>3, WithRunView DEF Writes, Recorded, ProcInv, RunHasTurn
<1>4. CASE \E t \in Turns : PlanFresh(r, t)
  BY <1>2, <1>4 DEF PlanFresh
<1>5. CASE \E p \in Runs : ReadCheckpoint(r, p)
  BY <1>5 DEF ReadCheckpoint, Writes
<1>6. CASE PlanResume(r) \/ Bootstrap(r)
  BY <1>2, <1>6 DEF PlanResume, KeepFiles, EndKeepingFiles, Bootstrap, SaveCheckpoint, Writes
<1>7. CASE Claim(r)
  <2>1. ASSUME NEW writes \in 0..3, StartTurn(r, writes) PROVE Writes(r)
    <3>1. CASE writes < 2
      BY <1>2, <2>1, <3>1 DEF StartTurn
    <3>2. CASE writes >= 2
      <4>1. Starts(r)
        <5>1. /\ ActiveTurns(Repaired) = {} /\ turnOf[r] \notin ClaimedTurns(Repaired)
              /\ pc[r] = "booted" /\ turnOf[r] \in Turns
          BY <1>1, <2>1 DEF StartTurn, CanStart, ProcInv, RunHasTurn, Live
        <5>2. Repaired.run[r] = Absent
          BY <1>1, <5>1, RepairedView, RepairedFit DEF Early
        <5> QED
          BY <2>1, <3>2, <5>1, <5>2 DEF StartTurn, Starts, ClaimedTurns
      <4>2. CASE writes = 3
        <5> DEFINE m == WithRun(Repaired, r, "created")
        <5>1. meta' = [m EXCEPT !.sequence = Len(journal')]
          BY <2>1, <4>2 DEF StartTurn, WithTail
        <5>2. m = [Repaired EXCEPT !.cur[turnOf[r]] = r, !.run[r] = "created"]
          BY DEF WithRun
        <5>3. meta'.sequence = Len(journal') /\ meta'.cur = m.cur /\ meta'.run = m.run
          BY <1>1, <5>1, <5>2 DEF Metas
        <5> QED
          BY <4>1, <5>3, WithRunView DEF Writes
      <4>3. CASE writes = 2
        BY <2>1, <4>1, <4>3 DEF StartTurn, Writes
      <4> QED
        BY <3>2, <4>2, <4>3
    <3> QED
      BY <3>1, <3>2
  <2>2. CASE StartTurnRefused(r) \/ ClaimResumeRefused(r) \/ Cleanup(r)
    BY <1>2, <2>2 DEF StartTurnRefused, ClaimResumeRefused, Refused, KeepFiles, Cleanup
  <2>3. CASE ClaimResume(r)
    <3>1. IsActive(Repaired, turnOf[r]) /\ "created" \in Statuses \ {Absent}
      BY <2>3 DEF ClaimResume, CanClaimResume, Statuses, ActiveStatuses, Absent
    <3> QED
      BY <1>2, <1>3, <2>3, <3>1 DEF ClaimResume, Live
  <2> QED
    BY <1>7, <2>1, <2>2, <2>3 DEF Claim
<1>8. CASE BeginRunning(r) \/ DenyTool(r) \/ AdvanceCursor(r) \/ Suspend(r) \/ WriteTerminal(r)
           \/ Raise(r) \/ CheckpointWriteFails(r) \/ FailCreated(r) \/ Crash(r)
  BY <1>8 DEF BeginRunning, DenyTool, AdvanceCursor, Suspend, WriteTerminal, Raise,
              CheckpointWriteFails, FailCreated, Crash, SaveCheckpoint, KeepFiles,
              EndKeepingFiles, Writes
<1>9. CASE Announce(r)
  <2>1. "running" \in Statuses \ {Absent}
    BY DEF Statuses, ActiveStatuses, Absent
  <2> QED
    BY <1>2, <1>3, <1>9, <2>1 DEF Announce, Live, RecordRun, CanRecord, IsCurrent, KeepFiles
<1>10. CASE FinishTurn(r)
  <2>1. goal[r] \in Statuses \ {Absent}
    BY <1>1, <1>10 DEF FinishTurn, ProcInv, GoalIsTerminal, Statuses, TerminalStatuses, Absent
  <2> QED
    BY <1>2, <1>3, <1>10, <2>1 DEF FinishTurn, Live, CanFinish, IsCurrent, KeepFiles
<1>11. CASE Report(r) \/ RecordFailure(r)
  <2>1. memory[r] \in Statuses \ {Absent}
    BY <1>1, <1>11 DEF Report, RecordFailure, ProcInv, ProcTypeOK, BootedHasCheckpoint, Unbooted
  <2> QED
    BY <1>2, <1>3, <1>11, <2>1
       DEF Report, RecordFailure, Live, CanRecord, IsCurrent, EndKeepingFiles
<1>12. CASE PrepareTerminal(r)
  BY <1>2, <1>12 DEF PrepareTerminal
<1>13. ASSUME NEW status \in TerminalStatuses, Finalize(r, status) PROVE Writes(r)
  <2>1. CASE meta' = Repaired /\ KeepFiles
    BY <1>2, <2>1 DEF KeepFiles
  <2>2. CASE /\ journal' = Append(journal, Item("final", turnOf[r], r))
             /\ meta' = Repaired \/ meta' = WithTail(Repaired, journal')
    <3>1. turnOf[r] \in Turns
      BY <1>1, <1>13 DEF Finalize, ProcInv, RunHasTurn, Live
    <3>2. KeptMeta /\ meta'.sequence \in {Len(journal), Len(journal')}
      BY <1>1, <2>2 DEF KeptMeta, WithTail, Metas
    <3> QED
      BY <2>2, <3>1, <3>2 DEF Writes
  <2> QED
    BY <1>13, <2>1, <2>2 DEF Finalize, Refused
<1> QED
  BY <1>4, <1>5, <1>6, <1>7, <1>8, <1>9, <1>10, <1>11, <1>12, <1>13 DEF Execute, Fail


----------------------------------------------------------------------------
LEMMA SequenceStep ==
  ASSUME OwnInv, IInv', SequenceFits, NEW r \in Runs, Writes(r)
  PROVE  SequenceFits'
<1>1. /\ journal \in Seq(Items) /\ Len(journal) \in Nat /\ meta' \in Metas
      /\ Repaired.cur \in [Turns -> Runs \cup {NoRun}] /\ r # NoRun
      /\ Repaired.sequence = Len(journal)
  BY RepairedView, RepairedSequence, IdentityAssumption DEF OwnInv, IInv, TypeOK, StoreTypeOK, Metas
<1>2. \A i \in DOMAIN journal : journal[i].kind = "turn_start" => Repaired.cur[journal[i].turn] # NoRun
  <2> SUFFICES ASSUME NEW i \in DOMAIN journal, journal[i].kind = "turn_start"
               PROVE  Repaired.cur[journal[i].turn] # NoRun
    OBVIOUS
  <2>1. journal[i] \in Items
    BY <1>1
  <2>2. StartedBy(journal[i].turn, journal[i].run)
    BY DEF StartedBy
  <2> QED
    BY <2>1, <2>2, SeenFacts DEF Items
<1>3. CASE UNCHANGED <<journal, meta>>
  BY <1>3 DEF SequenceFits
<1>4. \A i \in DOMAIN journal : journal[i].turn \in Turns
  <2>1. \A i \in DOMAIN journal : journal[i] \in Items
    BY <1>1
  <2> QED
    BY <2>1 DEF Items
<1>5. CASE /\ journal' = journal /\ meta'.sequence = Len(journal)
           /\ KeptMeta \/ \E status \in Statuses \ {Absent} : Recorded(turnOf[r], r, status)
  <2>1. \A t \in Turns : Repaired.cur[t] # NoRun => meta'.cur[t] # NoRun
    BY <1>1, <1>5 DEF KeptMeta, Recorded
  <2> QED
    BY <1>1, <1>2, <1>4, <1>5, <2>1 DEF SequenceFits
<1>6. ASSUME NEW item \in Items, journal' = Append(journal, item),
             \/ meta'.sequence = Len(journal)
             \/ /\ meta'.sequence = Len(journal')
                /\ item.kind = "turn_start" => meta'.cur[item.turn] # NoRun,
             \A t \in Turns : Repaired.cur[t] # NoRun => meta'.cur[t] # NoRun
      PROVE  SequenceFits'
  <2>1. /\ DOMAIN journal' = DOMAIN journal \cup {Len(journal) + 1}
        /\ Len(journal') = Len(journal) + 1
        /\ \A i \in DOMAIN journal : journal'[i] = journal[i] /\ i <= Len(journal)
        /\ journal'[Len(journal) + 1] = item
    BY <1>1, <1>6
  <2> QED
    BY <1>1, <1>2, <1>4, <1>6, <2>1 DEF SequenceFits
<1>7. CASE /\ turnOf[r] \in Turns
           /\ journal' = Append(journal, Item("final", turnOf[r], r))
           /\ meta'.sequence \in {Len(journal), Len(journal')} /\ KeptMeta
  <2>1. Item("final", turnOf[r], r) \in Items /\ Item("final", turnOf[r], r).kind = "final"
    BY <1>7 DEF Item, Items
  <2> QED
    BY <1>6, <1>7, <2>1 DEF KeptMeta
<1>8. CASE /\ Starts(r)
           /\ \/ meta' = Repaired
              \/ /\ meta'.sequence = Len(journal')
                 /\ meta'.cur = [Repaired.cur EXCEPT ![turnOf[r]] = r]
                 /\ meta'.run = [Repaired.run EXCEPT ![r] = "created"]
  <2> PICK t \in Turns : t = turnOf[r]
    BY <1>8 DEF Starts
  <2> DEFINE item == Item("turn_start", t, r)
  <2>1. item \in Items /\ item.turn = t /\ journal' = Append(journal, item)
    BY <1>8 DEF Item, Items, Starts
  <2> HIDE DEF item
  <2>2. CASE meta' = Repaired
    BY <1>1, <1>6, <2>1, <2>2
  <2>3. CASE meta'.sequence = Len(journal') /\ meta'.cur = [Repaired.cur EXCEPT ![t] = r]
    <3>1. \A u \in Turns : meta'.cur[u] = IF u = t THEN r ELSE Repaired.cur[u]
      BY <1>1, <2>3
    <3> QED
      BY <1>1, <1>6, <2>1, <2>3, <3>1
  <2> QED
    BY <1>8, <2>2, <2>3
<1> QED
  BY <1>3, <1>5, <1>7, <1>8 DEF Writes

LEMMA ActiveInRepaired ==
  ASSUME OwnInv, NEW t \in Turns, IsActive(Repaired, t)
  PROVE  IsActive(Reconciled, t)
<1>1. t \notin Settled(Reconciled)
  BY NothingLeft, RepairedView, IdentityAssumption
     DEF Settled, IntentApplies, IsActive, TurnStatus, ActiveStatuses, TerminalStatuses
<1>2. Repaired.cur[t] # NoRun /\ Repaired.cur[t] \in Runs /\ Repaired.cur[t] = Reconciled.cur[t]
  BY RepairedView, RepairedFit DEF IsActive, TurnStatus, ActiveStatuses, Absent
<1>3. \A u \in Settled(Reconciled) : Reconciled.cur[u] # Reconciled.cur[t]
  BY <1>1, <1>2, RepairedView, RepairedFit, IdentityAssumption DEF Settled, IntentApplies
<1>4. Repaired.run[Repaired.cur[t]] = Reconciled.run[Reconciled.cur[t]]
  BY <1>2, <1>3, RepairedView
<1> QED
  BY <1>2, <1>4 DEF IsActive, TurnStatus

LEMMA OneActiveRepaired ==
  ASSUME OwnInv, OneActive
  PROVE  \A t, u \in Turns : IsActive(Repaired, t) /\ IsActive(Repaired, u) => t = u
BY ActiveInRepaired DEF OneActive

(* What the next load will see active is active in thread.json, or starts. *)
LEMMA ReconciledActive ==
  ASSUME NameInv', meta' \in Metas, NEW t \in Turns, IsActive(Reconciled, t)'
  PROVE  \/ meta'.cur[t] # NoRun /\ meta'.run[meta'.cur[t]] \in ActiveStatuses
         \/ t \in Unclaimed'
<1> SUFFICES ASSUME t \notin Unclaimed'
             PROVE  meta'.cur[t] # NoRun /\ meta'.run[meta'.cur[t]] \in ActiveStatuses
  OBVIOUS
<1>1. CASE Unclaimed' = {}
  <2>1. Reconciled' = [meta' EXCEPT !.sequence = Len(journal')]
    BY <1>1 DEF Reconciled
  <2>2. Reconciled'.cur = meta'.cur /\ Reconciled'.run = meta'.run
    BY <2>1 DEF Metas
  <2> QED
    BY <2>2 DEF IsActive, TurnStatus, ActiveStatuses, Absent
<1>2. CASE Unclaimed' # {}
  <2>1. /\ Reconciled'.cur = [u \in Turns |-> IF u \in Unclaimed' THEN FirstRun(u)' ELSE meta'.cur[u]]
        /\ Reconciled'.run = [s \in Runs |-> IF \E u \in Unclaimed' : FirstRun(u)' = s
                                             THEN "created" ELSE meta'.run[s]]
    BY <1>2 DEF Reconciled
  <2>2. Reconciled'.cur[t] = meta'.cur[t] /\ meta'.cur[t] \in Runs \cup {NoRun}
    BY <2>1 DEF Metas
  <2>3. meta'.cur[t] # NoRun
    BY <2>2 DEF IsActive, TurnStatus, ActiveStatuses, Absent
  <2>4. turnOf'[meta'.cur[t]] = t
    BY <2>3 DEF NameInv, OwnerIsOfTurn
  <2>5. \A u \in Unclaimed' : turnOf'[FirstRun(u)'] = u /\ u # t
    <3> SUFFICES ASSUME NEW u \in Unclaimed' PROVE turnOf'[FirstRun(u)'] = u
      OBVIOUS
    <3>1. u \in Turns /\ FirstRun(u)' \in Runs /\ StartedBy(u, FirstRun(u))'
      BY DEF Unclaimed, Started, FirstRun
    <3> QED
      BY <3>1 DEF NameInv, OwnerIsOfTurn
  <2>6. Reconciled'.run[meta'.cur[t]] = meta'.run[meta'.cur[t]]
    BY <2>1, <2>2, <2>3, <2>4, <2>5
  <2> QED
    BY <2>2, <2>3, <2>6 DEF IsActive, TurnStatus
<1> QED
  BY <1>1, <1>2


LEMMA OneActiveStep ==
  ASSUME OwnInv, IInv', NameInv', OneActive, NEW r \in Runs, Writes(r)
  PROVE  OneActive'
<1>1. /\ meta' \in Metas /\ Repaired \in Metas /\ r # NoRun /\ journal \in Seq(Items)
      /\ \A t, u \in Turns : IsActive(Repaired, t) /\ IsActive(Repaired, u) => t = u
  BY RepairedView, OneActiveRepaired, IdentityAssumption DEF OwnInv, IInv, TypeOK, StoreTypeOK
<1>2. ASSUME UNCHANGED <<journal, meta>> PROVE OneActive'
  <2>1. Reconciled' = Reconciled
    BY <1>2, UnwrittenReconciled
  <2> QED
    BY <2>1 DEF OneActive, IsActive, TurnStatus
<1>3. ASSUME NEW own \in Turns,
             \A t \in Turns : t \in Unclaimed' => t = own /\ ActiveTurns(Repaired) = {},
             \A t \in Turns : meta'.cur[t] # NoRun /\ meta'.run[meta'.cur[t]] \in ActiveStatuses
               => IsActive(Repaired, t) \/ (t = own /\ ActiveTurns(Repaired) = {})
      PROVE  OneActive'
  <2> SUFFICES ASSUME NEW t \in Turns, NEW u \in Turns,
                      IsActive(Reconciled, t)', IsActive(Reconciled, u)'
               PROVE  t = u
    BY DEF OneActive
  <2>1. IsActive(Repaired, t) \/ (t = own /\ ActiveTurns(Repaired) = {})
    BY <1>1, <1>3, ReconciledActive
  <2>2. IsActive(Repaired, u) \/ (u = own /\ ActiveTurns(Repaired) = {})
    BY <1>1, <1>3, ReconciledActive
  <2> QED
    BY <1>1, <2>1, <2>2 DEF ActiveTurns
<1>4. CASE Turns = {}
  BY <1>4 DEF OneActive
<1>5. ASSUME \A t \in Turns, s \in Runs : StartedBy(t, s)' <=> StartedBy(t, s),
             \A t \in Turns : Repaired.cur[t] # NoRun => meta'.cur[t] # NoRun
      PROVE  Unclaimed' = {}
  <2> SUFFICES ASSUME NEW t \in Unclaimed' PROVE FALSE
    OBVIOUS
  <2>1. t \in Turns /\ meta'.cur[t] = NoRun /\ \E s \in Runs : StartedBy(t, s)
    BY <1>5 DEF Unclaimed, Started
  <2> QED
    BY <1>5, <2>1, SeenFacts
<1>6. KeptMeta => /\ \A t \in Turns : Repaired.cur[t] # NoRun => meta'.cur[t] # NoRun
                  /\ \A t \in Turns : meta'.cur[t] # NoRun /\ meta'.run[meta'.cur[t]] \in ActiveStatuses
                       => IsActive(Repaired, t)
  BY DEF KeptMeta, IsActive, TurnStatus
<1>7. ASSUME Turns # {}, KeptMeta,
             journal' = journal \/ (turnOf[r] \in Turns /\ journal' = Append(journal, Item("final", turnOf[r], r)))
      PROVE  OneActive'
  <2>1. \A t \in Turns, s \in Runs : StartedBy(t, s)' <=> StartedBy(t, s)
    <3>1. CASE journal' = journal
      BY <3>1 DEF StartedBy
    <3>2. CASE turnOf[r] \in Turns /\ journal' = Append(journal, Item("final", turnOf[r], r))
      <4>1. Item("final", turnOf[r], r) \in Items
            /\ \A t, s : Item("final", turnOf[r], r) # Item("turn_start", t, s)
        BY <3>2 DEF Item, Items
      <4> QED
        BY <3>2, <4>1, AppendedStarts DEF OwnInv, IInv, TypeOK
    <3> QED
      BY <1>7, <3>1, <3>2
  <2>2. Unclaimed' = {}
    BY <1>5, <1>6, <1>7, <2>1
  <2> PICK own \in Turns : TRUE
    BY <1>7
  <2> QED
    BY <1>3, <1>6, <1>7, <2>2
<1>8. ASSUME journal' = journal, NEW status \in Statuses \ {Absent}, Recorded(turnOf[r], r, status),
             turnOf[r] \in Turns
      PROVE  OneActive'
  <2> PICK own \in Turns : own = turnOf[r]
    BY <1>8
  <2>1. /\ \A t \in Turns : meta'.cur[t] = IF t = own THEN r ELSE Repaired.cur[t]
        /\ \A s \in Runs : meta'.run[s] = IF s = r THEN status ELSE Repaired.run[s]
        /\ IsActive(Repaired, own) \/ (Repaired.cur[own] = r /\ TurnStatus(Repaired, own) = status)
    BY <1>1, <1>8 DEF Recorded, Metas
  <2>2. \A t \in Turns, s \in Runs : StartedBy(t, s)' <=> StartedBy(t, s)
    BY <1>8 DEF StartedBy
  <2>3. Unclaimed' = {}
    BY <1>1, <1>5, <2>1, <2>2
  <2>4. \A t \in Turns : meta'.cur[t] # NoRun /\ meta'.run[meta'.cur[t]] \in ActiveStatuses
          => IsActive(Repaired, t)
    <3> SUFFICES ASSUME NEW t \in Turns, meta'.cur[t] # NoRun,
                        meta'.run[meta'.cur[t]] \in ActiveStatuses
                 PROVE  IsActive(Repaired, t)
      OBVIOUS
    <3>1. CASE t = own
      BY <1>1, <2>1, <3>1 DEF IsActive, TurnStatus
    <3>2. CASE t # own
      <4>1. meta'.cur[t] = Repaired.cur[t] /\ Repaired.cur[t] \in Runs /\ turnOf[Repaired.cur[t]] = t
        BY <2>1, <3>2, RepairedFit
      <4>2. meta'.run[meta'.cur[t]] = Repaired.run[Repaired.cur[t]]
        BY <2>1, <3>2, <4>1
      <4> QED
        BY <4>1, <4>2 DEF IsActive, TurnStatus
    <3> QED
      BY <3>1, <3>2
  <2> QED
    BY <1>3, <2>3, <2>4
<1>9. ASSUME Starts(r),
             \/ meta' = Repaired
             \/ /\ meta'.cur = [Repaired.cur EXCEPT ![turnOf[r]] = r]
                /\ meta'.run = [Repaired.run EXCEPT ![r] = "created"]
      PROVE  OneActive'
  <2> PICK own \in Turns : own = turnOf[r]
    BY <1>9 DEF Starts
  <2>1. /\ ActiveTurns(Repaired) = {} /\ Repaired.run[r] = Absent
        /\ journal' = Append(journal, Item("turn_start", own, r))
    BY <1>9 DEF Starts
  <2>2. \A t \in Turns, s \in Runs : StartedBy(t, s)' <=> StartedBy(t, s) \/ (t = own /\ s = r)
    <3>1. Item("turn_start", own, r) \in Items
          /\ \A t, s : Item("turn_start", own, r) = Item("turn_start", t, s) <=> t = own /\ s = r
      BY DEF Item, Items
    <3> QED
      BY <2>1, <3>1, AppendedStarts DEF OwnInv, IInv, TypeOK
  <2>3. /\ \A t \in Turns : meta'.cur[t] = Repaired.cur[t] \/ (t = own /\ meta'.cur[t] = r)
        /\ \A s \in Runs : meta'.run[s] = Repaired.run[s] \/ s = r
    BY <1>1, <1>9 DEF Metas
  <2>4. \A t \in Turns : t \in Unclaimed' => t = own
    <3> SUFFICES ASSUME NEW t \in Turns, t \in Unclaimed', t # own PROVE FALSE
      OBVIOUS
    <3>1. meta'.cur[t] = NoRun /\ \E s \in Runs : StartedBy(t, s)
      BY <2>2 DEF Unclaimed, Started
    <3> QED
      BY <2>3, <3>1, SeenFacts
  <2>5. \A t \in Turns : meta'.cur[t] # NoRun /\ meta'.run[meta'.cur[t]] \in ActiveStatuses
          => t = own
    <3> SUFFICES ASSUME NEW t \in Turns, meta'.cur[t] # NoRun, t # own,
                        meta'.run[meta'.cur[t]] \in ActiveStatuses
                 PROVE  FALSE
      OBVIOUS
    <3>1. /\ meta'.cur[t] = Repaired.cur[t] /\ Repaired.cur[t] \in Runs
          /\ Repaired.run[Repaired.cur[t]] # Absent
      BY <2>3, RepairedFit
    <3>2. IsActive(Repaired, t)
      BY <2>1, <2>3, <3>1 DEF IsActive, TurnStatus
    <3> QED
      BY <2>1, <3>2 DEF ActiveTurns
  <2> QED
    BY <1>3, <2>1, <2>4, <2>5
<1>10. CASE Turns # {}
  <2>1. CASE /\ journal' = journal
             /\ KeptMeta \/ \E status \in Statuses \ {Absent} : Recorded(turnOf[r], r, status)
    <3>1. \A status : Recorded(turnOf[r], r, status) => turnOf[r] \in Turns
      BY DEF Recorded
    <3> QED
      BY <1>7, <1>8, <1>10, <2>1, <3>1
  <2> QED
    BY <1>2, <1>7, <1>9, <1>10, <2>1 DEF Writes
<1> QED
  BY <1>4, <1>10


----------------------------------------------------------------------------
(* What a step does to the other processes, and to an intent's checkpoint. *)
Aside(r) ==
  /\ intent' = intent
  /\ \A s \in Runs : s # r => pc'[s] = pc[s] /\ goal'[s] = goal[s] /\ ckpt'[s] = ckpt[s]
  /\ (pc[r] \in Late /\ memory[r] # "created") => pc'[r] # "prepared" /\ ckpt'[r] = ckpt[r]

LEMMA AsideStep ==
  ASSUME OwnInv, IntentIsTrue, NEW r \in Runs, Aside(r)
  PROVE  IntentIsTrue'
<1> SUFFICES ASSUME NEW t \in Turns, intent[t].run \in Runs
             PROVE  /\ pc'[intent[t].run] = "prepared" => goal'[intent[t].run] = intent[t].status
                    /\ ckpt'[intent[t].run] \in TerminalStatuses
                         => ckpt'[intent[t].run] = intent[t].status
  BY DEF IntentIsTrue, Aside
<1> QED
  BY DEF IntentIsTrue, Aside, OwnInv, LocalInv, IntentIsLate

LEMMA GotoIsAside ==
  ASSUME OwnInv, NEW r \in Runs, NEW point, Goto(r, point), point # "prepared",
         UNCHANGED <<intent, ckpt>>,
         goal' = goal \/ \E status : goal' = [goal EXCEPT ![r] = status]
  PROVE  Aside(r)
BY DEF Goto, Aside, OwnInv, IInv, ProcInv, ProcTypeOK

LEMMA EndIsAside ==
  ASSUME OwnInv, NEW r \in Runs, End(r), intent' = intent,
         ckpt' = ckpt \/ (pc[r] \notin Late /\ ckpt' = [ckpt EXCEPT ![r] = Absent])
  PROVE  Aside(r)
BY SplitTypeOK DEF End, Goto, Aside, OwnInv, IInv, ProcInv, ProcTypeOK, FilesTypeOK

LEMMA SaveIsAside ==
  ASSUME OwnInv, NEW r \in Runs, NEW status, SaveCheckpoint(r, status),
         UNCHANGED pc \/ \E point : Goto(r, point),
         pc[r] \notin Late \/ memory[r] = "created"
  PROVE  Aside(r)
BY SplitTypeOK DEF SaveCheckpoint, Goto, Aside, OwnInv, IInv, ProcInv, ProcTypeOK, FilesTypeOK

LEMMA InterruptedIsAside ==
  ASSUME OwnInv, NEW r \in Runs, NEW handler \in {"cleanup", "failing"}, Interrupted(r, handler),
         UNCHANGED <<intent, ckpt>>
  PROVE  Aside(r)
BY GotoIsAside, EndIsAside DEF Interrupted, KeepLocals

LEMMA IntentStep ==
  ASSUME OwnInv, IntentIsTrue, Next
  PROVE  IntentIsTrue'
<1> PICK r \in Runs : \/ \E t \in Turns : PlanFresh(r, t)
                      \/ \E p \in Runs : ReadCheckpoint(r, p)
                      \/ PlanResume(r) \/ Bootstrap(r)
                      \/ Claim(r) \/ Execute(r) \/ Fail(r)
  BY DEF Next
<1> USE DEF Late
<1>1. CASE \/ \E t \in Turns : PlanFresh(r, t)
           \/ \E p \in Runs : ReadCheckpoint(r, p)
           \/ PlanResume(r) \/ Bootstrap(r)
  BY <1>1, GotoIsAside, EndIsAside, SaveIsAside, AsideStep
     DEF PlanFresh, ReadCheckpoint, PlanResume, Bootstrap, KeepFiles, KeepLocals, EndKeepingFiles
<1>2. CASE Claim(r)
  <2>1. ASSUME NEW writes \in 0..3, StartTurn(r, writes) PROVE IntentIsTrue'
    BY <2>1, GotoIsAside, InterruptedIsAside, AsideStep DEF StartTurn
  <2>2. CASE ClaimResume(r) \/ StartTurnRefused(r) \/ ClaimResumeRefused(r)
    BY <2>2, GotoIsAside, InterruptedIsAside, AsideStep
       DEF ClaimResume, StartTurnRefused, ClaimResumeRefused, Refused, KeepFiles, KeepLocals
  <2>3. CASE Cleanup(r)
    BY <2>3, EndIsAside, AsideStep DEF Cleanup
  <2> QED
    BY <1>2, <2>1, <2>2, <2>3 DEF Claim
<1>3. CASE BeginRunning(r) \/ DenyTool(r) \/ AdvanceCursor(r) \/ Suspend(r) \/ FailCreated(r)
  BY <1>3, SaveIsAside, AsideStep DEF BeginRunning, DenyTool, AdvanceCursor, Suspend, FailCreated
<1>4. CASE Announce(r) \/ FinishTurn(r) \/ Raise(r) \/ CheckpointWriteFails(r)
  BY <1>4, GotoIsAside, AsideStep
     DEF Announce, RecordRun, FinishTurn, Raise, CheckpointWriteFails, KeepFiles, KeepLocals
<1>5. CASE Report(r) \/ RecordFailure(r) \/ Crash(r)
  BY <1>5, EndIsAside, AsideStep DEF Report, RecordFailure, Crash, EndKeepingFiles
<1>6. ASSUME NEW status \in TerminalStatuses, Finalize(r, status) PROVE IntentIsTrue'
  <2>1. UNCHANGED <<intent, ckpt>>
    BY <1>6 DEF Finalize, Refused, KeepFiles
  <2> QED
    BY <1>6, <2>1, GotoIsAside, InterruptedIsAside, AsideStep
       DEF Finalize, Refused, KeepFiles, KeepLocals
<1>7. CASE PrepareTerminal(r)
  <2>1. /\ pc[r] = "finalizing" /\ UNCHANGED <<ckpt, goal>>
        /\ \A s \in Runs : s # r => pc'[s] = pc[s]
        /\ \A t \in Turns : intent'[t] = intent[t] \/ intent'[t] = [run |-> r, status |-> goal[r]]
    BY <1>7 DEF PrepareTerminal, Goto, KeepLocals, OwnInv, IInv, ProcInv, ProcTypeOK, TypeOK,
                StoreTypeOK
  <2>2. ckpt[r] = "running" /\ "running" \notin TerminalStatuses
    BY <2>1 DEF OwnInv, LocalInv, AtWorkIsSaved, AtWork, TerminalStatuses
  <2>3. \A t \in Turns : intent[t].run # r
    BY <2>1 DEF OwnInv, LocalInv, IntentIsLate
  <2> SUFFICES ASSUME NEW t \in Turns, intent'[t].run \in Runs
               PROVE  /\ pc'[intent'[t].run] = "prepared" => goal'[intent'[t].run] = intent'[t].status
                      /\ ckpt'[intent'[t].run] \in TerminalStatuses
                           => ckpt'[intent'[t].run] = intent'[t].status
    BY DEF IntentIsTrue
  <2>4. CASE intent'[t] = intent[t]
    BY <2>1, <2>3, <2>4 DEF IntentIsTrue
  <2>5. CASE intent'[t] = [run |-> r, status |-> goal[r]]
    BY <2>1, <2>2, <2>5
  <2> QED
    BY <2>1, <2>4, <2>5
<1>8. CASE WriteTerminal(r)
  <2>1. /\ pc[r] = "prepared" /\ UNCHANGED <<intent, goal>> /\ pc'[r] = "settled"
        /\ \A s \in Runs : s # r => pc'[s] = pc[s] /\ ckpt'[s] = ckpt[s]
        /\ ckpt'[r] = goal[r]
    BY <1>8, SplitTypeOK DEF WriteTerminal, Goto, SaveCheckpoint, OwnInv, IInv, ProcInv,
                             ProcTypeOK, FilesTypeOK
  <2> QED
    BY <2>1 DEF IntentIsTrue
<1> QED
  BY <1>1, <1>2, <1>3, <1>4, <1>5, <1>6, <1>7, <1>8 DEF Execute, Fail

----------------------------------------------------------------------------
(* Snapshots are only written by start_turn. *)
LEMMA SnapshotsWritten ==
  ASSUME Next
  PROVE  \/ snapshots' = snapshots
         \/ \E r \in Runs, writes \in 0..3 : StartTurn(r, writes)
BY DEF Next, Claim, Execute, Fail, PlanFresh, ReadCheckpoint, PlanResume, Bootstrap,
       StartTurnRefused, ClaimResume, ClaimResumeRefused, Cleanup, BeginRunning, Announce,
       RecordRun, DenyTool, AdvanceCursor, Suspend, Finalize, PrepareTerminal, WriteTerminal,
       FinishTurn, Report, Raise, CheckpointWriteFails, FailCreated, RecordFailure, Crash,
       SaveCheckpoint, Refused, KeepFiles, EndKeepingFiles


LEMMA ActiveStay ==
  ASSUME OwnInv, Contract,
         \A t \in Turns : Repaired'.cur[t] # NoRun => Repaired.cur[t] # NoRun
  PROVE  ActiveTurns(Repaired)' \subseteq ActiveTurns(Repaired)
<1> SUFFICES ASSUME NEW t \in Turns, IsActive(Repaired, t)' PROVE IsActive(Repaired, t)
  BY DEF ActiveTurns
<1>1. PublishedState'[t] = "open"
  BY DEF PublishedState, IsActive, TurnStatus, ActiveStatuses, Absent
<1>2. /\ \A u \in Turns : PublishedState[u] = "open" => IsActive(Repaired, u)
      /\ \A u \in Turns : PublishedState[u] = "none" => Repaired.cur[u] = NoRun
  BY RepairedView, RepairedFit
     DEF PublishedState, IsActive, TurnStatus, Metas, Statuses, ActiveStatuses, TerminalStatuses,
         Absent
<1>3. DOMAIN PublishedState = Turns /\ DOMAIN PublishedOwner = Turns
  BY RepairedView DEF PublishedState, PublishedOwner, Metas
<1>4. ASSUME NEW u \in Turns, NEW r \in Runs, Ownership!Open(u, r) PROVE FALSE
  <2>1. PublishedState[u] = "none" /\ PublishedOwner' = [PublishedOwner EXCEPT ![u] = r]
    BY <1>4 DEF Ownership!Open, Ownership!Own
  <2>2. PublishedOwner'[u] = r
    BY <1>3, <2>1
  <2> QED
    BY <1>2, <2>1, <2>2, IdentityAssumption DEF PublishedOwner
<1>5. PublishedState[t] = "open"
  <2>1. CASE UNCHANGED PublishedState
    BY <1>1, <2>1
  <2>2. ASSUME NEW u \in Turns, NEW outcome \in TerminalStatuses, Ownership!Close(u, outcome)
        PROVE  PublishedState[t] = "open"
    <3>1. PublishedState' = [PublishedState EXCEPT ![u] = outcome] /\ outcome # "open"
      BY <2>2 DEF Ownership!Close, TerminalStatuses
    <3> QED
      BY <1>1, <1>3, <3>1
  <2>3. ASSUME NEW u \in Turns, NEW r \in Runs, Ownership!TakeOver(u, r)
        PROVE  UNCHANGED PublishedState
    BY <2>3 DEF Ownership!TakeOver
  <2>4. ASSUME NEW u \in Turns, Ownership!Answer(u)
        PROVE  UNCHANGED PublishedState
    BY <2>4 DEF Ownership!Answer
  <2>5. UNCHANGED Ownership!ownershipVars => UNCHANGED PublishedState
    BY DEF Ownership!ownershipVars
  <2> QED
    BY <1>4, <2>1, <2>2, <2>3, <2>4, <2>5 DEF Contract, Ownership!Next
<1> QED
  BY <1>2, <1>5

(* A Run is claimed by start_turn or by claim_resume_run. *)
LEMMA ClaimedByClaim ==
  ASSUME OwnInv, IInv', Next
  PROVE  \/ KeepsNames
         \/ \E r \in Runs, writes \in 0..3 : StartTurn(r, writes)
         \/ \E r \in Runs : ClaimResume(r) /\ NewOwner(r)
BY PlanSteps, ClaimResumeContract, RepairOnlySteps, UnwrittenSteps, RecordSteps, FinalizeContract,
   PrepareTerminalContract, WriteTerminalContract
   DEF Next, Claim, Execute, Fail

LEMMA SnapshotsStep ==
  ASSUME OwnInv, IInv', SnapshotsFit, OneActive, Next
  PROVE  SnapshotsFit'
<1>0. Contract /\ (KeepsNames \/ \E r \in Runs : NewOwner(r))
  BY NextContract
<1>1. \A t \in Turns : Repaired.cur[t] # NoRun => Repaired'.cur[t] # NoRun
  <2>1. ASSUME NEW r \in Runs, NewOwner(r), NEW t \in Turns, Repaired.cur[t] # NoRun
        PROVE  Repaired'.cur[t] # NoRun
    <3>1. Repaired'.cur = [Repaired.cur EXCEPT ![turnOf[r]] = r] /\ r # NoRun
          /\ Repaired.cur \in [Turns -> Runs \cup {NoRun}]
      BY <2>1, RepairedView, IdentityAssumption DEF NewOwner, Metas
    <3> QED
      BY <2>1, <3>1
  <2> QED
    BY <1>0, <2>1 DEF KeepsNames
<1>2. ASSUME snapshots' = snapshots,
             \A t \in Turns : Repaired'.cur[t] # NoRun => Repaired.cur[t] # NoRun
      PROVE  SnapshotsFit'
  <2>1. ClaimedTurns(Repaired)' = ClaimedTurns(Repaired)
    BY <1>1, <1>2 DEF ClaimedTurns
  <2>2. ActiveTurns(Repaired)' \subseteq ActiveTurns(Repaired)
    BY <1>0, <1>2, ActiveStay
  <2> QED
    BY <1>2, <2>1, <2>2 DEF SnapshotsFit
<1>3. ASSUME NEW r \in Runs, NEW writes \in 0..3, StartTurn(r, writes)
      PROVE  SnapshotsFit'
  <2>1. /\ ActiveTurns(Repaired) = {} /\ turnOf[r] \in Turns
        /\ turnOf[r] \notin ClaimedTurns(Repaired)
        /\ IF writes < 2 THEN KeepsNames ELSE NewOwner(r)
    <3>1. /\ pc[r] = "booted" /\ ActiveTurns(Repaired) = {}
          /\ turnOf[r] \notin ClaimedTurns(Repaired)
      BY <1>3 DEF StartTurn, CanStart
    <3> QED
      BY <1>3, <3>1, StartTurnContract DEF OwnInv, IInv, ProcInv, RunHasTurn, Live
  <2> PICK t \in Turns : t = turnOf[r]
    BY <2>1
  <2>2. /\ writes >= 1 => t \in snapshots'
        /\ \/ snapshots' = snapshots
           \/ snapshots' = (snapshots \cap ClaimedTurns(Repaired)) \cup {t}
        /\ snapshots \subseteq Turns
    BY <1>3 DEF StartTurn, OwnInv, IInv, TypeOK, StoreTypeOK
  <2>3. \A u, v \in snapshots \ ClaimedTurns(Repaired) : u = v
    BY DEF SnapshotsFit
  <2>4. CASE writes < 2
    <3>1. ClaimedTurns(Repaired)' = ClaimedTurns(Repaired)
      BY <2>1, <2>4 DEF ClaimedTurns, KeepsNames
    <3>2. ActiveTurns(Repaired)' = {}
      BY <1>0, <2>1, <2>4, ActiveStay DEF KeepsNames
    <3>3. \A u, v \in snapshots' \ ClaimedTurns(Repaired) : u = v
      BY <2>2, <2>3
    <3> QED
      BY <3>1, <3>2, <3>3 DEF SnapshotsFit
  <2>5. CASE writes >= 2
    <3>1. /\ Repaired'.cur = [Repaired.cur EXCEPT ![t] = r] /\ r # NoRun
          /\ Repaired.cur \in [Turns -> Runs \cup {NoRun}]
      BY <2>1, <2>5, RepairedView, IdentityAssumption DEF NewOwner, Metas
    <3>2. ClaimedTurns(Repaired)' = ClaimedTurns(Repaired) \cup {t}
      BY <3>1 DEF ClaimedTurns
    <3>3. t \in snapshots' /\ snapshots' \subseteq ClaimedTurns(Repaired) \cup {t}
      BY <2>1, <2>2, <2>3, <2>5
    <3>4. \A u \in Turns : IsActive(Repaired, u)' => u = t
      <4> SUFFICES ASSUME NEW u \in Turns, IsActive(Repaired, u)', u # t PROVE FALSE
        OBVIOUS
      <4>1. Repaired'.cur[u] = Repaired.cur[u]
        BY <3>1
      <4>2. Repaired'.run = [Repaired.run EXCEPT ![r] = "created"] /\ Repaired.run[r] = Absent
        BY <2>1, <2>5 DEF NewOwner
      <4>3. Repaired.cur[u] \in Runs /\ Repaired.cur[u] # r
        BY <4>1, <4>2, RepairedFit DEF IsActive, TurnStatus, ActiveStatuses, Absent
      <4>4. Repaired'.run[Repaired.cur[u]] = Repaired.run[Repaired.cur[u]]
        BY <4>2, <4>3
      <4>5. IsActive(Repaired, u)
        BY <4>1, <4>4 DEF IsActive, TurnStatus
      <4> QED
        BY <2>1, <4>5 DEF ActiveTurns
    <3>5. ActiveTurns(Repaired)' \subseteq {t}
      BY <3>4 DEF ActiveTurns
    <3> QED
      BY <3>2, <3>3, <3>5 DEF SnapshotsFit
  <2> QED
    BY <2>4, <2>5
<1>4. CASE snapshots' = snapshots /\ ~\E r \in Runs, writes \in 0..3 : StartTurn(r, writes)
  <2>1. CASE KeepsNames
    BY <1>2, <1>4, <2>1 DEF KeepsNames
  <2>2. ASSUME NEW r \in Runs, ClaimResume(r), NewOwner(r)
        PROVE  SnapshotsFit'
    <3>1. /\ Repaired'.cur = [Repaired.cur EXCEPT ![turnOf[r]] = r]
          /\ Repaired.cur \in [Turns -> Runs \cup {NoRun}]
          /\ Repaired.cur[turnOf[r]] # NoRun
      BY <2>2, RepairedView DEF NewOwner, Metas, ClaimResume, CanClaimResume, IsActive, TurnStatus,
                                ActiveStatuses, Absent
    <3>2. \A t \in Turns : Repaired'.cur[t] # NoRun => Repaired.cur[t] # NoRun
      BY <3>1
    <3> QED
      BY <1>2, <1>4, <3>2
  <2> QED
    BY <1>4, <2>1, <2>2, ClaimedByClaim
<1> QED
  BY <1>3, <1>4, SnapshotsWritten


----------------------------------------------------------------------------
LEMMA LoadInvLoads == LoadInv => StoreLoads
<1> SUFFICES ASSUME LoadInv PROVE StoreLoads
  OBVIOUS
<1>1. ~(meta.sequence > Len(journal))
  BY DEF LoadInv, SequenceFits, OwnInv, IInv, TypeOK, StoreTypeOK, Metas
<1>2. ~\E i \in DOMAIN journal :
         /\ journal[i].kind = "turn_start" /\ journal[i].turn \in Unclaimed
         /\ i <= meta.sequence
  BY DEF LoadInv, SequenceFits, Unclaimed
<1>3. ~(Cardinality(ActiveTurns(Reconciled)) > 1)
  <2>1. CASE ActiveTurns(Reconciled) = {}
    BY <2>1, FS_EmptySet
  <2>2. ASSUME NEW t \in ActiveTurns(Reconciled) PROVE ~(Cardinality(ActiveTurns(Reconciled)) > 1)
    <3>1. ActiveTurns(Reconciled) = {t}
      BY <2>2 DEF ActiveTurns, LoadInv, OneActive
    <3> QED
      BY <3>1, FS_Singleton
  <2> QED
    BY <2>1, <2>2
<1>4. ~\E t \in Turns : IntentApplies(Reconciled, t) /\ ckpt[intent[t].run] # intent[t].status
  BY DEF LoadInv, IntentIsTrue, IntentApplies
<1> QED
  BY <1>1, <1>2, <1>3, <1>4 DEF StoreLoads, LoadError, LoadInv, SnapshotsFit

LEMMA InitLoad == Init => LoadInv
<1> SUFFICES ASSUME Init PROVE LoadInv
  OBVIOUS
<1>1. OwnInv
  BY InitOwn
<1>2. SequenceFits
  BY DEF Init, StoreInit, SequenceFits
<1>3. \A r \in Runs : Repaired.run[r] = Absent
  BY <1>1, RepairedFit DEF Init, Early
<1>4. \A t \in Turns : Repaired.cur[t] = NoRun
  BY <1>1, <1>3, RepairedFit
<1>5. OneActive
  <2>1. \A t \in Turns : Reconciled.cur[t] = NoRun
    BY <1>1, <1>4, RepairedView
  <2> QED
    BY <2>1 DEF OneActive, IsActive, TurnStatus, ActiveStatuses, Absent
<1>6. IntentIsTrue
  BY IdentityAssumption DEF Init, StoreInit, IntentIsTrue, NoIntent
<1>7. SnapshotsFit
  BY <1>4 DEF Init, StoreInit, SnapshotsFit, ActiveTurns, IsActive, TurnStatus, ActiveStatuses, Absent
<1> QED
  BY <1>1, <1>2, <1>5, <1>6, <1>7 DEF LoadInv

LEMMA NextLoad == LoadInv /\ [Next]_vars => LoadInv'
<1> SUFFICES ASSUME LoadInv, [Next]_vars PROVE LoadInv'
  OBVIOUS
<1> USE DEF LoadInv
<1>1. OwnInv'
  BY NextOwn
<1>2. CASE Next
  <2>1. IInv' /\ NameInv'
    BY <1>1 DEF OwnInv
  <2> PICK r \in Runs : Writes(r)
    BY <1>2, <2>1, StepWrites
  <2> QED
    BY <1>1, <1>2, <2>1, SequenceStep, OneActiveStep, IntentStep, SnapshotsStep
<1>3. CASE UNCHANGED vars
  <2>1. UNCHANGED <<journal, meta, intent, ckpt, snapshots, turnOf, pc, goal>>
    BY <1>3 DEF vars, storeVars, procVars
  <2>2. Reconciled' = Reconciled /\ Repaired' = Repaired
    BY <2>1, UnwrittenReconciled, UnwrittenView
  <2> QED
    BY <1>1, <2>1, <2>2 DEF SequenceFits, OneActive, IntentIsTrue, SnapshotsFit, IsActive, TurnStatus,
                            ClaimedTurns, ActiveTurns
<1> QED
  BY <1>2, <1>3

(* Whatever a crash or an I/O error left in the files, the next load does  *)
(* not raise, and an active Turn has the snapshot a resume needs.          *)
THEOREM LoadNeverFails == Spec => []StoreLoads
BY InitLoad, NextLoad, LoadInvLoads, PTL DEF Spec


----------------------------------------------------------------------------
(* Without I/O errors a process never holds a status that is not on disk,  *)
(* and a Turn only becomes terminal with a status that is.                 *)
Closing == {"settled", "reporting", "failing", "ended"}

MemoryIsSaved == \A r \in Runs : memory[r] # Absent => memory[r] = ckpt[r]

SettledIsSaved == \A r \in Runs : pc[r] = "settled" => ckpt[r] = goal[r]

TerminalIsSaved ==
  \A t \in Turns : TurnStatus(Repaired, t) \in TerminalStatuses =>
    /\ pc[Repaired.cur[t]] \in Closing
    /\ ckpt[Repaired.cur[t]] = TurnStatus(Repaired, t)

SavedInv == OwnInv /\ MemoryIsSaved /\ SettledIsSaved /\ TerminalIsSaved

(* A checkpoint is written by its own process, with the object it holds. *)
Saves(r) ==
  /\ \A s \in Runs : s # r => /\ pc'[s] = pc[s] /\ ckpt'[s] = ckpt[s]
                              /\ memory'[s] = memory[s] /\ goal'[s] = goal[s]
  /\ \/ memory'[r] = Absent
     \/ memory'[r] = ckpt'[r]
     \/ memory'[r] = memory[r] /\ ckpt'[r] = ckpt[r]
  /\ pc'[r] = "settled" => ckpt'[r] = goal'[r]
  /\ (pc[r] \in Closing /\ memory[r] # "created") => pc'[r] \in Closing /\ ckpt'[r] = ckpt[r]
  /\ (pc[r] \in Closing /\ memory[r] = "created" /\ ckpt'[r] # ckpt[r]) => pc[r] = "failing"

LEMMA GotoSaves ==
  ASSUME OwnInv, NEW r \in Runs, NEW point, Goto(r, point), point # "settled",
         UNCHANGED <<ckpt, memory>>, pc[r] \in Closing => point \in Closing,
         goal' = goal \/ \E status : goal' = [goal EXCEPT ![r] = status]
  PROVE  Saves(r)
BY DEF Goto, Saves, OwnInv, IInv, ProcInv, ProcTypeOK

LEMMA EndSaves ==
  ASSUME OwnInv, NEW r \in Runs, End(r),
         ckpt' = ckpt \/ (pc[r] \notin Closing /\ ckpt' = [ckpt EXCEPT ![r] = Absent])
  PROVE  Saves(r)
BY SplitTypeOK DEF End, Goto, Saves, OwnInv, IInv, ProcInv, ProcTypeOK, FilesTypeOK, Closing

LEMMA CheckpointSaves ==
  ASSUME OwnInv, NEW r \in Runs, NEW status, NEW point, SaveCheckpoint(r, status),
         pc' = [pc EXCEPT ![r] = point], point = "settled" => status = goal[r],
         pc[r] \notin Closing \/ (pc[r] = "failing" /\ memory[r] = "created")
  PROVE  Saves(r)
BY SplitTypeOK DEF SaveCheckpoint, Saves, OwnInv, IInv, ProcInv, ProcTypeOK, FilesTypeOK

LEMMA InterruptedSaves ==
  ASSUME OwnInv, NEW r \in Runs, NEW handler \in {"cleanup", "failing"}, Interrupted(r, handler),
         ckpt' = ckpt, pc[r] \notin Closing
  PROVE  Saves(r)
BY GotoSaves, EndSaves DEF Interrupted, KeepLocals

LEMMA StepSaves ==
  ASSUME OwnInv, "error" \notin Faults, NEW r \in Runs,
         \/ \E t \in Turns : PlanFresh(r, t)
         \/ \E p \in Runs : ReadCheckpoint(r, p)
         \/ PlanResume(r) \/ Bootstrap(r)
         \/ Claim(r) \/ Execute(r) \/ Fail(r)
  PROVE  Saves(r)
<1> USE DEF Closing
<1>1. CASE \/ \E t \in Turns : PlanFresh(r, t)
           \/ \E p \in Runs : ReadCheckpoint(r, p)
           \/ PlanResume(r) \/ Bootstrap(r)
  BY <1>1, GotoSaves, EndSaves, CheckpointSaves
     DEF PlanFresh, ReadCheckpoint, PlanResume, Bootstrap, KeepFiles, KeepLocals, EndKeepingFiles,
         Goto
<1>2. CASE Claim(r)
  <2>1. ASSUME NEW writes \in 0..3, StartTurn(r, writes) PROVE Saves(r)
    BY <2>1, GotoSaves, InterruptedSaves DEF StartTurn
  <2>2. CASE ClaimResume(r) \/ StartTurnRefused(r) \/ ClaimResumeRefused(r)
    BY <2>2, GotoSaves, InterruptedSaves
       DEF ClaimResume, StartTurnRefused, ClaimResumeRefused, Refused, KeepFiles, KeepLocals
  <2>3. CASE Cleanup(r)
    BY <2>3, EndSaves DEF Cleanup
  <2> QED
    BY <1>2, <2>1, <2>2, <2>3 DEF Claim
<1>3. CASE \/ BeginRunning(r) \/ DenyTool(r) \/ AdvanceCursor(r) \/ Suspend(r)
           \/ FailCreated(r) \/ WriteTerminal(r)
  <2>1. FailCreated(r) => pc' = [pc EXCEPT ![r] = "failing"]
    BY DEF FailCreated, OwnInv, IInv, ProcInv, ProcTypeOK
  <2> QED
    BY <1>3, <2>1, CheckpointSaves
       DEF BeginRunning, DenyTool, AdvanceCursor, Suspend, FailCreated, WriteTerminal, Goto
<1>4. CASE Announce(r) \/ FinishTurn(r) \/ PrepareTerminal(r)
  BY <1>4, GotoSaves
     DEF Announce, RecordRun, FinishTurn, PrepareTerminal, KeepFiles, KeepLocals
<1>5. CASE Report(r) \/ RecordFailure(r) \/ Crash(r)
  BY <1>5, EndSaves DEF Report, RecordFailure, Crash, EndKeepingFiles
<1>6. ASSUME NEW status \in TerminalStatuses, Finalize(r, status) PROVE Saves(r)
  <2>1. ckpt' = ckpt
    BY <1>6 DEF Finalize, Refused, KeepFiles
  <2> QED
    BY <1>6, <2>1, GotoSaves, InterruptedSaves DEF Finalize, Refused, KeepLocals
<1> QED
  BY <1>1, <1>2, <1>3, <1>4, <1>5, <1>6 DEF Execute, Fail, Raise, CheckpointWriteFails

LEMMA TerminalStep ==
  ASSUME SavedInv, IInv', Next, NEW r \in Runs, Saves(r), Contract,
         \/ SameShown \/ \E s \in Runs : NewOwner(s)
         \/ /\ Announce(r) \/ FinishTurn(r) \/ Report(r) \/ RecordFailure(r)
            /\ ShownAs(r, NewStatus(r))
         \/ WriteTerminal(r) /\ ShownAs(r, goal[r])
  PROVE  TerminalIsSaved'
<1> SUFFICES ASSUME NEW t \in Turns, TurnStatus(Repaired, t)' \in TerminalStatuses
             PROVE  /\ pc'[Repaired'.cur[t]] \in Closing
                    /\ ckpt'[Repaired'.cur[t]] = TurnStatus(Repaired, t)'
  BY DEF TerminalIsSaved, TurnStatus
<1>1. /\ Repaired \in Metas /\ ProcInv /\ OwnInv
      /\ Absent \notin TerminalStatuses /\ "created" \notin TerminalStatuses
      /\ "running" \notin TerminalStatuses
  BY RepairedView DEF SavedInv, OwnInv, IInv, TerminalStatuses, Absent
<1>2. CASE TurnStatus(Repaired, t) \in TerminalStatuses
  <2> PICK s \in Runs : s = Repaired.cur[t]
    BY <1>1, <1>2, RepairedFit DEF TurnStatus
  <2>1. /\ TurnStatus(Repaired, t)' = TurnStatus(Repaired, t)
        /\ Repaired'.cur[t] = s
    BY <1>1, <1>2, FrozenStep
  <2>2. pc[s] \in Closing /\ ckpt[s] = TurnStatus(Repaired, t)
    BY <1>2 DEF SavedInv, TerminalIsSaved
  <2>3. memory[s] # "created"
    BY <1>1, <1>2, <2>2 DEF SavedInv, MemoryIsSaved, Absent
  <2>4. pc'[s] \in Closing /\ ckpt'[s] = ckpt[s]
    BY <2>2, <2>3 DEF Saves
  <2> QED
    BY <2>1, <2>2, <2>4
<1>3. CASE TurnStatus(Repaired, t) \notin TerminalStatuses
  <2>1. ~SameShown
    BY <1>3 DEF SameShown, TurnStatus
  <2>2. ASSUME NEW s \in Runs, NewOwner(s) PROVE FALSE
    <3>1. /\ \A u \in Turns : Repaired'.cur[u] = IF u = turnOf[s] THEN s ELSE Repaired.cur[u]
          /\ \A q \in Runs : Repaired'.run[q] = IF q = s THEN "created" ELSE Repaired.run[q]
      BY <1>1, <2>2 DEF NewOwner, Metas
    <3>2. TurnStatus(Repaired, t)' \in {TurnStatus(Repaired, t), "created"}
      BY <1>1, <3>1, RepairedFit DEF TurnStatus
    <3> QED
      BY <1>1, <1>3, <3>2
  <2>3. ASSUME NEW status, ShownAs(r, status)
        PROVE  Repaired'.cur[t] = r /\ TurnStatus(Repaired, t)' = status
    <3>1. /\ Repaired'.cur = Repaired.cur
          /\ Repaired'.run = [Repaired.run EXCEPT ![r] = status]
      BY <2>1, <2>3 DEF ShownAs, SameShown
    <3>2. \A q \in Runs : Repaired'.run[q] = IF q = r THEN status ELSE Repaired.run[q]
      BY <1>1, <3>1 DEF Metas
    <3>3. Repaired'.cur[t] # NoRun /\ Repaired'.cur[t] \in Runs
      BY <1>1, <3>1, RepairedFit DEF TurnStatus
    <3> QED
      BY <1>3, <3>1, <3>2, <3>3 DEF TurnStatus
  <2>4. CASE /\ Announce(r) \/ FinishTurn(r) \/ Report(r) \/ RecordFailure(r)
             /\ ShownAs(r, NewStatus(r))
    <3>1. Repaired'.cur[t] = r /\ TurnStatus(Repaired, t)' = NewStatus(r)
      BY <2>3, <2>4
    <3>2. ckpt' = ckpt /\ pc[r] \in {"announce"} \cup Closing /\ pc[r] # "ended"
      BY <2>4 DEF Announce, RecordRun, FinishTurn, Report, RecordFailure, KeepFiles,
                  EndKeepingFiles, Closing
    <3>3. pc[r] # "announce"
      BY <1>1, <3>1 DEF NewStatus
    <3>4. ckpt[r] = NewStatus(r)
      BY <1>1, <3>2, <3>3 DEF NewStatus, SavedInv, SettledIsSaved, MemoryIsSaved,
                              BootedHasCheckpoint, ProcInv, Unbooted, Closing
    <3>5. memory[r] # "created"
      BY <1>1, <3>1, <3>4 DEF SavedInv, MemoryIsSaved, Absent
    <3>6. pc'[r] \in Closing
      BY <3>2, <3>3, <3>5 DEF Saves
    <3> QED
      BY <3>1, <3>2, <3>4, <3>6
  <2>5. CASE WriteTerminal(r) /\ ShownAs(r, goal[r])
    <3>1. Repaired'.cur[t] = r /\ TurnStatus(Repaired, t)' = goal[r]
      BY <2>3, <2>5
    <3>2. pc'[r] = "settled" /\ ckpt'[r] = goal[r]
      BY <1>1, <2>5, SplitTypeOK
         DEF WriteTerminal, Goto, SaveCheckpoint, OwnInv, IInv, ProcInv, ProcTypeOK, FilesTypeOK
    <3> QED
      BY <3>1, <3>2 DEF Closing
  <2> QED
    BY <2>1, <2>2, <2>4, <2>5
<1> QED
  BY <1>2, <1>3

LEMMA NextSaved ==
  ASSUME "error" \notin Faults
  PROVE  SavedInv /\ [Next]_vars => SavedInv'
<1> SUFFICES ASSUME SavedInv, [Next]_vars PROVE SavedInv'
  OBVIOUS
<1>1. OwnInv' /\ IInv' /\ Contract /\ OwnInv
  BY NextOwn DEF SavedInv, OwnInv
<1>2. CASE Next
  <2> PICK r \in Runs : \/ \E t \in Turns : PlanFresh(r, t)
                        \/ \E p \in Runs : ReadCheckpoint(r, p)
                        \/ PlanResume(r) \/ Bootstrap(r)
                        \/ Claim(r) \/ Execute(r) \/ Fail(r)
    BY <1>2 DEF Next
  <2>1. Saves(r)
    BY <1>1, StepSaves
  <2>2. MemoryIsSaved' /\ SettledIsSaved'
    BY <2>1 DEF SavedInv, MemoryIsSaved, SettledIsSaved, Saves
  <2>3. \/ SameShown \/ \E s \in Runs : NewOwner(s)
        \/ /\ Announce(r) \/ FinishTurn(r) \/ Report(r) \/ RecordFailure(r)
           /\ ShownAs(r, NewStatus(r))
        \/ WriteTerminal(r) /\ ShownAs(r, goal[r])
    <3>1. \A writes \in 0..3 : StartTurn(r, writes) => SameShown \/ NewOwner(r)
      BY <1>1, StartTurnContract
    <3>2. CASE Claim(r)
      BY <1>1, <3>1, <3>2, ClaimResumeContract, RepairOnlySteps DEF Claim
    <3>3. CASE Execute(r)
      BY <1>1, <3>3, UnwrittenSteps, RecordSteps, FinalizeContract, PrepareTerminalContract,
         WriteTerminalContract DEF Execute
    <3>4. CASE Fail(r)
      BY <1>1, <3>4, RepairOnlySteps, UnwrittenSteps, RecordSteps DEF Fail
    <3> QED
      BY <1>1, <3>2, <3>3, <3>4, PlanSteps
  <2>4. TerminalIsSaved'
    BY <1>1, <1>2, <2>1, <2>3, TerminalStep
  <2> QED
    BY <1>1, <2>2, <2>4 DEF SavedInv
<1>3. CASE UNCHANGED vars
  <2>1. UNCHANGED <<journal, meta, intent, ckpt, pc, goal, memory>>
    BY <1>3 DEF vars, storeVars, procVars
  <2>2. Repaired' = Repaired
    BY <1>1, <2>1, UnwrittenView
  <2> QED
    BY <1>1, <2>1, <2>2 DEF SavedInv, MemoryIsSaved, SettledIsSaved, TerminalIsSaved, TurnStatus
<1> QED
  BY <1>2, <1>3

(* Whatever crashes, a Turn is shown terminal only when the checkpoint of  *)
(* its Run is durable with that status, as long as no write fails: when a  *)
(* checkpoint cannot be saved, the exception path records the status of    *)
(* the object in thread.json all the same.                                 *)
THEOREM TerminalTurnsAreSaved == "error" \notin Faults => (Spec => []TerminalTurnHasCheckpoint)
<1> SUFFICES ASSUME "error" \notin Faults PROVE Spec => []TerminalTurnHasCheckpoint
  OBVIOUS
<1>1. Init => SavedInv
  <2> SUFFICES ASSUME Init PROVE SavedInv
    OBVIOUS
  <2>1. OwnInv
    BY InitOwn
  <2>2. \A t \in Turns : TurnStatus(Repaired, t) = Absent
    BY <2>1, RepairedFit DEF Init, Early, TurnStatus
  <2>3. Absent \notin TerminalStatuses
    BY DEF Absent, TerminalStatuses
  <2> QED
    BY <2>1, <2>2, <2>3 DEF Init, SavedInv, MemoryIsSaved, SettledIsSaved, TerminalIsSaved
<1>2. SavedInv => TerminalTurnHasCheckpoint
  BY DEF SavedInv, TerminalIsSaved, TerminalTurnHasCheckpoint
<1>3. SavedInv /\ [Next]_vars => SavedInv'
  BY NextSaved
<1> QED
  BY <1>1, <1>2, <1>3, PTL DEF Spec
=============================================================================
