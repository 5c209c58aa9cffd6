------------------------ MODULE TurnOwnershipProofs ------------------------
(***************************************************************************)
(* RunOwnership implements the ownership contract of TurnOwnership, for    *)
(* any number of Turns and Runs, any interleaving of their processes and   *)
(* any faults: every step, seen through the repair of the next load, is a  *)
(* step of the contract or changes nothing. From the same invariant: a     *)
(* terminal Turn stays as it is, and the attempts of a Turn do not fork.   *)
(***************************************************************************)
EXTENDS RunOwnershipProofs

(* Points before a claim, with the checkpoint running, and from which a    *)
(* terminal intent is on disk.                                             *)
Early   == {"idle", "restoring", "planned", "booted"}
AtWork  == {"announce", "running", "finalizing", "prepared"}
Late    == {"prepared", "settled", "reporting", "failing", "ended"}

EarlyIsBare ==
  \A r \in Runs :
    /\ pc[r] \in {"idle", "restoring", "planned"}
         => ckpt[r] = Absent /\ memory[r] = Absent /\ goal[r] = Absent
    /\ pc[r] = "idle" => parent[r] = NoRun

AtWorkIsSaved ==
  \A r \in Runs : pc[r] \in AtWork => ckpt[r] = "running" /\ memory[r] = "running"

(* Only a Run about to write its terminal checkpoint, or past it, has an   *)
(* intent, and it writes no other checkpoint any more.                     *)
IntentIsLate ==
  \A t \in Turns : intent[t].run \in Runs =>
    pc[intent[t].run] \in Late /\ memory[intent[t].run] # "created"

(* Whoever holds or claims a completed status has the answer in the journal. *)
CompletedIsAnswered ==
  \A r \in Runs : "completed" \in {ckpt[r], memory[r], goal[r]} => HasFinal(turnOf[r])

ParentIsOfTurn ==
  \A r \in Runs : parent[r] # NoRun =>
    /\ pc[parent[r]] \notin {"idle", "restoring", "planned"}
    /\ ckpt[parent[r]] # Absent => turnOf[parent[r]] = turnOf[r]

LocalInv ==
  EarlyIsBare /\ AtWorkIsSaved /\ IntentIsLate /\ CompletedIsAnswered /\ ParentIsOfTurn

EarlyIsUnknown ==
  \A r \in Runs : pc[r] \in Early =>
    meta.run[r] = Absent /\ \A t \in Turns : ~StartedBy(t, r)

OwnerIsOfTurn ==
  /\ \A t \in Turns : meta.cur[t] # NoRun =>
       turnOf[meta.cur[t]] = t /\ meta.run[meta.cur[t]] # Absent
  /\ \A r \in Runs : meta.run[r] # Absent => meta.cur[turnOf[r]] # NoRun
  /\ \A t \in Turns, r \in Runs : StartedBy(t, r) => turnOf[r] = t

NameInv == EarlyIsUnknown /\ OwnerIsOfTurn

OwnInv == IInv /\ LocalInv /\ NameInv

----------------------------------------------------------------------------
(* The process part of the invariant, for each way a process can move.     *)
LEMMA EndKeepsLocal ==
  ASSUME IInv, LocalInv, NEW r \in Runs, End(r), intent' = intent,
         \A t : HasFinal(t) => HasFinal(t)',
         ckpt' = ckpt \/ ckpt' = [ckpt EXCEPT ![r] = Absent]
  PROVE  LocalInv'
<1> USE DEF LocalInv, ProcTypeOK, FilesTypeOK
<1>1. ProcTypeOK /\ FilesTypeOK /\ RunHasTurn
  BY SplitTypeOK DEF IInv, ProcInv
<1>2. /\ pc' = [pc EXCEPT ![r] = "ended"]
      /\ memory' = [memory EXCEPT ![r] = Absent]
      /\ goal' = [goal EXCEPT ![r] = Absent]
  BY DEF End, Goto
<1>3. /\ \A s \in Runs : ckpt'[s] # Absent => turnOf'[s] = turnOf[s] /\ ckpt'[s] = ckpt[s]
      /\ \A s \in Runs : s # r => turnOf'[s] = turnOf[s] /\ parent'[s] = parent[s]
                                  /\ ckpt'[s] = ckpt[s]
      /\ \/ ckpt'[r] = Absent /\ parent'[r] = NoRun
         \/ ckpt'[r] # Absent /\ parent'[r] = parent[r] /\ turnOf'[r] = turnOf[r]
  BY <1>1 DEF End
<1>4. EarlyIsBare' /\ AtWorkIsSaved'
  BY <1>1, <1>2, <1>3 DEF EarlyIsBare, AtWorkIsSaved, AtWork
<1>5. IntentIsLate'
  BY <1>1, <1>2 DEF IntentIsLate, Late, Absent
<1>6. CompletedIsAnswered'
  <2> SUFFICES ASSUME NEW s \in Runs, "completed" \in {ckpt'[s], memory'[s], goal'[s]}
               PROVE  HasFinal(turnOf[s])'
    BY DEF CompletedIsAnswered
  <2>1. CASE s = r
    <3>1. ckpt'[s] = "completed" /\ turnOf'[s] = turnOf[s] /\ ckpt[s] = "completed"
      BY <1>1, <1>2, <1>3, <2>1 DEF Absent
    <3>2. HasFinal(turnOf[s])
      BY <3>1 DEF CompletedIsAnswered
    <3> QED
      BY <3>1, <3>2 DEF HasFinal
  <2>2. CASE s # r
    <3>1. "completed" \in {ckpt[s], memory[s], goal[s]} /\ turnOf'[s] = turnOf[s]
      BY <1>1, <1>2, <1>3, <2>2
    <3>2. HasFinal(turnOf[s])
      BY <3>1 DEF CompletedIsAnswered
    <3> QED
      BY <3>1, <3>2 DEF HasFinal
  <2> QED
    BY <2>1, <2>2
<1>7. ParentIsOfTurn'
  <2> SUFFICES ASSUME NEW s \in Runs, parent'[s] # NoRun
               PROVE  /\ pc'[parent'[s]] \notin {"idle", "restoring", "planned"}
                      /\ ckpt'[parent'[s]] # Absent => turnOf'[parent'[s]] = turnOf'[s]
    BY DEF ParentIsOfTurn
  <2>1. parent'[s] = parent[s] /\ turnOf'[s] = turnOf[s] /\ parent[s] \in Runs
    BY <1>1, <1>3
  <2> QED
    BY <1>1, <1>2, <1>3, <2>1 DEF ParentIsOfTurn
<1> QED
  BY <1>4, <1>5, <1>6, <1>7

LEMMA GotoKeepsLocal ==
  ASSUME IInv, LocalInv, NEW r \in Runs, NEW point \in Points,
         pc' = [pc EXCEPT ![r] = point],
         UNCHANGED <<intent, ckpt, turnOf, parent, memory>>,
         goal' = goal \/ (\E status \in TerminalStatuses :
                            /\ goal' = [goal EXCEPT ![r] = status]
                            /\ point = "finalizing"
                            /\ status = "completed" => HasFinal(turnOf[r])'),
         \A t : HasFinal(t) => HasFinal(t)',
         point \notin {"idle", "restoring", "planned"} \/ (point = "planned" /\ pc[r] = "restoring"),
         point \in AtWork => ckpt[r] = "running" /\ memory[r] = "running",
         pc[r] \in Late => point \in Late
  PROVE  LocalInv'
<1> USE DEF LocalInv, ProcTypeOK, FilesTypeOK
<1>1. ProcTypeOK /\ FilesTypeOK
  BY SplitTypeOK DEF IInv, ProcInv
<1>2. \A s \in Runs : pc'[s] = IF s = r THEN point ELSE pc[s]
  BY <1>1
<1>3. EarlyIsBare' /\ AtWorkIsSaved'
  BY <1>1, <1>2 DEF EarlyIsBare, AtWorkIsSaved
<1>4. IntentIsLate'
  BY <1>1, <1>2 DEF IntentIsLate
<1>5. CompletedIsAnswered'
  <2> SUFFICES ASSUME NEW s \in Runs, "completed" \in {ckpt[s], memory[s], goal'[s]}
               PROVE  HasFinal(turnOf[s])'
    BY DEF CompletedIsAnswered
  <2>1. "completed" \in {ckpt[s], memory[s], goal[s]} \/ (s = r /\ HasFinal(turnOf[r])')
    BY <1>1
  <2> QED
    BY <2>1 DEF CompletedIsAnswered
<1>6. ParentIsOfTurn'
  <2> SUFFICES ASSUME NEW s \in Runs, parent[s] # NoRun
               PROVE  /\ pc'[parent[s]] \notin {"idle", "restoring", "planned"}
                      /\ ckpt[parent[s]] # Absent => turnOf[parent[s]] = turnOf[s]
    BY DEF ParentIsOfTurn
  <2> QED
    BY <1>1, <1>2 DEF ParentIsOfTurn
<1> QED
  BY <1>3, <1>4, <1>5, <1>6

LEMMA SaveKeepsLocal ==
  ASSUME IInv, LocalInv, NEW r \in Runs, NEW status \in Statuses \ {Absent}, NEW point \in Points,
         SaveCheckpoint(r, status), pc' = [pc EXCEPT ![r] = point],
         point \notin {"idle", "restoring", "planned"},
         point \in AtWork => status = "running",
         pc[r] \in Late => point \in Late /\ status # "created",
         pc[r] = "planned" \/ pc[r] \notin Unbooted,
         status = "completed" => HasFinal(turnOf[r])
  PROVE  LocalInv'
<1> USE DEF LocalInv, ProcTypeOK, FilesTypeOK
<1>1. ProcTypeOK /\ FilesTypeOK
  BY SplitTypeOK DEF IInv, ProcInv
<1>2. /\ UNCHANGED <<journal, intent, turnOf, parent, goal>>
      /\ \A s \in Runs : pc'[s] = IF s = r THEN point ELSE pc[s]
      /\ \A s \in Runs : ckpt'[s] = IF s = r THEN status ELSE ckpt[s]
      /\ \A s \in Runs : memory'[s] = IF s = r THEN status ELSE memory[s]
  BY <1>1 DEF SaveCheckpoint
<1>3. EarlyIsBare' /\ AtWorkIsSaved'
  BY <1>1, <1>2 DEF EarlyIsBare, AtWorkIsSaved
<1>4. IntentIsLate'
  BY <1>1, <1>2 DEF IntentIsLate
<1>5. CompletedIsAnswered'
  BY <1>1, <1>2 DEF CompletedIsAnswered, HasFinal
<1>6. ParentIsOfTurn'
  <2> SUFFICES ASSUME NEW s \in Runs, parent[s] # NoRun
               PROVE  /\ pc'[parent[s]] \notin {"idle", "restoring", "planned"}
                      /\ ckpt'[parent[s]] # Absent => turnOf[parent[s]] = turnOf[s]
    BY <1>2 DEF ParentIsOfTurn
  <2>1. parent[s] \in Runs
    BY <1>1
  <2>2. parent[s] = r => ckpt[r] # Absent
    BY <2>1, SplitTypeOK DEF ParentIsOfTurn, IInv, ProcInv, BootedHasCheckpoint, Unbooted
  <2> QED
    BY <1>1, <1>2, <2>1, <2>2 DEF ParentIsOfTurn
<1> QED
  BY <1>3, <1>4, <1>5, <1>6

LEMMA PlanFreshLocal ==
  ASSUME IInv, LocalInv, NEW r \in Runs, NEW t \in Turns, PlanFresh(r, t)
  PROVE  LocalInv'
<1> USE DEF LocalInv, ProcTypeOK, FilesTypeOK
<1>1. ProcTypeOK /\ FilesTypeOK /\ ProcInv
  BY SplitTypeOK DEF IInv, ProcInv
<1>2. /\ pc[r] = "idle" /\ UNCHANGED <<journal, intent, ckpt, parent, memory, goal>>
      /\ \A s \in Runs : pc'[s] = IF s = r THEN "planned" ELSE pc[s]
      /\ \A s \in Runs : turnOf'[s] = IF s = r THEN t ELSE turnOf[s]
  BY <1>1 DEF PlanFresh, Goto
<1>3. /\ ckpt[r] = Absent /\ memory[r] = Absent /\ goal[r] = Absent
      /\ parent[r] = NoRun
  BY <1>2 DEF EarlyIsBare
<1>4. EarlyIsBare' /\ AtWorkIsSaved' /\ IntentIsLate'
  BY <1>1, <1>2, <1>3 DEF EarlyIsBare, AtWorkIsSaved, IntentIsLate, AtWork, Late
<1>5. CompletedIsAnswered'
  <2> SUFFICES ASSUME NEW s \in Runs, "completed" \in {ckpt[s], memory[s], goal[s]}
               PROVE  HasFinal(turnOf[s])'
    BY <1>2 DEF CompletedIsAnswered
  <2>1. s # r /\ turnOf'[s] = turnOf[s]
    BY <1>2, <1>3 DEF Absent
  <2> QED
    BY <1>2, <2>1 DEF CompletedIsAnswered, HasFinal
<1>6. ParentIsOfTurn'
  <2> SUFFICES ASSUME NEW s \in Runs, parent[s] # NoRun
               PROVE  /\ pc'[parent[s]] \notin {"idle", "restoring", "planned"}
                      /\ ckpt[parent[s]] # Absent => turnOf'[parent[s]] = turnOf'[s]
    BY <1>2 DEF ParentIsOfTurn
  <2>1. s # r /\ parent[s] \in Runs /\ parent[s] # r
    BY <1>1, <1>2, <1>3 DEF ParentIsOfTurn
  <2> QED
    BY <1>1, <1>2, <2>1 DEF ParentIsOfTurn
<1> QED
  BY <1>4, <1>5, <1>6

LEMMA ReadCheckpointLocal ==
  ASSUME IInv, LocalInv, NEW r \in Runs, NEW p \in Runs, ReadCheckpoint(r, p)
  PROVE  LocalInv'
<1> USE DEF LocalInv, ProcTypeOK, FilesTypeOK
<1>1. ProcTypeOK /\ FilesTypeOK /\ ProcInv
  BY SplitTypeOK DEF IInv, ProcInv
<1>2. /\ pc[r] = "idle" /\ UNCHANGED <<journal, intent, ckpt, memory, goal>>
      /\ \A s \in Runs : pc'[s] = IF s = r THEN "restoring" ELSE pc[s]
      /\ \A s \in Runs : turnOf'[s] = IF s = r THEN turnOf[p] ELSE turnOf[s]
      /\ \A s \in Runs : parent'[s] = IF s = r THEN p ELSE parent[s]
      /\ ckpt[p] # Absent
  BY <1>1 DEF ReadCheckpoint, Goto, ActiveStatuses, Absent
<1>3. /\ ckpt[r] = Absent /\ memory[r] = Absent /\ goal[r] = Absent /\ p # r
      /\ pc[p] \notin {"idle", "restoring", "planned"}
  BY <1>2 DEF EarlyIsBare
<1>4. EarlyIsBare' /\ AtWorkIsSaved' /\ IntentIsLate'
  <2>1. EarlyIsBare'
    BY <1>1, <1>2, <1>3 DEF EarlyIsBare
  <2>2. AtWorkIsSaved' /\ IntentIsLate'
    BY <1>1, <1>2 DEF AtWorkIsSaved, IntentIsLate, AtWork, Late
  <2> QED
    BY <2>1, <2>2
<1>5. CompletedIsAnswered'
  <2> SUFFICES ASSUME NEW s \in Runs, "completed" \in {ckpt[s], memory[s], goal[s]}
               PROVE  HasFinal(turnOf[s])'
    BY <1>2 DEF CompletedIsAnswered
  <2>1. s # r /\ turnOf'[s] = turnOf[s]
    BY <1>2, <1>3 DEF Absent
  <2> QED
    BY <1>2, <2>1 DEF CompletedIsAnswered, HasFinal
<1>6. ParentIsOfTurn'
  <2> SUFFICES ASSUME NEW s \in Runs, parent'[s] # NoRun
               PROVE  /\ pc'[parent'[s]] \notin {"idle", "restoring", "planned"}
                      /\ ckpt[parent'[s]] # Absent => turnOf'[parent'[s]] = turnOf'[s]
    BY <1>2 DEF ParentIsOfTurn
  <2>1. CASE s = r
    BY <1>2, <1>3, <2>1
  <2>2. CASE s # r
    <3>1. parent'[s] = parent[s] /\ parent[s] \in Runs /\ parent[s] # r
      BY <1>1, <1>2, <2>2 DEF ParentIsOfTurn
    <3> QED
      BY <1>1, <1>2, <2>2, <3>1 DEF ParentIsOfTurn
  <2> QED
    BY <2>1, <2>2
<1> QED
  BY <1>4, <1>5, <1>6

LEMMA InterruptedKeepsLocal ==
  ASSUME IInv, LocalInv, NEW r \in Runs, NEW handler \in {"cleanup", "failing"},
         Interrupted(r, handler), ckpt' = ckpt, intent' = intent,
         \A t : HasFinal(t) => HasFinal(t)',
         pc[r] \notin Late \/ handler = "failing"
  PROVE  LocalInv'
<1>1. CASE Goto(r, handler) /\ KeepLocals /\ UNCHANGED turnOf
  BY <1>1, GotoKeepsLocal DEF Goto, KeepLocals, Points, AtWork, Late
<1>2. CASE End(r)
  BY <1>2, EndKeepsLocal
<1> QED
  BY <1>1, <1>2 DEF Interrupted

(* The journal only grows. *)
LEMMA AnswersStay ==
  ASSUME IInv
  PROVE  /\ journal' = journal => \A t : HasFinal(t) <=> HasFinal(t)'
         /\ \A item \in Items : journal' = Append(journal, item) =>
              \A t : HasFinal(t)' <=> HasFinal(t) \/ (item.kind = "final" /\ item.turn = t)
<1>1. journal' = journal => \A t : HasFinal(t) <=> HasFinal(t)'
  BY DEF HasFinal
<1>2. ASSUME NEW item \in Items, journal' = Append(journal, item)
      PROVE  \A t : HasFinal(t)' <=> HasFinal(t) \/ (item.kind = "final" /\ item.turn = t)
  <2>1. journal \in Seq(Items)
    BY DEF IInv, TypeOK, StoreTypeOK
  <2>2. /\ DOMAIN journal = 1..Len(journal) /\ Len(journal) \in Nat
        /\ DOMAIN journal' = 1..(Len(journal) + 1)
        /\ \A i \in 1..Len(journal) : journal'[i] = journal[i]
        /\ journal'[Len(journal) + 1] = item
    BY <1>2, <2>1
  <2>3. DOMAIN journal' = DOMAIN journal \cup {Len(journal) + 1}
    BY <2>2
  <2> QED
    BY <2>2, <2>3 DEF HasFinal
<1> QED
  BY <1>1, <1>2

LEMMA ClaimLocal ==
  ASSUME IInv, LocalInv, NEW r \in Runs, PlanResume(r) \/ Bootstrap(r) \/ Claim(r)
  PROVE  LocalInv'
<1> USE DEF Points, Late, AtWork
<1>1. CASE PlanResume(r)
  <2>1. pc[r] = "restoring"
    BY <1>1 DEF PlanResume
  <2>2. CASE Goto(r, "planned") /\ KeepFiles /\ KeepLocals
    BY <2>1, <2>2, AnswersStay, GotoKeepsLocal DEF Goto, KeepFiles, KeepLocals
  <2>3. CASE EndKeepingFiles(r)
    BY <2>3, AnswersStay, EndKeepsLocal DEF EndKeepingFiles
  <2> QED
    BY <1>1, <2>2, <2>3 DEF PlanResume
<1>2. CASE Bootstrap(r)
  BY <1>2, SaveKeepsLocal DEF Bootstrap, Goto, Statuses, ActiveStatuses, Absent
<1>3. ASSUME NEW writes \in 0..3, StartTurn(r, writes) PROVE LocalInv'
  <2>1. pc[r] = "booted" /\ UNCHANGED <<intent, ckpt>>
    BY <1>3 DEF StartTurn
  <2>2. \A t : HasFinal(t) => HasFinal(t)'
    <3>1. Item("turn_start", turnOf[r], r) \in Items
      BY <2>1 DEF IInv, ProcInv, RunHasTurn, Live, Item, Items
    <3> QED
      BY <1>3, <3>1, AnswersStay DEF StartTurn
  <2>3. CASE writes < 3
    BY <1>3, <2>1, <2>2, <2>3, InterruptedKeepsLocal DEF StartTurn
  <2>4. CASE ~(writes < 3)
    BY <1>3, <2>1, <2>2, <2>4, GotoKeepsLocal DEF StartTurn, Goto
  <2> QED
    BY <2>3, <2>4
<1>4. CASE StartTurnRefused(r) \/ ClaimResumeRefused(r)
  <2>1. pc[r] = "booted" /\ Goto(r, "cleanup") /\ KeepFiles /\ KeepLocals
    BY <1>4 DEF StartTurnRefused, ClaimResumeRefused, Refused
  <2> QED
    BY <2>1, AnswersStay, GotoKeepsLocal DEF Goto, KeepFiles, KeepLocals
<1>5. CASE ClaimResume(r)
  <2>1. pc[r] = "booted" /\ UNCHANGED <<journal, intent, ckpt>>
    BY <1>5 DEF ClaimResume
  <2>2. CASE Goto(r, "created") /\ KeepLocals /\ UNCHANGED turnOf
    BY <2>1, <2>2, AnswersStay, GotoKeepsLocal DEF Goto, KeepLocals
  <2>3. CASE Interrupted(r, "cleanup")
    BY <2>1, <2>3, AnswersStay, InterruptedKeepsLocal
  <2> QED
    BY <1>5, <2>2, <2>3 DEF ClaimResume
<1>6. CASE Cleanup(r)
  BY <1>6, AnswersStay, EndKeepsLocal DEF Cleanup
<1> QED
  BY <1>1, <1>2, <1>3, <1>4, <1>5, <1>6 DEF Claim

LEMMA SavesLocal ==
  ASSUME IInv, LocalInv, NEW r \in Runs,
         \/ BeginRunning(r) \/ DenyTool(r) \/ AdvanceCursor(r) \/ Suspend(r)
         \/ WriteTerminal(r) \/ FailCreated(r)
  PROVE  LocalInv'
<1> USE DEF Points, Late, AtWork, Unbooted, Statuses, ActiveStatuses, TerminalStatuses, Absent
<1>1. CASE BeginRunning(r)
  BY <1>1, SaveKeepsLocal DEF BeginRunning, Goto
<1>2. CASE DenyTool(r)
  BY <1>2, SaveKeepsLocal DEF DenyTool, Goto
<1>3. CASE AdvanceCursor(r)
  BY <1>3, SaveKeepsLocal DEF AdvanceCursor, Goto
<1>4. CASE Suspend(r)
  BY <1>4, SaveKeepsLocal DEF Suspend, Goto
<1>5. CASE WriteTerminal(r)
  <2>1. pc[r] = "prepared" /\ Goto(r, "settled") /\ SaveCheckpoint(r, goal[r])
    BY <1>5 DEF WriteTerminal
  <2>2. goal[r] \in TerminalStatuses
    BY <2>1 DEF IInv, ProcInv, GoalIsTerminal
  <2>3. goal[r] = "completed" => HasFinal(turnOf[r])
    BY DEF LocalInv, CompletedIsAnswered
  <2> QED
    BY <2>1, <2>2, <2>3, SaveKeepsLocal DEF Goto
<1>6. CASE FailCreated(r)
  <2>1. pc[r] = "failing" /\ pc' = [pc EXCEPT ![r] = "failing"] /\ SaveCheckpoint(r, "failed")
    BY <1>6 DEF FailCreated, IInv, ProcInv, ProcTypeOK
  <2> QED
    BY <2>1, SaveKeepsLocal
<1> QED
  BY <1>1, <1>2, <1>3, <1>4, <1>5, <1>6

LEMMA FinalizeLocal ==
  ASSUME IInv, LocalInv, NEW r \in Runs, NEW status \in TerminalStatuses, Finalize(r, status)
  PROVE  LocalInv'
<1> USE DEF Points, Late, AtWork
<1>1. pc[r] = "running" /\ ckpt[r] = "running" /\ memory[r] = "running"
  BY DEF Finalize, LocalInv, AtWorkIsSaved
<1>2. CASE /\ status # "completed" \/ HasFinal(turnOf[r])
           /\ goal' = [goal EXCEPT ![r] = status] /\ Goto(r, "finalizing")
           /\ KeepFiles /\ UNCHANGED <<parent, planned, memory>>
  <2>1. \A t : HasFinal(t) => HasFinal(t)'
    BY <1>2, AnswersStay DEF KeepFiles
  <2>2. status = "completed" => HasFinal(turnOf[r])'
    BY <1>2 DEF KeepFiles, HasFinal
  <2> QED
    BY <1>1, <1>2, <2>1, <2>2, GotoKeepsLocal DEF Goto, KeepFiles
<1>3. CASE /\ journal' = Append(journal, Item("final", turnOf[r], r))
           /\ UNCHANGED <<intent, ckpt, snapshots, revision>>
           /\ \/ /\ goal' = [goal EXCEPT ![r] = status]
                 /\ Goto(r, "finalizing")
                 /\ UNCHANGED <<turnOf, parent, planned, memory>>
              \/ Interrupted(r, "failing")
  <2>1. Item("final", turnOf[r], r) \in Items
    BY <1>1 DEF IInv, ProcInv, RunHasTurn, Live, Item, Items
  <2>2. \A t : HasFinal(t)' <=> HasFinal(t) \/ turnOf[r] = t
    BY <1>3, <2>1, AnswersStay DEF Item
  <2>3. CASE Interrupted(r, "failing")
    BY <1>1, <1>3, <2>2, <2>3, InterruptedKeepsLocal
  <2>4. CASE goal' = [goal EXCEPT ![r] = status] /\ Goto(r, "finalizing")
             /\ UNCHANGED <<turnOf, parent, planned, memory>>
    <3>1. HasFinal(turnOf[r])'
      BY <2>2, <2>4 DEF HasFinal
    <3> QED
      BY <1>1, <1>3, <2>2, <2>4, <3>1, GotoKeepsLocal DEF Goto
  <2> QED
    BY <1>3, <2>3, <2>4
<1>4. CASE Refused(r, "failing")
  BY <1>1, <1>4, AnswersStay, GotoKeepsLocal DEF Refused, Goto, KeepFiles, KeepLocals
<1> QED
  BY <1>2, <1>3, <1>4 DEF Finalize

LEMMA PrepareTerminalLocal ==
  ASSUME IInv, LocalInv, NEW r \in Runs, PrepareTerminal(r)
  PROVE  LocalInv'
<1> USE DEF LocalInv, ProcTypeOK, FilesTypeOK
<1>1. ProcTypeOK /\ FilesTypeOK
  BY SplitTypeOK DEF IInv, ProcInv
<1>2. /\ pc[r] = "finalizing" /\ UNCHANGED <<journal, ckpt, turnOf, parent, memory, goal>>
      /\ \A s \in Runs : s # r => pc'[s] = pc[s]
      /\ pc'[r] \in {"prepared", "failing"}
      /\ \A t \in Turns : intent'[t] = intent[t] \/ (pc'[r] = "prepared" /\ intent'[t].run = r)
  BY <1>1 DEF PrepareTerminal, Goto, KeepLocals
<1>3. ckpt[r] = "running" /\ memory[r] = "running"
  BY <1>2 DEF AtWorkIsSaved, AtWork
<1>4. EarlyIsBare' /\ AtWorkIsSaved'
  BY <1>1, <1>2, <1>3 DEF EarlyIsBare, AtWorkIsSaved, AtWork
<1>5. IntentIsLate'
  <2> SUFFICES ASSUME NEW t \in Turns, intent'[t].run \in Runs
               PROVE  pc'[intent'[t].run] \in Late /\ memory[intent'[t].run] # "created"
    BY <1>2 DEF IntentIsLate
  <2>1. CASE intent'[t].run = r
    BY <1>2, <1>3, <2>1 DEF Late
  <2>2. CASE intent'[t].run # r
    BY <1>2, <2>2 DEF IntentIsLate
  <2> QED
    BY <2>1, <2>2
<1>6. CompletedIsAnswered'
  BY <1>2 DEF CompletedIsAnswered, HasFinal
<1>7. ParentIsOfTurn'
  <2> SUFFICES ASSUME NEW s \in Runs, parent[s] # NoRun
               PROVE  /\ pc'[parent[s]] \notin {"idle", "restoring", "planned"}
                      /\ ckpt[parent[s]] # Absent => turnOf[parent[s]] = turnOf[s]
    BY <1>2 DEF ParentIsOfTurn
  <2> QED
    BY <1>1, <1>2 DEF ParentIsOfTurn
<1> QED
  BY <1>4, <1>5, <1>6, <1>7

LEMMA CheckpointWriteFailsLocal ==
  ASSUME IInv, LocalInv, NEW r \in Runs, CheckpointWriteFails(r)
  PROVE  LocalInv'
<1> USE DEF LocalInv, ProcTypeOK, FilesTypeOK
<1>1. ProcTypeOK /\ FilesTypeOK
  BY SplitTypeOK DEF IInv, ProcInv
<1>2. /\ pc[r] \in {"created", "running", "prepared"}
      /\ UNCHANGED <<journal, intent, ckpt, turnOf, parent, goal>>
      /\ \A s \in Runs : pc'[s] = IF s = r THEN "failing" ELSE pc[s]
      /\ \A s \in Runs : s # r => memory'[s] = memory[s]
  BY <1>1 DEF CheckpointWriteFails, Goto, KeepFiles
<1>3. /\ memory'[r] # "created"
      /\ memory'[r] = "completed" => HasFinal(turnOf[r])
  <2>1. CASE pc[r] = "created" /\ memory' = [memory EXCEPT ![r] = RestoredStatus(r)]
    <3>1. memory'[r] = RestoredStatus(r) /\ RestoredStatus(r) # "created"
      BY <1>1, <2>1 DEF RestoredStatus
    <3>2. CASE RestoredStatus(r) = "completed"
      <4>1. parent[r] \in Runs /\ ckpt[parent[r]] = "completed"
        BY <1>1, <3>2 DEF RestoredStatus
      <4>2. HasFinal(turnOf[parent[r]]) /\ turnOf[parent[r]] = turnOf[r]
        BY <4>1, IdentityAssumption DEF CompletedIsAnswered, ParentIsOfTurn, Absent
      <4> QED
        BY <3>1, <4>2
    <3> QED
      BY <3>1, <3>2
  <2>2. CASE pc[r] = "running" /\ \E s \in {"blocked", "waiting"} :
               memory' = [memory EXCEPT ![r] = s]
    BY <1>1, <2>2
  <2>3. CASE pc[r] = "prepared" /\ memory' = [memory EXCEPT ![r] = goal[r]]
    <3>1. goal[r] \in TerminalStatuses
      BY <2>3 DEF IInv, ProcInv, GoalIsTerminal
    <3> QED
      BY <1>1, <2>3, <3>1 DEF CompletedIsAnswered, TerminalStatuses
  <2> QED
    BY <2>1, <2>2, <2>3 DEF CheckpointWriteFails
<1>4. EarlyIsBare' /\ AtWorkIsSaved'
  BY <1>1, <1>2 DEF EarlyIsBare, AtWorkIsSaved, AtWork
<1>5. IntentIsLate'
  BY <1>1, <1>2, <1>3 DEF IntentIsLate, Late
<1>6. CompletedIsAnswered'
  BY <1>2, <1>3 DEF CompletedIsAnswered, HasFinal
<1>7. ParentIsOfTurn'
  <2> SUFFICES ASSUME NEW s \in Runs, parent[s] # NoRun
               PROVE  /\ pc'[parent[s]] \notin {"idle", "restoring", "planned"}
                      /\ ckpt[parent[s]] # Absent => turnOf[parent[s]] = turnOf[s]
    BY <1>2 DEF ParentIsOfTurn
  <2> QED
    BY <1>1, <1>2 DEF ParentIsOfTurn
<1> QED
  BY <1>4, <1>5, <1>6, <1>7

LEMMA RecordsLocal ==
  ASSUME IInv, LocalInv, NEW r \in Runs,
         \/ Announce(r) \/ FinishTurn(r) \/ Report(r)
         \/ Raise(r) \/ RecordFailure(r) \/ Crash(r)
  PROVE  LocalInv'
<1>1. CASE Report(r) \/ RecordFailure(r) \/ Crash(r)
  BY <1>1, AnswersStay, EndKeepsLocal DEF Report, RecordFailure, Crash, EndKeepingFiles
<1>2. CASE Announce(r) \/ FinishTurn(r) \/ Raise(r)
  <2>1. /\ KeepFiles /\ KeepLocals
        /\ \/ pc[r] = "announce" /\ \E point \in {"running", "failing"} : Goto(r, point)
           \/ pc[r] = "settled" /\ \E point \in {"reporting", "failing"} : Goto(r, point)
           \/ Goto(r, "failing")
    BY <1>2 DEF Announce, RecordRun, FinishTurn, Raise
  <2>2. pc[r] = "announce" => ckpt[r] = "running" /\ memory[r] = "running"
    BY DEF LocalInv, AtWorkIsSaved, AtWork
  <2> QED
    BY <2>1, <2>2, AnswersStay, GotoKeepsLocal
       DEF Goto, KeepFiles, KeepLocals, Points, AtWork, Late
<1> QED
  BY <1>1, <1>2

LEMMA NextLocal == ASSUME IInv, LocalInv, Next PROVE LocalInv'
BY PlanFreshLocal, ReadCheckpointLocal, ClaimLocal, SavesLocal, FinalizeLocal,
   PrepareTerminalLocal, CheckpointWriteFailsLocal, RecordsLocal
   DEF Next, Claim, Execute, Fail

----------------------------------------------------------------------------
(* What a load of the Thread sees: every Turn and its owner know each      *)
(* other, and a Run that has not claimed is not seen.                      *)
LEMMA StarterIsFirst ==
  ASSUME StoreInv, NameInv, NEW t \in Unclaimed, NEW r \in Runs, StartedBy(t, r)
  PROVE  FirstRun(t) = r
<1>1. meta.cur[t] = NoRun /\ t \in Turns
  BY DEF Unclaimed
<1>2. StartedBy(t, FirstRun(t)) /\ FirstRun(t) \in Runs
  BY DEF FirstRun
<1>3. meta.run[r] = Absent
  BY <1>1 DEF NameInv, OwnerIsOfTurn
<1> QED
  BY <1>1, <1>2, <1>3 DEF StoreInv, StarterIsKnown

LEMMA ReconciledView ==
  ASSUME OwnInv
  PROVE  /\ Reconciled \in Metas
         /\ \A t \in Turns : Reconciled.cur[t] = IF t \in Unclaimed THEN FirstRun(t) ELSE meta.cur[t]
         /\ \A r \in Runs : Reconciled.run[r] = IF \E t \in Unclaimed : StartedBy(t, r)
                                                THEN "created" ELSE meta.run[r]
<1>1. StoreTypeOK /\ StoreInv /\ meta \in Metas
  BY DEF OwnInv, IInv, TypeOK, StoreTypeOK
<1>2. Reconciled \in Metas
  BY <1>1, ReconciledFacts
<1>3. \A t \in Unclaimed, r \in Runs : FirstRun(t) = r <=> StartedBy(t, r)
  <2>1. \A t \in Unclaimed : StartedBy(t, FirstRun(t))
    BY DEF FirstRun, Unclaimed, Started
  <2> QED
    BY <1>1, <2>1, StarterIsFirst DEF OwnInv
<1>4. CASE Unclaimed = {}
  BY <1>1, <1>2, <1>4 DEF Reconciled, Metas
<1>5. CASE Unclaimed # {}
  <2>1. Reconciled =
          [cur |-> [t \in Turns |-> IF t \in Unclaimed THEN FirstRun(t) ELSE meta.cur[t]],
           run |-> [r \in Runs |-> IF \E t \in Unclaimed : FirstRun(t) = r
                                   THEN "created" ELSE meta.run[r]],
           sequence |-> Len(journal)]
    BY <1>5 DEF Reconciled
  <2> QED
    BY <1>2, <1>3, <2>1
<1> QED
  BY <1>4, <1>5

LEMMA RepairedView ==
  ASSUME OwnInv
  PROVE  /\ Repaired \in Metas /\ Repaired.cur = Reconciled.cur
         /\ \A r \in Runs : Repaired.run[r] =
              IF \E t \in Settled(Reconciled) : Reconciled.cur[t] = r
              THEN ckpt[r] ELSE Reconciled.run[r]
<1>1. StoreTypeOK /\ StoreInv
  BY DEF OwnInv, IInv, TypeOK
<1>2. Repaired \in Metas /\ Reconciled \in Metas
  BY <1>1, RepairedFacts, ReconciledFacts
<1> QED
  BY <1>2 DEF Repaired, Metas

LEMMA RepairedFit ==
  ASSUME OwnInv
  PROVE  /\ \A t \in Turns : Repaired.cur[t] # NoRun =>
              /\ Repaired.cur[t] \in Runs /\ turnOf[Repaired.cur[t]] = t
              /\ Repaired.run[Repaired.cur[t]] # Absent
         /\ \A r \in Runs : Repaired.run[r] # Absent =>
              /\ turnOf[r] \in Turns /\ Repaired.cur[turnOf[r]] # NoRun
              /\ pc[r] \notin Early /\ ckpt[r] # Absent
<1>1. StoreTypeOK /\ StoreInv /\ RunHasTurn /\ NameInv
  BY DEF OwnInv, IInv, ProcInv, TypeOK
<1>2. \A t \in Unclaimed : /\ FirstRun(t) \in Runs /\ StartedBy(t, FirstRun(t))
                           /\ t \in Turns /\ meta.cur[t] = NoRun
  BY DEF FirstRun, Unclaimed, Started
<1>3. \A t \in Turns : Reconciled.cur[t] # NoRun =>
        /\ Reconciled.cur[t] \in Runs /\ turnOf[Reconciled.cur[t]] = t
        /\ Reconciled.run[Reconciled.cur[t]] # Absent
  <2> SUFFICES ASSUME NEW t \in Turns, Reconciled.cur[t] # NoRun
               PROVE  /\ Reconciled.cur[t] \in Runs /\ turnOf[Reconciled.cur[t]] = t
                      /\ Reconciled.run[Reconciled.cur[t]] # Absent
    OBVIOUS
  <2>1. Reconciled.cur[t] \in Runs
    BY ReconciledView DEF Metas
  <2>2. CASE t \in Unclaimed
    BY <1>1, <1>2, <2>1, <2>2, ReconciledView DEF NameInv, OwnerIsOfTurn, Absent
  <2>3. CASE t \notin Unclaimed
    BY <1>1, <2>1, <2>3, ReconciledView DEF NameInv, OwnerIsOfTurn, Absent
  <2> QED
    BY <2>2, <2>3
<1>4. \A r \in Runs : Repaired.run[r] # Absent => ckpt[r] # Absent
  BY <1>1, RepairedFacts
<1>5. \A t \in Settled(Reconciled) : ckpt[Reconciled.cur[t]] # Absent /\ t \in Turns /\ Reconciled.cur[t] \in Runs
  BY DEF Settled, IntentApplies, TerminalStatuses, Absent
<1>6. \A r \in Runs : Repaired.run[r] # Absent <=> Reconciled.run[r] # Absent
  <2>1. \A t \in Settled(Reconciled) : Reconciled.run[Reconciled.cur[t]] # Absent
    BY <1>3, <1>5, IdentityAssumption
  <2> QED
    BY <1>5, <2>1, RepairedView
<1>7. ASSUME NEW r \in Runs, Reconciled.run[r] # Absent
      PROVE  turnOf[r] \in Turns /\ Reconciled.cur[turnOf[r]] # NoRun /\ pc[r] \notin Early
  <2>1. turnOf[r] \in Turns
    BY <1>1, <1>4, <1>6, <1>7 DEF RunHasTurn
  <2>2. CASE meta.run[r] # Absent
    BY <1>1, <1>2, <2>1, <2>2, ReconciledView, IdentityAssumption
       DEF NameInv, OwnerIsOfTurn, EarlyIsUnknown
  <2>3. CASE \E t \in Unclaimed : StartedBy(t, r)
    BY <1>1, <1>2, <2>1, <2>3, ReconciledView, IdentityAssumption
       DEF NameInv, OwnerIsOfTurn, EarlyIsUnknown
  <2> QED
    BY <1>7, <2>2, <2>3, ReconciledView
<1> QED
  BY <1>3, <1>4, <1>6, <1>7, RepairedView

(* Nothing is left to settle in repaired metadata. *)
LEMMA NothingLeft ==
  ASSUME OwnInv, NEW t \in Turns
  PROVE  ~IntentApplies(Repaired, t)
<1> SUFFICES ASSUME IntentApplies(Repaired, t) PROVE FALSE
  OBVIOUS
<1> DEFINE r == Repaired.cur[t]
<1>1. /\ intent[t].run = r /\ r \in Runs /\ ckpt[r] \in TerminalStatuses
      /\ r # NoRun /\ Repaired.run[r] \in ActiveStatuses
  BY IdentityAssumption DEF IntentApplies, IsActive, TurnStatus
<1>2. Reconciled.cur[t] = r
  BY RepairedView
<1>3. TerminalStatuses \cap ActiveStatuses = {}
  BY DEF TerminalStatuses, ActiveStatuses
<1>4. CASE \E u \in Settled(Reconciled) : Reconciled.cur[u] = r
  BY <1>1, <1>3, <1>4, RepairedView
<1>5. CASE ~\E u \in Settled(Reconciled) : Reconciled.cur[u] = r
  <2>1. Reconciled.run[r] \in ActiveStatuses
    BY <1>1, <1>5, RepairedView
  <2>2. t \in Settled(Reconciled)
    BY <1>1, <1>2, <2>1 DEF Settled, IntentApplies, IsActive, TurnStatus
  <2> QED
    BY <1>2, <1>5, <2>2
<1> QED
  BY <1>4, <1>5

(* A load of files that need no repair sees what they say. *)
LEMMA CleanView ==
  ASSUME meta' \in Metas, Len(journal') \in Nat,
         \A t \in Turns : meta'.cur[t] = NoRun => \A r \in Runs : ~StartedBy(t, r)',
         \A t \in Turns : ~IntentApplies(meta, t)'
  PROVE  Repaired'.cur = meta'.cur /\ Repaired'.run = meta'.run
<1>1. Unclaimed' = {}
  BY DEF Unclaimed, Started
<1>2. Reconciled' = [meta' EXCEPT !.sequence = Len(journal')]
  BY <1>1 DEF Reconciled
<1>3. Reconciled'.cur = meta'.cur /\ Reconciled'.run = meta'.run
  BY <1>2 DEF Metas
<1>4. \A t \in Turns : ~IntentApplies(Reconciled, t)'
  BY <1>3 DEF IntentApplies, IsActive, TurnStatus
<1>5. Settled(Reconciled)' = {}
  BY <1>4 DEF Settled
<1>6. Repaired' = Reconciled'
  BY <1>5 DEF Repaired
<1> QED
  BY <1>3, <1>6

(* A step that writes neither journal nor thread.json leaves the load, up  *)
(* to what a terminal checkpoint settles.                                  *)
LEMMA UnwrittenReconciled ==
  ASSUME UNCHANGED <<journal, meta>>
  PROVE  Reconciled' = Reconciled
<1>1. Unclaimed' = Unclaimed
  BY DEF Unclaimed, Started, StartedBy
<1>2. \A t : FirstRun(t)' = FirstRun(t)
  BY DEF FirstRun, StartedBy
<1> QED
  BY <1>1, <1>2 DEF Reconciled

LEMMA UnwrittenView ==
  ASSUME OwnInv, UNCHANGED <<journal, meta, intent>>,
         \A t \in Turns : intent[t].run \in Runs => ckpt'[intent[t].run] = ckpt[intent[t].run]
  PROVE  Repaired' = Repaired
<1>1. Reconciled' = Reconciled
  BY UnwrittenReconciled
<1>2. \A t \in Turns : IntentApplies(Reconciled, t)' <=> IntentApplies(Reconciled, t)
  BY <1>1 DEF IntentApplies, IsActive, TurnStatus
<1>3. Settled(Reconciled)' = Settled(Reconciled)
  BY <1>2 DEF Settled
<1>4. \A t \in Settled(Reconciled) : ckpt'[Reconciled.cur[t]] = ckpt[Reconciled.cur[t]]
  BY DEF Settled, IntentApplies
<1>5. [r \in Runs |-> IF \E t \in Settled(Reconciled) : Reconciled.cur[t] = r
                      THEN ckpt'[r] ELSE Reconciled.run[r]]
      = [r \in Runs |-> IF \E t \in Settled(Reconciled) : Reconciled.cur[t] = r
                        THEN ckpt[r] ELSE Reconciled.run[r]]
  BY <1>4
<1> QED
  BY <1>1, <1>3, <1>5 DEF Repaired

----------------------------------------------------------------------------
(* What a step is to the contract. *)
Contract == [Ownership!Next]_(Ownership!ownershipVars)

Answered == {t \in Turns : HasFinal(t)}

(* A Run seen by a load keeps its Turn. *)
SeenStay == \A s \in Runs : Repaired.run[s] # Absent => turnOf'[s] = turnOf[s]

(* No Run is claimed by the step, or one is: the first of its Turn, or the *)
(* resume of the current owner.                                            *)
KeepsNames ==
  /\ Repaired'.cur = Repaired.cur
  /\ \A s \in Runs : Repaired'.run[s] # Absent <=> Repaired.run[s] # Absent

(* The Thread shows the same, or only the status of r is new. *)
SameShown == Repaired'.cur = Repaired.cur /\ Repaired'.run = Repaired.run

ShownAs(r, status) ==
  /\ Repaired'.cur = Repaired.cur
  /\ Repaired'.run = Repaired.run \/ Repaired'.run = [Repaired.run EXCEPT ![r] = status]

NewOwner(r) ==
  /\ turnOf[r] \in Turns /\ turnOf'[r] = turnOf[r] /\ parent'[r] = parent[r]
  /\ Repaired.run[r] = Absent
  /\ Repaired'.cur = [Repaired.cur EXCEPT ![turnOf[r]] = r]
  /\ Repaired'.run = [Repaired.run EXCEPT ![r] = "created"]
  /\ \/ parent[r] = NoRun /\ Repaired.cur[turnOf[r]] = NoRun
     \/ parent[r] # NoRun /\ parent[r] = Repaired.cur[turnOf[r]]

LEMMA SameView ==
  ASSUME OwnInv, SeenStay, Repaired'.cur = Repaired.cur, Repaired'.run = Repaired.run
  PROVE  UNCHANGED <<PublishedState, PublishedOwner, PublishedAttempts>>
<1>1. PublishedState' = PublishedState
  BY DEF PublishedState, IsActive, TurnStatus
<1>2. PublishedAttempts' = PublishedAttempts
  <2>1. \A t \in Turns, s \in Runs : (Claimed(Repaired, s) /\ turnOf[s] = t)
                                     <=> (Repaired'.run[s] # Absent /\ turnOf'[s] = t)
    BY DEF SeenStay, Claimed
  <2> QED
    BY <2>1 DEF PublishedAttempts, Claimed
<1> QED
  BY <1>1, <1>2 DEF PublishedOwner

LEMMA QuietContract ==
  ASSUME OwnInv, SeenStay, Repaired'.cur = Repaired.cur, Repaired'.run = Repaired.run,
         \A t : HasFinal(t) <=> HasFinal(t)'
  PROVE  Contract /\ KeepsNames
<1>1. Answered' = Answered
  BY DEF Answered
<1>2. KeepsNames
  BY DEF KeepsNames
<1>3. Contract
  BY <1>1, SameView DEF Contract, Ownership!ownershipVars, Answered
<1> QED
  BY <1>2, <1>3

LEMMA AnswerContract ==
  ASSUME OwnInv, SeenStay, Repaired'.cur = Repaired.cur, Repaired'.run = Repaired.run,
         NEW t \in Turns, IsActive(Repaired, t), ~HasFinal(t),
         \A u : HasFinal(u)' <=> HasFinal(u) \/ u = t
  PROVE  Contract /\ KeepsNames
<1>1. Answered' = Answered \cup {t} /\ t \notin Answered
  BY DEF Answered
<1>2. PublishedState[t] = "open"
  BY DEF PublishedState, IsActive, TurnStatus, ActiveStatuses, Absent
<1>3. Ownership!Answer(t)
  BY <1>1, <1>2, SameView DEF Ownership!Answer, Answered
<1>4. KeepsNames
  BY DEF KeepsNames
<1> QED
  BY <1>3, <1>4 DEF Contract, Ownership!Next

LEMMA RecordContract ==
  ASSUME OwnInv, SeenStay, NEW r \in Runs, NEW status \in Statuses \ {Absent},
         NEW t \in Turns, turnOf[r] = t, Repaired.cur[t] = r,
         Repaired'.cur = Repaired.cur,
         Repaired'.run = [Repaired.run EXCEPT ![r] = status],
         IsActive(Repaired, t) \/ TurnStatus(Repaired, t) = status,
         status = "completed" => HasFinal(t),
         \A u : HasFinal(u) <=> HasFinal(u)'
  PROVE  Contract /\ KeepsNames
<1>1. /\ Repaired.run \in [Runs -> Statuses] /\ r # NoRun
      /\ \A s \in Runs : Repaired'.run[s] = IF s = r THEN status ELSE Repaired.run[s]
      /\ TurnStatus(Repaired, t) = Repaired.run[r]
      /\ \A u \in Turns : u # t => Repaired.cur[u] # r
      /\ \A u \in Turns : Repaired.cur[u] # NoRun => Repaired.cur[u] \in Runs
  BY RepairedView, RepairedFit, IdentityAssumption DEF TurnStatus, Metas
<1>2. KeepsNames
  BY <1>1, RepairedFit DEF KeepsNames, Absent
<1>3. CASE TurnStatus(Repaired, t) = status
  <2>1. Repaired.run[r] = status
    BY <1>1, <1>3
  <2>2. [Repaired.run EXCEPT ![r] = status] = Repaired.run
    BY <1>1, <2>1
  <2> QED
    BY <2>2, QuietContract
<1>4. CASE IsActive(Repaired, t)
  <2>1. Repaired.run[r] # Absent
    BY <1>1, <1>4 DEF IsActive, ActiveStatuses, Absent
  <2>2. PublishedAttempts' = PublishedAttempts
    <3>1. \A u \in Turns, s \in Runs : (Claimed(Repaired, s) /\ turnOf[s] = u)
                                       <=> (Repaired'.run[s] # Absent /\ turnOf'[s] = u)
      BY <1>1, <2>1 DEF SeenStay, Claimed
    <3> QED
      BY <3>1 DEF PublishedAttempts, Claimed
  <2>3. Answered' = Answered /\ PublishedOwner' = PublishedOwner
    BY DEF Answered, PublishedOwner
  <2>4. PublishedState[t] = "open"
    BY <1>1, <1>4 DEF PublishedState
  <2>5. PublishedState' = [PublishedState EXCEPT ![t] =
                             IF status \in ActiveStatuses THEN "open" ELSE status]
    <3>1. \A u \in Turns : u # t => TurnStatus(Repaired, u)' = TurnStatus(Repaired, u)
      BY <1>1 DEF TurnStatus
    <3>2. TurnStatus(Repaired, t)' = status
      BY <1>1 DEF TurnStatus
    <3> QED
      BY <1>1, <3>1, <3>2 DEF PublishedState, IsActive
  <2>6. CASE status \in ActiveStatuses
    <3>1. PublishedState' = PublishedState
      BY <2>4, <2>5, <2>6 DEF PublishedState
    <3> QED
      BY <1>2, <2>2, <2>3, <3>1 DEF Contract, Ownership!ownershipVars, Answered
  <2>7. CASE status \notin ActiveStatuses
    <3>1. status \in TerminalStatuses
      BY <2>7 DEF Statuses
    <3>2. Ownership!Close(t, status)
      BY <2>2, <2>3, <2>4, <2>5, <2>7 DEF Ownership!Close, Answered
    <3> QED
      BY <1>2, <3>1, <3>2 DEF Contract, Ownership!Next
  <2> QED
    BY <2>6, <2>7
<1> QED
  BY <1>3, <1>4

LEMMA OwnContract ==
  ASSUME OwnInv, SeenStay, NEW r \in Runs, NEW t \in Turns,
         turnOf[r] = t, turnOf'[r] = t, Repaired.run[r] = Absent,
         Repaired'.cur = [Repaired.cur EXCEPT ![t] = r],
         Repaired'.run = [Repaired.run EXCEPT ![r] = "created"],
         \/ ActiveTurns(Repaired) = {} /\ Repaired.cur[t] = NoRun
         \/ IsActive(Repaired, t),
         \A u : HasFinal(u) <=> HasFinal(u)'
  PROVE  Contract
<1>1. /\ Repaired.run \in [Runs -> Statuses] /\ r # NoRun
      /\ \A s \in Runs : Repaired'.run[s] = IF s = r THEN "created" ELSE Repaired.run[s]
      /\ \A u \in Turns : Repaired'.cur[u] = IF u = t THEN r ELSE Repaired.cur[u]
      /\ \A u \in Turns : Repaired.cur[u] # r
      /\ \A u \in Turns : Repaired.cur[u] # NoRun => Repaired.cur[u] \in Runs
  BY RepairedView, RepairedFit, IdentityAssumption DEF Metas
<1>2. PublishedState' = [PublishedState EXCEPT ![t] = "open"]
  <2>1. \A u \in Turns : u # t => TurnStatus(Repaired, u)' = TurnStatus(Repaired, u)
    BY <1>1 DEF TurnStatus
  <2>2. TurnStatus(Repaired, t)' = "created"
    BY <1>1 DEF TurnStatus
  <2> QED
    BY <1>1, <2>1, <2>2 DEF PublishedState, IsActive, ActiveStatuses
<1>3. PublishedOwner' = [PublishedOwner EXCEPT ![t] = r]
  BY DEF PublishedOwner
<1>4. PublishedAttempts' = [PublishedAttempts EXCEPT ![t] = @ \cup {r}]
  <2>1. \A u \in Turns, s \in Runs :
          (Repaired'.run[s] # Absent /\ turnOf'[s] = u)
            <=> \/ Claimed(Repaired, s) /\ turnOf[s] = u
                \/ s = r /\ u = t
    BY <1>1 DEF SeenStay, Claimed, Absent
  <2>2. \A u \in Turns : PublishedAttempts'[u] = IF u = t THEN PublishedAttempts[u] \cup {r}
                                                        ELSE PublishedAttempts[u]
    BY <2>1 DEF PublishedAttempts, Claimed
  <2>3. /\ PublishedAttempts = [u \in Turns |-> PublishedAttempts[u]]
        /\ PublishedAttempts' = [u \in Turns |-> PublishedAttempts'[u]]
    BY DEF PublishedAttempts
  <2> QED
    BY <2>2, <2>3
<1>5. Answered' = Answered
  BY DEF Answered
<1>6. Ownership!Own(t, r)
  <2>1. Ownership!Fresh(r)
    BY DEF Ownership!Fresh, PublishedAttempts, Claimed
  <2> QED
    BY <1>3, <1>4, <1>5, <2>1 DEF Ownership!Own, Answered
<1>7. CASE ActiveTurns(Repaired) = {} /\ Repaired.cur[t] = NoRun
  <2>1. PublishedState[t] = "none" /\ \A u \in Turns : PublishedState[u] # "open"
    BY <1>1, <1>7 DEF PublishedState, ActiveTurns, IsActive, TurnStatus, Statuses, ActiveStatuses,
                      TerminalStatuses, Absent
  <2> QED
    BY <1>2, <1>6, <2>1 DEF Ownership!Open, Contract, Ownership!Next
<1>8. CASE IsActive(Repaired, t)
  <2>1. PublishedState[t] = "open"
    BY <1>8 DEF PublishedState, IsActive, TurnStatus, ActiveStatuses, Absent
  <2>2. PublishedState' = PublishedState
    BY <1>2, <2>1 DEF PublishedState
  <2> QED
    BY <1>6, <2>1, <2>2 DEF Ownership!TakeOver, Contract, Ownership!Next
<1> QED
  BY <1>7, <1>8

----------------------------------------------------------------------------
(* The ways a step can write the Thread: not at all, by the repair alone,  *)
(* by recording the status of an owner, by a new owner.                    *)
NoneTurnsEarly == \A s \in Runs : pc'[s] \in Early => pc[s] \in Early

LEMMA SeenFacts ==
  ASSUME OwnInv
  PROVE  /\ \A r \in Runs : meta.run[r] # Absent => Repaired.run[r] # Absent
         /\ \A t \in Turns, r \in Runs : StartedBy(t, r) => Repaired.run[r] # Absent
         /\ \A t \in Turns : Repaired.cur[t] = NoRun
                => meta.cur[t] = NoRun /\ \A r \in Runs : ~StartedBy(t, r)
         /\ Repaired \in Metas
BY RepairedFacts DEF OwnInv, IInv, TypeOK

LEMMA UnwrittenNames ==
  ASSUME OwnInv, SeenStay, NoneTurnsEarly, UNCHANGED <<journal, meta>>
  PROVE  NameInv'
<1>1. \A t \in Turns, r \in Runs : StartedBy(t, r)' <=> StartedBy(t, r)
  BY DEF StartedBy
<1>2. \A t \in Turns : meta.cur[t] # NoRun => meta.cur[t] \in Runs
  BY DEF OwnInv, IInv, TypeOK, StoreTypeOK, Metas
<1>3. EarlyIsUnknown'
  BY <1>1 DEF OwnInv, NameInv, EarlyIsUnknown, NoneTurnsEarly
<1>4. OwnerIsOfTurn'
  <2>1. \A r \in Runs : meta.run[r] # Absent => turnOf'[r] = turnOf[r]
    BY SeenFacts DEF SeenStay
  <2>2. \A t \in Turns, r \in Runs : StartedBy(t, r) => turnOf'[r] = turnOf[r]
    BY SeenFacts DEF SeenStay
  <2> QED
    BY <1>1, <1>2, <2>1, <2>2 DEF OwnInv, NameInv, OwnerIsOfTurn
<1> QED
  BY <1>3, <1>4 DEF NameInv

LEMMA UnwrittenStep ==
  ASSUME OwnInv, SeenStay, NoneTurnsEarly, UNCHANGED <<journal, meta, intent>>,
         \A t \in Turns : intent[t].run \in Runs => ckpt'[intent[t].run] = ckpt[intent[t].run]
  PROVE  NameInv' /\ Contract /\ KeepsNames /\ SameShown
BY UnwrittenNames, UnwrittenView, QuietContract, AnswersStay DEF OwnInv, SameShown

LEMMA WrittenNames ==
  ASSUME OwnInv, SeenStay, NoneTurnsEarly, meta'.cur = Repaired.cur,
         \A r \in Runs : meta'.run[r] # Absent <=> Repaired.run[r] # Absent,
         \A t \in Turns, r \in Runs : StartedBy(t, r)' <=> StartedBy(t, r)
  PROVE  NameInv'
<1>1. EarlyIsUnknown'
  BY RepairedFit, SeenFacts DEF EarlyIsUnknown, NoneTurnsEarly
<1>2. OwnerIsOfTurn'
  BY RepairedFit, SeenFacts DEF OwnInv, NameInv, OwnerIsOfTurn, SeenStay
<1> QED
  BY <1>1, <1>2 DEF NameInv

LEMMA RepairStep ==
  ASSUME OwnInv, IInv', SeenStay, NoneTurnsEarly,
         meta'.cur = Repaired.cur, meta'.run = Repaired.run,
         \A t \in Turns, r \in Runs : StartedBy(t, r)' <=> StartedBy(t, r),
         \A t \in Turns : intent'[t].run \in Runs =>
           \/ intent'[t].run = intent[t].run /\ ckpt'[intent[t].run] = ckpt[intent[t].run]
           \/ ckpt'[intent'[t].run] \notin TerminalStatuses
  PROVE  NameInv' /\ Repaired'.cur = Repaired.cur /\ Repaired'.run = Repaired.run
<1>1. meta' \in Metas /\ Len(journal') \in Nat
  BY DEF IInv, TypeOK, StoreTypeOK
<1>2. \A t \in Turns : ~IntentApplies(meta, t)'
  <2> SUFFICES ASSUME NEW t \in Turns, IntentApplies(meta, t)' PROVE FALSE
    OBVIOUS
  <2>1. /\ intent'[t].run \in Runs /\ intent'[t].run = Repaired.cur[t]
        /\ ckpt'[intent'[t].run] \in TerminalStatuses
        /\ IsActive(Repaired, t)
    BY DEF IntentApplies, IsActive, TurnStatus
  <2>2. CASE intent'[t].run = intent[t].run /\ ckpt'[intent[t].run] = ckpt[intent[t].run]
    BY <2>1, <2>2, NothingLeft DEF IntentApplies
  <2> QED
    BY <2>1, <2>2
<1>3. Repaired'.cur = meta'.cur /\ Repaired'.run = meta'.run
  BY <1>1, <1>2, SeenFacts, CleanView
<1> QED
  BY <1>3, WrittenNames

LEMMA RepairOnlyStep ==
  ASSUME OwnInv, IInv', SeenStay, NoneTurnsEarly, meta' = Repaired,
         UNCHANGED <<journal, intent>>,
         \A t \in Turns : intent[t].run \in Runs =>
           ckpt'[intent[t].run] = ckpt[intent[t].run] \/ ckpt'[intent[t].run] = Absent
  PROVE  NameInv' /\ Contract /\ KeepsNames /\ SameShown
<1>1. \A t \in Turns, r \in Runs : StartedBy(t, r)' <=> StartedBy(t, r)
  BY DEF StartedBy
<1>2. Absent \notin TerminalStatuses
  BY DEF Absent, TerminalStatuses
<1> QED
  BY <1>1, <1>2, RepairStep, QuietContract, AnswersStay DEF OwnInv, SameShown

(* The status of the owner of a Turn is recorded. *)
LEMMA RecordedStep ==
  ASSUME OwnInv, IInv', SeenStay, NoneTurnsEarly,
         NEW r \in Runs, NEW t \in Turns, NEW status \in Statuses \ {Absent},
         turnOf[r] = t, Repaired.cur[t] = r,
         IsActive(Repaired, t) \/ TurnStatus(Repaired, t) = status,
         status = "completed" => HasFinal(t),
         meta' = WithRun(Repaired, r, status), UNCHANGED <<journal, intent, ckpt>>
  PROVE  NameInv' /\ Contract /\ KeepsNames /\ ShownAs(r, status)
<1>1. /\ Repaired \in Metas /\ r # NoRun
      /\ \A u \in Turns : u # t => Repaired.cur[u] # r
      /\ Repaired.run[r] # Absent
  BY RepairedView, RepairedFit, IdentityAssumption
<1>2. meta'.cur = Repaired.cur /\ meta'.run = [Repaired.run EXCEPT ![r] = status]
  <2>1. meta'.cur = [Repaired.cur EXCEPT ![t] = r] /\ meta'.run = [Repaired.run EXCEPT ![r] = status]
    BY <1>1 DEF WithRun, Metas
  <2>2. Repaired.cur \in [Turns -> Runs \cup {NoRun}]
    BY <1>1 DEF Metas
  <2>3. [Repaired.cur EXCEPT ![t] = r] = Repaired.cur
    BY <2>2
  <2> QED
    BY <2>1, <2>3
<1>3. \A s \in Runs : meta'.run[s] = IF s = r THEN status ELSE Repaired.run[s]
  BY <1>1, <1>2 DEF Metas
<1>4. \A u \in Turns, s \in Runs : StartedBy(u, s)' <=> StartedBy(u, s)
  BY DEF StartedBy
<1>5. NameInv'
  BY <1>1, <1>2, <1>3, <1>4, WrittenNames
<1>6. \A u \in Turns : ~IntentApplies(meta, u)'
  <2> SUFFICES ASSUME NEW u \in Turns, IntentApplies(meta, u)' PROVE FALSE
    OBVIOUS
  <2>1. /\ intent[u].run \in Runs /\ intent[u].run = Repaired.cur[u]
        /\ ckpt[intent[u].run] \in TerminalStatuses
        /\ meta'.run[Repaired.cur[u]] \in ActiveStatuses
    BY <1>2, IdentityAssumption DEF IntentApplies, IsActive, TurnStatus
  <2>2. ~IsActive(Repaired, u)
    BY <2>1, NothingLeft DEF IntentApplies
  <2>3. Repaired.run[Repaired.cur[u]] \notin ActiveStatuses
    BY <2>1, <2>2, IdentityAssumption DEF IsActive, TurnStatus
  <2>4. u = t /\ Repaired.run[r] # status
    BY <1>1, <1>3, <2>1, <2>3
  <2> QED
    BY <1>1, <2>2, <2>4 DEF TurnStatus
<1>7. Repaired'.cur = meta'.cur /\ Repaired'.run = meta'.run
  <2>1. meta' \in Metas /\ Len(journal') \in Nat
    BY DEF IInv, TypeOK, StoreTypeOK
  <2> QED
    BY <1>2, <1>4, <1>6, <2>1, SeenFacts, CleanView
<1>8. ShownAs(r, status)
  BY <1>2, <1>7 DEF ShownAs
<1> QED
  BY <1>2, <1>5, <1>7, <1>8, RecordContract, AnswersStay DEF OwnInv

(* A Run that no load has seen becomes the owner of its Turn, in the       *)
(* metadata or by its turn_start item alone.                               *)
LEMMA OwnedView ==
  ASSUME OwnInv, IInv', NEW r \in Runs, NEW t \in Turns, turnOf[r] = t, turnOf'[r] = t,
         pc[r] = "booted", pc'[r] \notin Early, SeenStay, NoneTurnsEarly,
         UNCHANGED <<intent, ckpt>>, LocalInv,
         \/ /\ meta'.cur = [Repaired.cur EXCEPT ![t] = r]
            /\ meta'.run = [Repaired.run EXCEPT ![r] = "created"]
            /\ \A u \in Turns, s \in Runs :
                 StartedBy(u, s)' => StartedBy(u, s) \/ (u = t /\ s = r)
         \/ /\ meta' = Repaired /\ Repaired.cur[t] = NoRun
            /\ \A u \in Turns, s \in Runs :
                 StartedBy(u, s)' <=> StartedBy(u, s) \/ (u = t /\ s = r)
  PROVE  /\ NameInv'
         /\ Repaired'.cur = [Repaired.cur EXCEPT ![t] = r]
         /\ Repaired'.run = [Repaired.run EXCEPT ![r] = "created"]
<1>1. /\ Repaired \in Metas /\ r # NoRun /\ Repaired.run[r] = Absent
      /\ \A u \in Turns : intent[u].run # r
      /\ \A u \in Turns : Repaired.cur[u] # r
      /\ meta' \in Metas /\ Len(journal') \in Nat
  <2>1. Repaired.run[r] = Absent /\ Repaired \in Metas
    BY RepairedView, RepairedFit DEF Early
  <2>2. \A u \in Turns : intent[u].run # r
    BY DEF LocalInv, IntentIsLate, Late
  <2>3. meta' \in Metas /\ Len(journal') \in Nat
    BY DEF IInv, TypeOK, StoreTypeOK
  <2> QED
    BY <2>1, <2>2, <2>3, RepairedFit, IdentityAssumption
<1> DEFINE cur == [Repaired.cur EXCEPT ![t] = r]
           run == [Repaired.run EXCEPT ![r] = "created"]
<1>2. /\ \A u \in Turns : cur[u] = IF u = t THEN r ELSE Repaired.cur[u]
      /\ \A s \in Runs : run[s] = IF s = r THEN "created" ELSE Repaired.run[s]
  BY <1>1 DEF Metas
<1>3. \A u \in Turns : ~(/\ intent[u].run \in Runs /\ intent[u].run = cur[u]
                         /\ ckpt[intent[u].run] \in TerminalStatuses
                         /\ run[cur[u]] \in ActiveStatuses)
  <2> SUFFICES ASSUME NEW u \in Turns, intent[u].run \in Runs, intent[u].run = cur[u],
                      ckpt[intent[u].run] \in TerminalStatuses, run[cur[u]] \in ActiveStatuses
               PROVE  FALSE
    OBVIOUS
  <2>1. u # t /\ cur[u] = Repaired.cur[u] /\ run[cur[u]] = Repaired.run[Repaired.cur[u]]
    BY <1>1, <1>2
  <2>2. IntentApplies(Repaired, u)
    BY <2>1, IdentityAssumption DEF IntentApplies, IsActive, TurnStatus
  <2> QED
    BY <2>2, NothingLeft
<1>4. EarlyIsUnknown'
  <2> SUFFICES ASSUME NEW s \in Runs, pc'[s] \in Early
               PROVE  meta'.run[s] = Absent /\ \A u \in Turns : ~StartedBy(u, s)'
    BY DEF EarlyIsUnknown
  <2>1. s # r /\ Repaired.run[s] = Absent
    BY RepairedFit DEF NoneTurnsEarly
  <2> QED
    BY <1>2, <2>1, SeenFacts
<1>5. \A s \in Runs : Repaired.run[s] # Absent =>
        turnOf'[s] = turnOf[s] /\ turnOf[s] \in Turns /\ Repaired.cur[turnOf[s]] # NoRun
  BY RepairedFit DEF SeenStay
<1>6. \A u \in Turns, s \in Runs : StartedBy(u, s)' => turnOf'[s] = u
  <2> SUFFICES ASSUME NEW u \in Turns, NEW s \in Runs, StartedBy(u, s)'
               PROVE  turnOf'[s] = u
    OBVIOUS
  <2>1. CASE StartedBy(u, s)
    BY <1>5, <2>1, SeenFacts DEF OwnInv, NameInv, OwnerIsOfTurn
  <2>2. CASE u = t /\ s = r
    BY <2>2
  <2> QED
    BY <2>1, <2>2
<1>7. CASE /\ meta'.cur = cur /\ meta'.run = run
           /\ \A u \in Turns, s \in Runs :
                StartedBy(u, s)' => StartedBy(u, s) \/ (u = t /\ s = r)
  <2>1. OwnerIsOfTurn'
    <3>1. \A u \in Turns : cur[u] # NoRun => turnOf'[cur[u]] = u /\ run[cur[u]] # Absent
      BY <1>1, <1>2, RepairedFit DEF SeenStay, Absent
    <3>2. \A s \in Runs : run[s] # Absent => cur[turnOf'[s]] # NoRun
      BY <1>1, <1>2, <1>5
    <3> QED
      BY <1>6, <1>7, <3>1, <3>2 DEF OwnerIsOfTurn
  <2>2. \A u \in Turns : ~IntentApplies(meta, u)'
    BY <1>3, <1>7, IdentityAssumption DEF IntentApplies, IsActive, TurnStatus
  <2>3. \A u \in Turns : meta'.cur[u] = NoRun => \A s \in Runs : ~StartedBy(u, s)'
    BY <1>1, <1>2, <1>7, SeenFacts
  <2> QED
    BY <1>1, <1>4, <1>7, <2>1, <2>2, <2>3, CleanView DEF NameInv
<1>8. CASE /\ meta' = Repaired /\ Repaired.cur[t] = NoRun
           /\ \A u \in Turns, s \in Runs :
                StartedBy(u, s)' <=> StartedBy(u, s) \/ (u = t /\ s = r)
  <2>1. OwnerIsOfTurn'
    BY <1>5, <1>6, <1>8, RepairedFit DEF OwnerIsOfTurn, SeenStay
  <2>2. Unclaimed' = {t}
    BY <1>8, SeenFacts DEF Unclaimed, Started
  <2>3. FirstRun(t)' = r
    BY <1>8, SeenFacts DEF FirstRun
  <2>4. /\ Reconciled'.cur = [u \in Turns |-> IF u \in {t} THEN FirstRun(u)' ELSE Repaired.cur[u]]
        /\ Reconciled'.run = [s \in Runs |-> IF \E u \in {t} : FirstRun(u)' = s
                                             THEN "created" ELSE Repaired.run[s]]
    BY <1>8, <2>2 DEF Reconciled
  <2>5. Reconciled'.cur = cur /\ Reconciled'.run = run
    <3>1. Reconciled'.cur = [u \in Turns |-> IF u = t THEN r ELSE Repaired.cur[u]]
      BY <2>3, <2>4
    <3>2. Reconciled'.run = [s \in Runs |-> IF s = r THEN "created" ELSE Repaired.run[s]]
      BY <2>3, <2>4
    <3> QED
      BY <1>1, <3>1, <3>2 DEF Metas
  <2>6. Settled(Reconciled)' = {}
    BY <1>3, <2>5, IdentityAssumption DEF Settled, IntentApplies, IsActive, TurnStatus
  <2>7. Repaired' = Reconciled'
    BY <2>6 DEF Repaired
  <2> QED
    BY <1>4, <2>1, <2>5, <2>7 DEF NameInv
<1> QED
  BY <1>7, <1>8

----------------------------------------------------------------------------
(* How processes move, as far as the names of their Runs are concerned. *)
LEMMA GotoNames ==
  ASSUME IInv, NEW r \in Runs, NEW point, Goto(r, point), turnOf' = turnOf,
         point \in Early => pc[r] \in Early
  PROVE  SeenStay /\ NoneTurnsEarly
BY DEF Goto, SeenStay, NoneTurnsEarly, IInv, ProcInv, ProcTypeOK

LEMMA EndNames ==
  ASSUME OwnInv, NEW r \in Runs, End(r),
         ckpt' = ckpt \/ (Repaired.run[r] = Absent /\ ckpt' = [ckpt EXCEPT ![r] = Absent])
  PROVE  SeenStay /\ NoneTurnsEarly
<1>1. ProcTypeOK /\ FilesTypeOK
  BY SplitTypeOK DEF OwnInv, IInv, ProcInv
<1>2. SeenStay
  <2> SUFFICES ASSUME NEW s \in Runs, Repaired.run[s] # Absent PROVE turnOf'[s] = turnOf[s]
    BY DEF SeenStay
  <2>1. ckpt'[s] # Absent
    BY <1>1, RepairedFit DEF FilesTypeOK
  <2> QED
    BY <1>1, <2>1 DEF End, ProcTypeOK
<1>3. NoneTurnsEarly
  BY <1>1 DEF End, Goto, NoneTurnsEarly, Early, ProcTypeOK
<1> QED
  BY <1>2, <1>3

IdentityStays(s) == parent'[s] = parent[s] /\ turnOf'[s] = turnOf[s]

LEMMA ParentStays ==
  ASSUME OwnInv, Next, NEW s \in Runs, Repaired.run[s] # Absent \/ pc[s] = "booted"
  PROVE  IdentityStays(s)
<1> USE DEF IdentityStays, KeepFiles
<1>1. ProcTypeOK /\ pc[s] \notin Early \ {"booted"} /\ ckpt[s] # Absent
  BY RepairedFit DEF OwnInv, IInv, ProcInv, BootedHasCheckpoint, Unbooted, Early
<1>2. PICK r \in Runs : \/ \E t \in Turns : PlanFresh(r, t)
                        \/ \E p \in Runs : ReadCheckpoint(r, p)
                        \/ PlanResume(r) \/ Bootstrap(r)
                        \/ Claim(r) \/ Execute(r) \/ Fail(r)
  BY DEF Next
<1>3. ASSUME End(r), ckpt'[s] # Absent PROVE IdentityStays(s)
  BY <1>1, <1>3 DEF End, ProcTypeOK
<1>4. ASSUME NEW handler, Interrupted(r, handler), ckpt' = ckpt PROVE IdentityStays(s)
  BY <1>1, <1>3, <1>4 DEF Interrupted, KeepLocals
<1>5. CASE \/ \E t \in Turns : PlanFresh(r, t)
           \/ \E p \in Runs : ReadCheckpoint(r, p)
           \/ PlanResume(r) \/ Bootstrap(r)
  BY <1>1, <1>3, <1>5 DEF PlanFresh, ReadCheckpoint, PlanResume, Bootstrap, SaveCheckpoint,
                          EndKeepingFiles, KeepLocals, Early, ProcTypeOK
<1>6. CASE Claim(r)
  <2>1. ASSUME NEW writes \in 0..3, StartTurn(r, writes) PROVE IdentityStays(s)
    BY <1>4, <2>1 DEF StartTurn
  <2>2. CASE ClaimResume(r)
    BY <1>4, <2>2 DEF ClaimResume, KeepLocals
  <2>3. CASE StartTurnRefused(r) \/ ClaimResumeRefused(r)
    BY <2>3 DEF StartTurnRefused, ClaimResumeRefused, Refused, KeepLocals
  <2>4. CASE Cleanup(r)
    <3>1. ckpt'[s] # Absent
      BY <1>1, <2>4, SplitTypeOK DEF Cleanup, Claimed, OwnInv, IInv, FilesTypeOK
    <3> QED
      BY <1>3, <2>4, <3>1 DEF Cleanup
  <2> QED
    BY <1>6, <2>1, <2>2, <2>3, <2>4 DEF Claim
<1>7. CASE Execute(r)
  <2>1. ASSUME NEW status \in TerminalStatuses, Finalize(r, status) PROVE IdentityStays(s)
    BY <1>4, <2>1 DEF Finalize, Refused, KeepLocals
  <2>2. CASE BeginRunning(r) \/ DenyTool(r) \/ AdvanceCursor(r) \/ Suspend(r) \/ WriteTerminal(r)
    BY <2>2 DEF BeginRunning, DenyTool, AdvanceCursor, Suspend, WriteTerminal, SaveCheckpoint
  <2>3. CASE Announce(r) \/ PrepareTerminal(r) \/ FinishTurn(r)
    BY <2>3 DEF Announce, RecordRun, PrepareTerminal, FinishTurn, KeepLocals
  <2>4. CASE Report(r)
    BY <1>1, <1>3, <2>4 DEF Report, EndKeepingFiles
  <2> QED
    BY <1>7, <2>1, <2>2, <2>3, <2>4 DEF Execute
<1>8. CASE Fail(r)
  BY <1>1, <1>3, <1>8 DEF Fail, Raise, CheckpointWriteFails, FailCreated, RecordFailure, Crash,
                          EndKeepingFiles, SaveCheckpoint, KeepLocals
<1> QED
  BY <1>2, <1>5, <1>6, <1>7, <1>8

LEMMA InterruptedNames ==
  ASSUME OwnInv, NEW r \in Runs, NEW handler \in {"cleanup", "failing"},
         Interrupted(r, handler), ckpt' = ckpt
  PROVE  SeenStay /\ NoneTurnsEarly
<1>1. CASE Goto(r, handler) /\ KeepLocals /\ UNCHANGED turnOf
  BY <1>1, GotoNames DEF Early, OwnInv
<1>2. CASE End(r)
  BY <1>2, EndNames
<1> QED
  BY <1>1, <1>2 DEF Interrupted

(* Planning and the steps that write no file but the checkpoint. *)
LEMMA PlanSteps ==
  ASSUME OwnInv, IInv', NEW r \in Runs,
         \/ \E t \in Turns : PlanFresh(r, t)
         \/ \E p \in Runs : ReadCheckpoint(r, p)
         \/ PlanResume(r) \/ Bootstrap(r)
  PROVE  NameInv' /\ Contract /\ KeepsNames /\ SameShown
<1> USE DEF Early
<1>1. ProcTypeOK
  BY DEF OwnInv, IInv, ProcInv
<1>2. ASSUME NEW t \in Turns, PlanFresh(r, t) PROVE NameInv' /\ Contract /\ KeepsNames /\ SameShown
  <2>1. /\ pc[r] = "idle" /\ meta' = Repaired /\ UNCHANGED <<journal, intent, ckpt>>
        /\ \A s \in Runs : s # r => turnOf'[s] = turnOf[s] /\ pc'[s] = pc[s]
    BY <1>1, <1>2 DEF PlanFresh, Goto, ProcTypeOK
  <2>2. SeenStay /\ NoneTurnsEarly
    BY <2>1, RepairedFit DEF SeenStay, NoneTurnsEarly
  <2> QED
    BY <2>1, <2>2, RepairOnlyStep
<1>3. ASSUME NEW p \in Runs, ReadCheckpoint(r, p) PROVE NameInv' /\ Contract /\ KeepsNames /\ SameShown
  <2>1. /\ pc[r] = "idle" /\ UNCHANGED <<journal, meta, intent, ckpt>>
        /\ \A s \in Runs : s # r => turnOf'[s] = turnOf[s] /\ pc'[s] = pc[s]
    BY <1>1, <1>3 DEF ReadCheckpoint, Goto, ProcTypeOK
  <2>2. SeenStay /\ NoneTurnsEarly
    BY <2>1, RepairedFit DEF SeenStay, NoneTurnsEarly
  <2> QED
    BY <2>1, <2>2, UnwrittenStep
<1>4. CASE PlanResume(r)
  <2>1. pc[r] = "restoring" /\ meta' = Repaired /\ UNCHANGED <<journal, intent, ckpt>>
    BY <1>4 DEF PlanResume, KeepFiles, EndKeepingFiles
  <2>2. SeenStay /\ NoneTurnsEarly
    BY <1>4, <2>1, GotoNames, EndNames DEF PlanResume, KeepFiles, EndKeepingFiles, OwnInv
  <2> QED
    BY <2>1, <2>2, RepairOnlyStep
<1>5. CASE Bootstrap(r)
  <2>1. /\ pc[r] = "planned" /\ Goto(r, "booted") /\ turnOf' = turnOf
        /\ UNCHANGED <<journal, meta, intent>> /\ ckpt' = [ckpt EXCEPT ![r] = "created"]
    BY <1>5 DEF Bootstrap, SaveCheckpoint
  <2>2. SeenStay /\ NoneTurnsEarly
    BY <2>1, GotoNames DEF OwnInv
  <2>3. \A t \in Turns : intent[t].run # r
    BY <2>1 DEF OwnInv, LocalInv, IntentIsLate, Late
  <2>4. \A t \in Turns : intent[t].run \in Runs => ckpt'[intent[t].run] = ckpt[intent[t].run]
    BY <2>1, <2>3 DEF OwnInv, IInv, TypeOK, StoreTypeOK
  <2> QED
    BY <2>1, <2>2, <2>4, UnwrittenStep
<1> QED
  BY <1>2, <1>3, <1>4, <1>5


(* Saves of a checkpoint that no intent speaks of, and faults. *)
LEMMA UnwrittenSteps ==
  ASSUME OwnInv, IInv', NEW r \in Runs,
         \/ BeginRunning(r) \/ DenyTool(r) \/ AdvanceCursor(r) \/ Suspend(r) \/ FailCreated(r)
         \/ Raise(r) \/ CheckpointWriteFails(r) \/ Crash(r)
  PROVE  NameInv' /\ Contract /\ KeepsNames /\ SameShown
<1> USE DEF Early, Late
<1>1. IInv /\ ProcTypeOK
  BY DEF OwnInv, IInv, ProcInv
<1>2. ASSUME NEW status, NEW point, SaveCheckpoint(r, status),
             Goto(r, point) \/ UNCHANGED pc, point \notin Early,
             pc[r] \notin Late \/ memory[r] = "created"
      PROVE  NameInv' /\ Contract /\ KeepsNames /\ SameShown
  <2>1. turnOf' = turnOf /\ UNCHANGED <<journal, meta, intent>>
        /\ ckpt' = [ckpt EXCEPT ![r] = status]
    BY <1>2 DEF SaveCheckpoint
  <2>2. SeenStay /\ NoneTurnsEarly
    BY <1>1, <1>2, <2>1, GotoNames DEF SeenStay, NoneTurnsEarly
  <2>3. \A t \in Turns : intent[t].run # r
    BY <1>2 DEF OwnInv, LocalInv, IntentIsLate
  <2>4. \A t \in Turns : intent[t].run \in Runs => ckpt'[intent[t].run] = ckpt[intent[t].run]
    BY <2>1, <2>3
  <2> QED
    BY <2>1, <2>2, <2>4, UnwrittenStep
<1>3. CASE BeginRunning(r) \/ DenyTool(r) \/ AdvanceCursor(r) \/ Suspend(r) \/ FailCreated(r)
  BY <1>2, <1>3 DEF BeginRunning, DenyTool, AdvanceCursor, Suspend, FailCreated
<1>4. CASE Raise(r) \/ CheckpointWriteFails(r) \/ Crash(r)
  <2>1. UNCHANGED <<journal, meta, intent, ckpt>>
    BY <1>4 DEF Raise, CheckpointWriteFails, Crash, KeepFiles, EndKeepingFiles
  <2>2. SeenStay /\ NoneTurnsEarly
    <3>1. CASE Crash(r)
      BY <2>1, <3>1, EndNames DEF Crash, EndKeepingFiles
    <3>2. CASE Raise(r) \/ CheckpointWriteFails(r)
      BY <1>1, <3>2, GotoNames DEF Raise, CheckpointWriteFails, KeepFiles
    <3> QED
      BY <1>4, <3>1, <3>2
  <2> QED
    BY <2>1, <2>2, UnwrittenStep
<1> QED
  BY <1>3, <1>4

(* Steps that only write the repaired metadata back. *)
LEMMA RepairOnlySteps ==
  ASSUME OwnInv, IInv', NEW r \in Runs,
         \/ StartTurnRefused(r) \/ ClaimResumeRefused(r) \/ Cleanup(r)
  PROVE  NameInv' /\ Contract /\ KeepsNames /\ SameShown
<1>1. CASE StartTurnRefused(r) \/ ClaimResumeRefused(r)
  <2>1. meta' = Repaired /\ KeepFiles /\ Goto(r, "cleanup")
    BY <1>1 DEF StartTurnRefused, ClaimResumeRefused, Refused
  <2>2. SeenStay /\ NoneTurnsEarly
    BY <2>1, GotoNames DEF KeepFiles, Early, OwnInv
  <2> QED
    BY <2>1, <2>2, RepairOnlyStep DEF KeepFiles
<1>2. CASE Cleanup(r)
  <2>1. /\ meta' = Repaired /\ UNCHANGED <<journal, intent>> /\ End(r)
        /\ ckpt' = ckpt \/ (Repaired.run[r] = Absent /\ ckpt' = [ckpt EXCEPT ![r] = Absent])
    BY <1>2 DEF Cleanup, Claimed
  <2>2. SeenStay /\ NoneTurnsEarly
    BY <2>1, EndNames
  <2>3. \A t \in Turns : intent[t].run \in Runs =>
           ckpt'[intent[t].run] = ckpt[intent[t].run] \/ ckpt'[intent[t].run] = Absent
    BY <2>1 DEF OwnInv, IInv, TypeOK, StoreTypeOK
  <2> QED
    BY <2>1, <2>2, <2>3, RepairOnlyStep
<1> QED
  BY <1>1, <1>2

(* A new Turn, or a resume, gets its owner. *)
LEMMA StartTurnContract ==
  ASSUME OwnInv, IInv', NEW r \in Runs, NEW writes \in 0..3, StartTurn(r, writes)
  PROVE  NameInv' /\ Contract /\ IF writes < 2 THEN KeepsNames /\ SameShown ELSE NewOwner(r)
<1>0. turnOf[r] \in Turns
  BY DEF StartTurn, OwnInv, IInv, ProcInv, RunHasTurn, Live
<1> PICK t \in Turns : t = turnOf[r]
  BY <1>0
<1>1. /\ pc[r] = "booted" /\ UNCHANGED <<intent, ckpt>> /\ ckpt[r] # Absent
      /\ ActiveTurns(Repaired) = {} /\ t \notin ClaimedTurns(Repaired)
  BY DEF StartTurn, CanStart, Absent
<1>2. /\ ProcTypeOK /\ t \in Turns /\ IInv /\ LocalInv /\ journal \in Seq(Items)
      /\ Repaired.run[r] = Absent /\ Repaired.cur[t] = NoRun /\ Repaired \in Metas
  <2>1. Repaired.run[r] = Absent /\ Repaired \in Metas
    BY <1>1, RepairedView, RepairedFit DEF Early
  <2> QED
    BY <1>1, <2>1 DEF OwnInv, IInv, ProcInv, TypeOK, StoreTypeOK, ClaimedTurns
<1>3. SeenStay /\ NoneTurnsEarly /\ pc'[r] \notin Early /\ turnOf'[r] = t
  <2>1. CASE writes < 3
    <3>1. Interrupted(r, "cleanup")
      BY <2>1 DEF StartTurn
    <3> QED
      BY <1>1, <1>2, <3>1, InterruptedNames DEF Interrupted, End, Goto, ProcTypeOK, Early
  <2>2. CASE writes = 3
    <3>1. Goto(r, "created") /\ turnOf' = turnOf
      BY <2>2 DEF StartTurn
    <3> QED
      BY <1>2, <3>1, GotoNames DEF Goto, ProcTypeOK, Early
  <2> QED
    BY <2>1, <2>2
<1>4. CASE writes < 2
  <2>1. meta' = Repaired /\ UNCHANGED journal
    BY <1>4 DEF StartTurn
  <2> QED
    BY <1>1, <1>3, <1>4, <2>1, RepairOnlyStep
<1>5. CASE writes >= 2
  <2> DEFINE item == Item("turn_start", t, r)
  <2>1. /\ journal' = Append(journal, item) /\ item \in Items
        /\ item.turn = t /\ item.run = r /\ item.kind = "turn_start"
    BY <1>2, <1>5 DEF StartTurn, Item, Items
  <2>2. \A u \in Turns, s \in Runs : StartedBy(u, s)' <=> StartedBy(u, s) \/ (u = t /\ s = r)
    BY <1>2, <2>1, AppendedStarts DEF Item, IInv, TypeOK
  <2>3. \A u : HasFinal(u) <=> HasFinal(u)'
    BY <1>2, <2>1, AnswersStay
  <2>4. \/ /\ meta'.cur = [Repaired.cur EXCEPT ![t] = r]
           /\ meta'.run = [Repaired.run EXCEPT ![r] = "created"]
        \/ meta' = Repaired
    <3>1. CASE writes = 3
      <4>1. meta' = WithTail(WithRun(Repaired, r, "created"), journal')
        BY <3>1 DEF StartTurn
      <4> QED
        BY <1>2, <4>1 DEF WithTail, WithRun, Metas
    <3>2. CASE writes # 3
      BY <3>2 DEF StartTurn
    <3> QED
      BY <3>1, <3>2
  <2>5. /\ NameInv'
        /\ Repaired'.cur = [Repaired.cur EXCEPT ![t] = r]
        /\ Repaired'.run = [Repaired.run EXCEPT ![r] = "created"]
    <3> HIDE DEF item
    <3>1. CASE /\ meta'.cur = [Repaired.cur EXCEPT ![t] = r]
               /\ meta'.run = [Repaired.run EXCEPT ![r] = "created"]
      <4>1. \A u \in Turns, s \in Runs : StartedBy(u, s)' => StartedBy(u, s) \/ (u = t /\ s = r)
        BY <2>2
      <4> QED
        BY <1>1, <1>2, <1>3, <3>1, <4>1, OwnedView
    <3>2. CASE meta' = Repaired
      BY <1>1, <1>2, <1>3, <2>2, <3>2, OwnedView
    <3> QED
      BY <2>4, <3>1, <3>2
  <2> QED
    <3>1. Contract
      BY <1>1, <1>2, <1>3, <2>3, <2>5, OwnContract
    <3>2. NewOwner(r)
      BY <1>1, <1>2, <1>3, <2>5, ParentStays DEF IdentityStays, StartTurn, NewOwner, Next, Claim
    <3> QED
      BY <1>5, <2>5, <3>1, <3>2
<1> QED
  BY <1>4, <1>5

LEMMA ClaimResumeContract ==
  ASSUME OwnInv, IInv', NEW r \in Runs, ClaimResume(r)
  PROVE  NameInv' /\ Contract /\ ((KeepsNames /\ SameShown) \/ NewOwner(r))
<1>0. turnOf[r] \in Turns
  BY DEF ClaimResume, OwnInv, IInv, ProcInv, RunHasTurn, Live
<1> PICK t \in Turns : t = turnOf[r]
  BY <1>0
<1>1. /\ pc[r] = "booted" /\ UNCHANGED <<journal, intent, ckpt>> /\ ckpt[r] # Absent
      /\ IsActive(Repaired, t)
  BY DEF ClaimResume, CanClaimResume, Absent
<1>2. CASE meta' = Repaired /\ Interrupted(r, "cleanup")
  <2>1. SeenStay /\ NoneTurnsEarly
    BY <1>1, <1>2, InterruptedNames
  <2> QED
    BY <1>1, <1>2, <2>1, RepairOnlyStep
<1>3. CASE meta' = WithRun(Repaired, r, "created") /\ Goto(r, "created") /\ UNCHANGED turnOf
  <2>1. /\ ProcTypeOK /\ t \in Turns /\ IInv /\ LocalInv
        /\ Repaired.run[r] = Absent /\ Repaired \in Metas
    <3>1. Repaired.run[r] = Absent /\ Repaired \in Metas
      BY <1>1, RepairedView, RepairedFit DEF Early
    <3> QED
      BY <3>1 DEF OwnInv, IInv, ProcInv
  <2>2. SeenStay /\ NoneTurnsEarly /\ pc'[r] \notin Early
    BY <1>3, <2>1, GotoNames DEF Goto, ProcTypeOK, Early
  <2>3. /\ meta'.cur = [Repaired.cur EXCEPT ![t] = r]
        /\ meta'.run = [Repaired.run EXCEPT ![r] = "created"]
    BY <1>3, <2>1 DEF WithRun, Metas
  <2>4. \A u \in Turns, s \in Runs : StartedBy(u, s)' => StartedBy(u, s)
    BY <1>1 DEF StartedBy
  <2>5. /\ NameInv'
        /\ Repaired'.cur = [Repaired.cur EXCEPT ![t] = r]
        /\ Repaired'.run = [Repaired.run EXCEPT ![r] = "created"]
    BY <1>1, <1>3, <2>1, <2>2, <2>3, <2>4, OwnedView
  <2> QED
    <3>1. Contract
      BY <1>1, <1>3, <2>1, <2>2, <2>5, AnswersStay, OwnContract
    <3>2. parent[r] # NoRun /\ parent[r] = Repaired.cur[t]
      BY DEF ClaimResume, CanClaimResume
    <3>3. NewOwner(r)
      BY <1>1, <1>3, <2>1, <2>5, <3>2, ParentStays DEF IdentityStays, NewOwner, Next, Claim
    <3> QED
      BY <2>5, <3>1, <3>3
<1> QED
  BY <1>2, <1>3 DEF ClaimResume


(* The owner of a Turn records its status, or is refused. *)
LEMMA RecordOrRefuse ==
  ASSUME OwnInv, IInv', NEW r \in Runs, NEW status \in Statuses \ {Absent}, NEW allowed \in BOOLEAN,
         turnOf[r] \in Turns, SeenStay, NoneTurnsEarly, UNCHANGED <<journal, intent, ckpt>>,
         meta' = IF allowed THEN WithRun(Repaired, r, status) ELSE Repaired,
         allowed => /\ IsCurrent(Repaired, r)
                    /\ IsActive(Repaired, turnOf[r]) \/ TurnStatus(Repaired, turnOf[r]) = status,
         status = "completed" => HasFinal(turnOf[r])
  PROVE  NameInv' /\ Contract /\ KeepsNames /\ ShownAs(r, status)
<1> PICK t \in Turns : t = turnOf[r]
  OBVIOUS
<1>1. CASE allowed
  BY <1>1, RecordedStep DEF IsCurrent
<1>2. CASE ~allowed
  BY <1>2, RepairOnlyStep DEF SameShown, ShownAs
<1> QED
  BY <1>1, <1>2

NewStatus(r) ==
  IF pc[r] = "announce" THEN "running"
  ELSE IF pc[r] = "settled" THEN goal[r] ELSE memory[r]

LEMMA RecordSteps ==
  ASSUME OwnInv, IInv', NEW r \in Runs,
         Announce(r) \/ FinishTurn(r) \/ Report(r) \/ RecordFailure(r)
  PROVE  NameInv' /\ Contract /\ KeepsNames /\ ShownAs(r, NewStatus(r))
<1>1. /\ IInv /\ LocalInv /\ ProcTypeOK /\ BootedHasCheckpoint /\ GoalIsTerminal
      /\ turnOf[r] \in Turns /\ UNCHANGED <<journal, intent, ckpt>>
  BY DEF OwnInv, IInv, ProcInv, RunHasTurn, Live, Announce, FinishTurn, Report, RecordFailure,
         RecordRun, KeepFiles, EndKeepingFiles
<1>2. CASE Announce(r)
  <2> DEFINE allowed == CanRecord(Repaired, r, "running")
  <2>1. /\ Goto(r, IF allowed THEN "running" ELSE "failing") /\ turnOf' = turnOf
        /\ meta' = IF allowed THEN WithRun(Repaired, r, "running") ELSE Repaired
        /\ NewStatus(r) = "running"
    BY <1>2 DEF Announce, RecordRun, KeepFiles, NewStatus
  <2>2. SeenStay /\ NoneTurnsEarly
    BY <1>1, <2>1, GotoNames DEF Early
  <2>3. "running" \in Statuses \ {Absent} /\ allowed \in BOOLEAN
    BY DEF Statuses, ActiveStatuses, Absent, CanRecord, Claimed, IsCurrent, IsActive, TurnStatus
  <2>4. allowed => /\ IsCurrent(Repaired, r)
                   /\ IsActive(Repaired, turnOf[r]) \/ TurnStatus(Repaired, turnOf[r]) = "running"
    BY DEF CanRecord
  <2> HIDE DEF allowed
  <2> QED
    BY <1>1, <2>1, <2>2, <2>3, <2>4, RecordOrRefuse
<1>3. CASE FinishTurn(r)
  <2> DEFINE allowed == CanFinish(Repaired, r, goal[r])
  <2>1. /\ Goto(r, IF allowed THEN "reporting" ELSE "failing") /\ turnOf' = turnOf
        /\ meta' = IF allowed THEN WithRun(Repaired, r, goal[r]) ELSE Repaired
        /\ goal[r] \in TerminalStatuses /\ NewStatus(r) = goal[r]
    BY <1>1, <1>3 DEF FinishTurn, KeepFiles, GoalIsTerminal, NewStatus
  <2>2. SeenStay /\ NoneTurnsEarly
    BY <1>1, <2>1, GotoNames DEF Early
  <2>3. goal[r] \in Statuses \ {Absent} /\ allowed \in BOOLEAN
    BY <2>1 DEF Statuses, TerminalStatuses, Absent, CanFinish, IsCurrent, IsActive, TurnStatus
  <2>4. allowed => /\ IsCurrent(Repaired, r)
                   /\ IsActive(Repaired, turnOf[r]) \/ TurnStatus(Repaired, turnOf[r]) = goal[r]
    BY DEF CanFinish
  <2>5. goal[r] = "completed" => HasFinal(turnOf[r])
    BY <1>1 DEF LocalInv, CompletedIsAnswered
  <2> HIDE DEF allowed
  <2> QED
    BY <1>1, <2>1, <2>2, <2>3, <2>4, <2>5, RecordOrRefuse
<1>4. CASE Report(r) \/ RecordFailure(r)
  <2> DEFINE allowed == CanRecord(Repaired, r, memory[r])
  <2>1. /\ meta' = IF allowed THEN WithRun(Repaired, r, memory[r]) ELSE Repaired
        /\ End(r) /\ memory[r] # Absent /\ NewStatus(r) = memory[r]
    BY <1>1, <1>4 DEF Report, RecordFailure, EndKeepingFiles, BootedHasCheckpoint, Unbooted,
                      NewStatus
  <2>2. SeenStay /\ NoneTurnsEarly
    BY <1>1, <2>1, EndNames
  <2>3. memory[r] \in Statuses \ {Absent} /\ allowed \in BOOLEAN
    BY <1>1, <2>1 DEF ProcTypeOK, CanRecord, Claimed, IsCurrent, IsActive, TurnStatus
  <2>4. allowed => /\ IsCurrent(Repaired, r)
                   /\ IsActive(Repaired, turnOf[r]) \/ TurnStatus(Repaired, turnOf[r]) = memory[r]
    BY DEF CanRecord
  <2>5. memory[r] = "completed" => HasFinal(turnOf[r])
    BY <1>1 DEF LocalInv, CompletedIsAnswered
  <2> HIDE DEF allowed
  <2> QED
    BY <1>1, <2>1, <2>2, <2>3, <2>4, <2>5, RecordOrRefuse
<1> QED
  BY <1>2, <1>3, <1>4

LEMMA FinalizeContract ==
  ASSUME OwnInv, IInv', NEW r \in Runs, NEW status \in TerminalStatuses, Finalize(r, status)
  PROVE  NameInv' /\ Contract /\ KeepsNames /\ SameShown
<1>0. turnOf[r] \in Turns /\ pc[r] = "running" /\ IInv /\ LocalInv /\ UNCHANGED <<intent, ckpt>>
  BY DEF Finalize, Refused, KeepFiles, OwnInv, IInv, ProcInv, RunHasTurn, Live
<1> PICK t \in Turns : t = turnOf[r]
  BY <1>0
<1>1. ASSUME NEW point, Goto(r, point), point \notin Early, turnOf' = turnOf,
             meta' = Repaired, UNCHANGED journal
      PROVE  NameInv' /\ Contract /\ KeepsNames /\ SameShown
  <2>1. SeenStay /\ NoneTurnsEarly
    BY <1>0, <1>1, GotoNames
  <2> QED
    BY <1>0, <1>1, <2>1, RepairOnlyStep
<1>2. CASE /\ meta' = Repaired /\ Goto(r, "finalizing") /\ KeepFiles
  BY <1>1, <1>2 DEF KeepFiles, Early
<1>3. CASE Refused(r, "failing")
  BY <1>1, <1>3 DEF KeepFiles, Early, Refused
<1>4. CASE /\ ~HasFinal(t) /\ CanAppend(Repaired, r)
           /\ journal' = Append(journal, Item("final", t, r))
           /\ \/ /\ meta' = WithTail(Repaired, journal')
                 /\ Goto(r, "finalizing")
                 /\ turnOf' = turnOf
              \/ meta' = Repaired /\ Interrupted(r, "failing")
  <2>1. SeenStay /\ NoneTurnsEarly
    BY <1>0, <1>4, GotoNames, InterruptedNames DEF Early
  <2>2. meta'.cur = Repaired.cur /\ meta'.run = Repaired.run
    BY RepairedView, <1>4 DEF WithTail, Metas
  <2> DEFINE item == Item("final", t, r)
  <2>3. item \in Items /\ item.kind = "final" /\ item.turn = t
    BY DEF Item, Items
  <2>4. \A u \in Turns, s \in Runs : StartedBy(u, s)' <=> StartedBy(u, s)
    BY <1>0, <1>4, <2>3, AppendedStarts DEF Item, IInv, TypeOK
  <2>5. \A u : HasFinal(u)' <=> HasFinal(u) \/ u = t
    BY <1>0, <1>4, <2>3, AnswersStay
  <2>6. NameInv' /\ Repaired'.cur = Repaired.cur /\ Repaired'.run = Repaired.run
    BY <1>0, <2>1, <2>2, <2>4, RepairStep
  <2> HIDE DEF item
  <2>7. IsActive(Repaired, t) /\ ~HasFinal(t)
    BY <1>4 DEF CanAppend
  <2> QED
    BY <2>1, <2>5, <2>6, <2>7, AnswerContract DEF SameShown
<1> QED
  BY <1>2, <1>3, <1>4 DEF Finalize

LEMMA PrepareTerminalContract ==
  ASSUME OwnInv, IInv', NEW r \in Runs, PrepareTerminal(r)
  PROVE  NameInv' /\ Contract /\ KeepsNames /\ SameShown
<1>1. /\ pc[r] = "finalizing" /\ meta' = Repaired /\ UNCHANGED <<journal, ckpt, turnOf>>
      /\ Goto(r, "prepared") \/ Goto(r, "failing")
      /\ \A t \in Turns : intent'[t] = intent[t] \/ intent'[t].run = r
  BY DEF PrepareTerminal, OwnInv, IInv, TypeOK, StoreTypeOK
<1>2. SeenStay /\ NoneTurnsEarly
  BY <1>1, GotoNames DEF Early, OwnInv
<1>3. ckpt[r] = "running" /\ "running" \notin TerminalStatuses
  BY <1>1 DEF OwnInv, LocalInv, AtWorkIsSaved, AtWork, TerminalStatuses
<1>4. \A u \in Turns, s \in Runs : StartedBy(u, s)' <=> StartedBy(u, s)
  BY <1>1 DEF StartedBy
<1>5. NameInv' /\ Repaired'.cur = Repaired.cur /\ Repaired'.run = Repaired.run
  BY <1>1, <1>2, <1>3, <1>4, RepairStep
<1> QED
  BY <1>1, <1>2, <1>5, AnswersStay, QuietContract DEF OwnInv, SameShown


(* The terminal checkpoint closes the Turn, if its intent is there and its *)
(* Run still owns the Turn; otherwise no load notices it.                  *)
LEMMA WriteTerminalContract ==
  ASSUME OwnInv, IInv', NEW r \in Runs, WriteTerminal(r)
  PROVE  NameInv' /\ Contract /\ KeepsNames /\ ShownAs(r, goal[r])
<1>1. /\ UNCHANGED <<journal, meta, intent, turnOf>> /\ ckpt' = [ckpt EXCEPT ![r] = goal[r]]
      /\ pc[r] = "prepared" /\ Goto(r, "settled") /\ ckpt[r] = "running"
      /\ goal[r] \in TerminalStatuses /\ turnOf[r] \in Turns /\ ckpt \in [Runs -> Statuses]
      /\ goal[r] = "completed" => HasFinal(turnOf[r])
  BY DEF WriteTerminal, SaveCheckpoint, OwnInv, IInv, ProcInv, GoalIsTerminal, RunHasTurn, Live,
         LocalInv, AtWorkIsSaved, AtWork, CompletedIsAnswered, TypeOK, StoreTypeOK
<1> PICK t \in Turns : t = turnOf[r]
  BY <1>1
<1>2. SeenStay /\ NoneTurnsEarly
  BY <1>1, GotoNames DEF Early, OwnInv
<1>3. NameInv'
  BY <1>1, <1>2, UnwrittenNames
<1>4. Reconciled' = Reconciled /\ Reconciled \in Metas
  BY <1>1, UnwrittenReconciled, ReconciledView
<1>5. \A u \in Turns : Reconciled.cur[u] = r => u = t
  BY RepairedView, RepairedFit, IdentityAssumption
<1>6. \A u \in Settled(Reconciled) : Reconciled.cur[u] # r
  BY <1>1 DEF Settled, IntentApplies, TerminalStatuses
<1> DEFINE closes == intent[t].run = r /\ Reconciled.cur[t] = r /\ IsActive(Reconciled, t)
<1>7. \A u \in Turns : IntentApplies(Reconciled, u)'
        <=> IntentApplies(Reconciled, u) \/ (closes /\ u = t)
  <2>1. \A u \in Turns : IsActive(Reconciled, u)' <=> IsActive(Reconciled, u)
    BY <1>4 DEF IsActive, TurnStatus
  <2>2. \A s \in Runs : ckpt'[s] = IF s = r THEN goal[r] ELSE ckpt[s]
    BY <1>1
  <2> QED
    BY <1>1, <1>4, <1>5, <2>1, <2>2 DEF IntentApplies, TerminalStatuses
<1>8. Settled(Reconciled)' = Settled(Reconciled) \cup (IF closes THEN {t} ELSE {})
  BY <1>7 DEF Settled
<1>9. Repaired'.cur = Repaired.cur
  <2>1. Repaired'.cur = Reconciled'.cur
    BY <1>4 DEF Repaired, Metas
  <2> QED
    BY <1>4, <2>1, RepairedView
<1>10. Repaired'.run = [s \in Runs |-> IF \E u \in Settled(Reconciled)' : Reconciled.cur[u] = s
                                       THEN ckpt'[s] ELSE Reconciled.run[s]]
  BY <1>4 DEF Repaired, Metas
<1>11. \A s \in Runs : Repaired'.run[s] = IF closes /\ s = r THEN goal[r] ELSE Repaired.run[s]
  <2>1. \A s \in Runs : Repaired.run[s] = IF \E u \in Settled(Reconciled) : Reconciled.cur[u] = s
                                          THEN ckpt[s] ELSE Reconciled.run[s]
    BY RepairedView
  <2>2. \A s \in Runs : ckpt'[s] = IF s = r THEN goal[r] ELSE ckpt[s]
    BY <1>1
  <2> HIDE DEF closes
  <2>3. CASE ~closes
    BY <1>6, <1>8, <1>10, <2>1, <2>2, <2>3
  <2>4. CASE closes
    BY <1>5, <1>6, <1>8, <1>10, <2>1, <2>2, <2>4 DEF closes
  <2> QED
    BY <2>3, <2>4
<1>12. Repaired.run \in [Runs -> Statuses] /\ Repaired'.run = [s \in Runs |-> Repaired'.run[s]]
  BY <1>10, RepairedView DEF Metas
<1>13. \A u : HasFinal(u) <=> HasFinal(u)'
  BY <1>1, AnswersStay DEF OwnInv
<1>14. CASE ~closes
  <2>1. Repaired'.run = Repaired.run
    BY <1>11, <1>12, <1>14
  <2> QED
    BY <1>2, <1>3, <1>9, <1>13, <2>1, QuietContract DEF ShownAs
<1>15. CASE closes
  <2>1. Repaired'.run = [Repaired.run EXCEPT ![r] = goal[r]]
    BY <1>11, <1>12, <1>15
  <2>2. Repaired.cur[t] = r /\ Repaired.run[r] = Reconciled.run[r]
    BY <1>6, <1>15, RepairedView
  <2>3. IsActive(Repaired, t)
    BY <1>15, <2>2 DEF IsActive, TurnStatus
  <2>4. goal[r] \in Statuses \ {Absent}
    BY <1>1 DEF Statuses, TerminalStatuses, Absent
  <2> QED
    BY <1>1, <1>2, <1>3, <1>9, <1>13, <2>1, <2>2, <2>3, <2>4, RecordContract DEF ShownAs
<1> QED
  BY <1>14, <1>15

----------------------------------------------------------------------------
LEMMA NextContract ==
  ASSUME OwnInv, Next, IInv'
  PROVE  NameInv' /\ Contract /\ (KeepsNames \/ \E r \in Runs : NewOwner(r))
BY PlanSteps, StartTurnContract, ClaimResumeContract, RepairOnlySteps, UnwrittenSteps,
   RecordSteps, FinalizeContract, PrepareTerminalContract, WriteTerminalContract
   DEF Next, Claim, Execute, Fail

LEMMA InitOwn == Init => OwnInv /\ Ownership!Init
<1> SUFFICES ASSUME Init PROVE OwnInv /\ Ownership!Init
  OBVIOUS
<1> USE DEF Init, StoreInit
<1>1. IInv
  BY InitIInv
<1>2. \A t \in Turns, r \in Runs : ~StartedBy(t, r)
  BY DEF StartedBy
<1>3. \A t \in Turns : ~HasFinal(t)
  BY DEF HasFinal
<1>4. LocalInv
  BY IdentityAssumption
     DEF LocalInv, EarlyIsBare, AtWorkIsSaved, IntentIsLate, CompletedIsAnswered, ParentIsOfTurn,
         AtWork, NoIntent, Absent
<1>5. NameInv
  BY <1>2 DEF NameInv, EarlyIsUnknown, OwnerIsOfTurn
<1>6. Repaired.cur = meta.cur /\ Repaired.run = meta.run
  <2>1. Unclaimed = {}
    BY <1>2 DEF Unclaimed, Started
  <2>2. Reconciled = [meta EXCEPT !.sequence = Len(journal)]
    BY <2>1 DEF Reconciled
  <2>3. Settled(Reconciled) = {}
    BY IdentityAssumption DEF Settled, IntentApplies, NoIntent
  <2> QED
    BY <2>2, <2>3 DEF Repaired
<1>7. /\ PublishedState = [t \in Turns |-> "none"]
      /\ PublishedOwner = [t \in Turns |-> NoRun]
      /\ PublishedAttempts = [t \in Turns |-> {}]
  BY <1>6 DEF PublishedState, PublishedOwner, PublishedAttempts, Claimed
<1> QED
  BY <1>1, <1>3, <1>4, <1>5, <1>7 DEF OwnInv, Ownership!Init

LEMMA NextOwn == OwnInv /\ [Next]_vars => OwnInv' /\ Contract
<1> SUFFICES ASSUME OwnInv, [Next]_vars PROVE OwnInv' /\ Contract
  OBVIOUS
<1>1. IInv'
  BY NextIInv DEF OwnInv
<1>2. CASE Next
  BY <1>1, <1>2, NextLocal, NextContract DEF OwnInv
<1>3. CASE UNCHANGED vars
  <2>1. UNCHANGED <<journal, meta, intent, ckpt, snapshots, revision, turnOf,
                    pc, parent, planned, memory, goal>>
    BY <1>3 DEF vars, storeVars, procVars
  <2>2. SeenStay /\ NoneTurnsEarly
    BY <2>1 DEF SeenStay, NoneTurnsEarly
  <2>3. NameInv' /\ Contract
    BY <2>1, <2>2, UnwrittenStep
  <2>4. LocalInv'
    BY <2>1 DEF OwnInv, LocalInv, EarlyIsBare, AtWorkIsSaved, IntentIsLate, CompletedIsAnswered,
                ParentIsOfTurn, HasFinal
  <2> QED
    BY <1>1, <2>3, <2>4 DEF OwnInv
<1> QED
  BY <1>2, <1>3

(* Whatever crashes, the files of a Thread as the next load repairs them   *)
(* keep the contract of TurnOwnership: every step of every process opens a *)
(* Turn, passes it from its owner to a Run nobody has seen, accepts its    *)
(* one answer, closes it, or changes nothing a caller can see.             *)
THEOREM ImplementsOwnershipContract == Spec => ImplementsOwnership
BY InitOwn, NextOwn, PTL DEF Spec, ImplementsOwnership, Ownership!Spec, Contract


(* What the contract says of a Turn shown as terminal. *)
LEMMA FrozenStep ==
  ASSUME OwnInv, Contract, NEW t \in Turns, TurnStatus(Repaired, t) \in TerminalStatuses
  PROVE  /\ TurnStatus(Repaired, t)' = TurnStatus(Repaired, t)
         /\ Repaired'.cur[t] = Repaired.cur[t]
<1>1. /\ PublishedState[t] = TurnStatus(Repaired, t)
      /\ PublishedState[t] \notin {"none", "open"}
  BY DEF PublishedState, IsActive, TurnStatus, ActiveStatuses, TerminalStatuses, Absent
<1>2. PublishedState'[t] = PublishedState[t] /\ PublishedOwner'[t] = PublishedOwner[t]
  <2>1. CASE UNCHANGED Ownership!ownershipVars
    BY <2>1 DEF Ownership!ownershipVars
  <2>2. ASSUME NEW u \in Turns, NEW r \in Runs, Ownership!Open(u, r) \/ Ownership!TakeOver(u, r)
        PROVE  PublishedState'[t] = PublishedState[t] /\ PublishedOwner'[t] = PublishedOwner[t]
    <3>1. /\ u # t /\ PublishedOwner' = [PublishedOwner EXCEPT ![u] = r]
          /\ \/ PublishedState' = PublishedState
             \/ PublishedState' = [PublishedState EXCEPT ![u] = "open"]
      BY <1>1, <2>2 DEF Ownership!Open, Ownership!TakeOver, Ownership!Own
    <3>2. PublishedOwner'[t] = PublishedOwner[t]
      BY <3>1
    <3>3. PublishedState'[t] = PublishedState[t]
      <4>1. CASE PublishedState' = PublishedState
        BY <4>1
      <4>2. CASE PublishedState' = [PublishedState EXCEPT ![u] = "open"]
        <5>1. DOMAIN PublishedState = Turns
          BY DEF PublishedState
        <5> QED
          BY <3>1, <4>2, <5>1
      <4> QED
        BY <3>1, <4>1, <4>2
    <3> QED
      BY <3>2, <3>3
  <2>3. ASSUME NEW u \in Turns, Ownership!Answer(u)
        PROVE  PublishedState'[t] = PublishedState[t] /\ PublishedOwner'[t] = PublishedOwner[t]
    BY <2>3 DEF Ownership!Answer
  <2>4. ASSUME NEW u \in Turns, NEW outcome \in TerminalStatuses, Ownership!Close(u, outcome)
        PROVE  PublishedState'[t] = PublishedState[t] /\ PublishedOwner'[t] = PublishedOwner[t]
    BY <1>1, <2>4 DEF Ownership!Close
  <2> QED
    BY <2>1, <2>2, <2>3, <2>4 DEF Contract, Ownership!Next
<1>3. TurnStatus(Repaired, t)' = PublishedState'[t]
  BY <1>1, <1>2 DEF PublishedState, TurnStatus
<1> QED
  BY <1>1, <1>2, <1>3 DEF PublishedOwner

(* A Turn that the Thread shows as terminal keeps its status and its Run   *)
(* in every step of every process, late ones included.                     *)
THEOREM TerminalTurnsStay == Spec => TerminalTurnFrozen
<1> DEFINE Frozen ==
      \A t \in Turns :
        TurnStatus(Repaired, t) \in TerminalStatuses
          => /\ TurnStatus(Repaired', t) = TurnStatus(Repaired, t)
             /\ Repaired'.cur[t] = Repaired.cur[t]
<1>1. OwnInv /\ [Next]_vars => OwnInv' /\ Frozen
  BY NextOwn, FrozenStep DEF TurnStatus
<1>2. TerminalTurnFrozen <=> [][Frozen]_vars
  BY DEF TerminalTurnFrozen
<1> HIDE DEF Frozen
<1> QED
  BY <1>1, <1>2, InitOwn, PTL DEF Spec

(* A claimed resume continues a claimed Run that no longer owns the Turn. *)
Chained ==
  \A r \in Runs : (Claimed(Repaired, r) /\ parent[r] # NoRun) =>
    Claimed(Repaired, parent[r]) /\ parent[r] # Repaired.cur[turnOf[r]]

LEMMA NoForkStep ==
  ASSUME OwnInv, Next, NoForkedResume, Chained, KeepsNames \/ \E r \in Runs : NewOwner(r)
  PROVE  NoForkedResume' /\ Chained'
<1>1. \A s \in Runs : Claimed(Repaired, s) => parent'[s] = parent[s] /\ turnOf'[s] = turnOf[s]
  BY ParentStays DEF IdentityStays, Claimed
<1>2. parent \in [Runs -> Runs \cup {NoRun}]
  BY DEF OwnInv, IInv, ProcInv, ProcTypeOK
<1>3. CASE KeepsNames
  <2>1. \A s \in Runs : Claimed(Repaired, s)' <=> Claimed(Repaired, s)
    BY <1>3 DEF KeepsNames, Claimed
  <2>2. NoForkedResume'
    BY <1>1, <2>1 DEF NoForkedResume
  <2>3. Chained'
    BY <1>1, <1>2, <1>3, <2>1 DEF Chained, KeepsNames
  <2> QED
    BY <2>2, <2>3
<1>4. ASSUME NEW r \in Runs, NewOwner(r)
      PROVE  NoForkedResume' /\ Chained'
  <2> PICK t \in Turns : t = turnOf[r]
    BY <1>4 DEF NewOwner
  <2>1. /\ turnOf'[r] = t /\ parent'[r] = parent[r] /\ ~Claimed(Repaired, r)
        /\ Repaired'.cur = [Repaired.cur EXCEPT ![t] = r]
        /\ \/ parent[r] = NoRun /\ Repaired.cur[t] = NoRun
           \/ parent[r] # NoRun /\ parent[r] = Repaired.cur[t]
    BY <1>4 DEF NewOwner, Claimed
  <2>2. /\ \A s \in Runs : Claimed(Repaired, s)' <=> Claimed(Repaired, s) \/ s = r
        /\ \A u \in Turns : Repaired'.cur[u] = IF u = t THEN r ELSE Repaired.cur[u]
    BY <1>4, <2>1, RepairedView DEF NewOwner, Claimed, Metas, Absent
  <2>3. \A s \in Runs : Claimed(Repaired, s) =>
          turnOf[s] \in Turns /\ Repaired.cur[turnOf[s]] # NoRun
    BY RepairedFit DEF Claimed
  <2>4. parent[r] # NoRun => Claimed(Repaired, parent[r]) /\ parent[r] # r
    BY <1>2, <2>1, RepairedFit DEF Claimed
  <2>5. Chained'
    <3> SUFFICES ASSUME NEW s \in Runs, Claimed(Repaired, s)', parent'[s] # NoRun
                 PROVE  Claimed(Repaired, parent[s])' /\ parent'[s] # Repaired'.cur[turnOf'[s]]
                        /\ parent'[s] = parent[s]
      BY DEF Chained, Claimed
    <3>1. CASE s = r
      BY <1>2, <2>1, <2>2, <2>4, <3>1
    <3>2. CASE s # r
      <4>1. /\ Claimed(Repaired, s) /\ parent'[s] = parent[s] /\ turnOf'[s] = turnOf[s]
            /\ parent[s] \in Runs
        BY <1>1, <1>2, <2>2, <3>2
      <4>2. Claimed(Repaired, parent[s]) /\ parent[s] # Repaired.cur[turnOf[s]] /\ parent[s] # r
        BY <2>1, <4>1 DEF Chained
      <4> QED
        BY <2>2, <2>3, <4>1, <4>2
    <3> QED
      BY <3>1, <3>2
  <2>6. NoForkedResume'
    <3>1. \A s \in Runs : Claimed(Repaired, s) /\ turnOf[s] = t => parent[s] # parent[r]
      BY <2>1, <2>3 DEF Chained
    <3> QED
      BY <1>1, <2>1, <2>2, <3>1 DEF NoForkedResume
  <2> QED
    BY <2>5, <2>6
<1> QED
  BY <1>3, <1>4

(* Two claimed Runs of a Turn never continue the same Run, and a Turn has  *)
(* one initial Run, however many processes resume it at once.              *)
THEOREM AttemptsDoNotFork == Spec => []NoForkedResume
<1> DEFINE Fork == OwnInv /\ NoForkedResume /\ Chained
<1>1. Init => Fork
  <2> SUFFICES ASSUME Init PROVE NoForkedResume /\ Chained
    BY InitOwn
  <2>1. \A r \in Runs : ~Claimed(Repaired, r)
    BY InitOwn, RepairedFit DEF Claimed, Init, Early
  <2> QED
    BY <2>1 DEF NoForkedResume, Chained
<1>2. Fork /\ [Next]_vars => Fork'
  <2> SUFFICES ASSUME Fork, [Next]_vars PROVE Fork'
    OBVIOUS
  <2>1. OwnInv'
    BY NextOwn
  <2>2. CASE Next
    BY <2>1, <2>2, NextContract, NoForkStep DEF OwnInv
  <2>3. CASE UNCHANGED vars
    <3>1. UNCHANGED <<journal, meta, intent, ckpt, turnOf, parent>>
      BY <2>3 DEF vars, storeVars, procVars
    <3>2. Repaired' = Repaired
      BY <3>1, UnwrittenView
    <3> QED
      BY <2>1, <3>1, <3>2 DEF NoForkedResume, Chained, Claimed
  <2> QED
    BY <2>2, <2>3
<1> HIDE DEF Fork
<1>3. Fork => NoForkedResume
  BY DEF Fork
<1> QED
  BY <1>1, <1>2, <1>3, PTL DEF Spec
=============================================================================
