--------------------------- MODULE CampaignProofs ---------------------------
(***************************************************************************)
(* Proofs about Campaign, for any number of slots and processes, any       *)
(* requests and any faults: the type invariant, that a strict campaign     *)
(* runs a slot once, that every trajectory is counted, and that what was   *)
(* published stays true.                                                   *)
(***************************************************************************)
EXTENDS Campaign, TLAPS

Opened == main # "idle" =>
  file \in OpenStates /\ mem \in OpenStates /\ mem.digest = file.digest /\ processes # 0

(* The retries on the record of a slot are earlier attempts, in order; a   *)
(* completed slot is judged by its last attempt.                           *)
Before(history, bound) == \A i \in DOMAIN history : history[i] < bound
Ascending(history) == \A i, j \in DOMAIN history : i < j => history[i] < history[j]
SlotOK(slot) ==
  /\ Ascending(slot.history) /\ Before(slot.history, slot.attempts + 1)
  /\ slot.status = "completed" => /\ slot.evidence.attempt = slot.attempts
                                  /\ Before(slot.history, slot.attempts)

(* A state no process could have brought about with more attempts than its *)
(* request allows it.                                                      *)
Counted(state) ==
  \A s \in Ordinals :
    /\ SlotOK(state.slots[s])
    /\ state.slots[s].attempts <= processes * state.digest.retries
    /\ ~state.digest.rerun => state.slots[s].attempts <= 1

(* Attempts are durable before a trajectory begins. *)
StartIsDurable ==
  /\ file = NoState => \A s \in Ordinals : begun[s] = 0
  /\ file # NoState => \A s \in Ordinals : begun[s] <= file.slots[s].attempts
  /\ \A s \in Ordinals : at[s] = "started" => begun[s] < file.slots[s].attempts

ThreadOK(s) ==
  LET slot == mem.slots[s]
  IN  /\ file.slots[s].attempts <= slot.attempts
      /\ at[s] \in {"out", "queued"} /\ main # "publish" =>
           slot.attempts <= (processes - 1) * mem.digest.retries
      /\ at[s] = "queued" /\ Strict => slot.attempts = 0
      /\ at[s] = "again" => slot.attempts < mem.digest.retries
      /\ at[s] \in {"started", "agent", "returned"} => Before(slot.history, slot.attempts)
      /\ at[s] \in {"started", "agent", "returned", "caught"} => slot.attempts >= 1

TypesOK ==
  /\ file \in States /\ mem \in States
  /\ published \in [Ordinals -> SlotStates] \cup {<<>>}
  /\ processes \in 0..MaxProcesses
  /\ main \in {"idle", "select", "run", "publish"} /\ next \in 1..Slots + 1
  /\ main \in {"idle", "select"} => next \in Ordinals
  /\ at \in [Ordinals -> {"out", "queued", "again", "started", "agent", "returned", "caught",
                          "done", "raised"}]
  /\ held \in [Ordinals -> Judged \cup {"none", "exception"}]
  /\ \A s \in Ordinals : /\ main \notin {"select", "run"} => at[s] = "out"
                         /\ main = "select" => at[s] \in {"out", "queued"}
  /\ begun \in [Ordinals -> Nat]

IInv ==
  /\ TypesOK /\ Opened /\ StartIsDurable
  /\ file # NoState => Counted(file)
  /\ main # "idle" => Counted(mem) /\ \A s \in Ordinals : ThreadOK(s)

----------------------------------------------------------------------------
(* A state on disk can be told from no state. *)
LEMMA OpenIsSomething ==
  ASSUME NEW state \in OpenStates PROVE state # NoState
  BY DEF OpenStates, NoState

(* The bounds of a request. *)
LEMMA RequestFacts ==
  ASSUME NEW q \in Requests
  PROVE  /\ q.rerun \in BOOLEAN /\ q.retries \in {1, 2}
         /\ ~q.rerun => q.retries = 1
<1>1. q.retries \in 1..2
  BY CampaignAssumption
<1> QED
  BY <1>1, CampaignAssumption

(* One slot of the state in memory is changed. *)
LEMMA ChangedFacts ==
  ASSUME mem \in OpenStates, NEW s \in Ordinals, NEW slot \in SlotStates,
         NEW verdict \in {"running", "completed", "completed_with_failures"}
  PROVE  /\ Changed(s, slot, verdict) \in OpenStates
         /\ Changed(s, slot, verdict).digest = mem.digest
         /\ Changed(s, slot, verdict).slots[s] = slot
         /\ \A u \in Ordinals : u # s => Changed(s, slot, verdict).slots[u] = mem.slots[u]
  BY DEF OpenStates, Changed

(* The new values of a slot. *)
LEMMA MarkedSlot ==
  ASSUME NEW old \in SlotStates, old.attempts + 1 \in 0..MaxAttempts
  PROVE  LET slot == [old EXCEPT !.status = "running", !.attempts = @ + 1]
         IN  /\ slot \in SlotStates
             /\ slot.attempts = old.attempts + 1
             /\ slot.history = old.history
             /\ slot.status = "running"
  BY DEF SlotStates

LEMMA FailedSlot ==
  ASSUME mem \in OpenStates, NEW s \in Ordinals
  PROVE  /\ Failed(s) \in SlotStates
         /\ Failed(s).attempts = mem.slots[s].attempts
         /\ Failed(s).history = mem.slots[s].history
         /\ Failed(s).status = "failed"
  BY DEF SlotStates, OpenStates, Failed

LEMMA JudgedSlot ==
  ASSUME mem \in OpenStates, NEW s \in Ordinals, held[s] \in Judged,
         mem.slots[s].attempts \in 1..MaxAttempts
  PROVE  LET old == mem.slots[s]
         IN  /\ Judge(s) \in SlotStates
             /\ Judge(s).attempts = old.attempts
             /\ Judge(s).evidence.attempt = old.attempts
             /\ Judge(s).history = IF Retry(s) THEN Append(old.history, old.attempts)
                                   ELSE old.history
             /\ Judge(s).status = IF Retry(s) THEN "retry_pending" ELSE "completed"
<1> DEFINE old == mem.slots[s]
           evidence == [attempt |-> old.attempts, class |-> held[s]]
           judged == [old EXCEPT !.evidence = evidence]
           again == [judged EXCEPT !.status = "retry_pending",
                                   !.history = Append(old.history, old.attempts)]
           done == [judged EXCEPT !.status = "completed"]
<1>1. old \in SlotStates
  BY DEF OpenStates
<1>2. evidence \in [attempt : 1..MaxAttempts, class : Judged]
  OBVIOUS
<1>3. judged \in SlotStates /\ judged.attempts = old.attempts /\ judged.evidence = evidence
      /\ judged.history = old.history
  BY <1>1, <1>2 DEF SlotStates
<1>4. Append(old.history, old.attempts) \in Seq(1..MaxAttempts)
  BY <1>1 DEF SlotStates
<1>5. again \in SlotStates /\ again.attempts = old.attempts /\ again.evidence = evidence
      /\ again.history = Append(old.history, old.attempts) /\ again.status = "retry_pending"
  BY <1>3, <1>4 DEF SlotStates
<1>6. done \in SlotStates /\ done.attempts = old.attempts /\ done.evidence = evidence
      /\ done.history = old.history /\ done.status = "completed"
  BY <1>3 DEF SlotStates
<1>7. Judge(s) = IF Retry(s) THEN again ELSE done
  BY <1>3 DEF Judge
<1>8. evidence.attempt = old.attempts
  OBVIOUS
<1> HIDE DEF old, evidence, judged, again, done
<1> QED
  BY <1>5, <1>6, <1>7, <1>8 DEF old

----------------------------------------------------------------------------
(* A first or a further attempt stays within the bound of its request.     *)
LEMMA AttemptsBounded ==
  ASSUME NEW k \in {1, 2}, NEW n \in Nat, n # 0, n <= MaxProcesses, NEW a \in Nat
  PROVE  /\ (n - 1) * k <= n * k
         /\ a <= (n - 1) * k => a + 1 <= n * k
         /\ a < k => a + 1 <= n * k
         /\ a <= n * k => a \in 0..MaxAttempts
<1>1. MaxProcesses \in Nat
  BY CampaignAssumption
<1>2. CASE k = 1
  BY <1>1, <1>2 DEF MaxAttempts
<1>3. CASE k = 2
  BY <1>1, <1>3 DEF MaxAttempts
<1> QED
  BY <1>2, <1>3

(* What a process at work knows of its files. *)
LEMMA WorkingFacts ==
  ASSUME IInv, main # "idle"
  PROVE  /\ file \in OpenStates /\ mem \in OpenStates /\ mem.digest = file.digest
         /\ file # NoState
         /\ processes \in Nat /\ processes # 0 /\ processes <= MaxProcesses
         /\ mem.digest \in Requests /\ mem.digest.retries \in {1, 2}
         /\ \A s \in Ordinals : /\ mem.slots[s] \in SlotStates /\ file.slots[s] \in SlotStates
                                /\ mem.slots[s].attempts \in Nat
                                /\ file.slots[s].attempts \in Nat
                                /\ begun[s] \in Nat
         /\ StartIsDurable /\ Counted(file) /\ Counted(mem)
         /\ \A s \in Ordinals : ThreadOK(s)
<1>1. file \in OpenStates /\ mem \in OpenStates /\ mem.digest = file.digest /\ processes # 0
  BY DEF IInv, Opened
<1>2. file # NoState
  BY <1>1, OpenIsSomething
<1>3. processes \in Nat /\ processes <= MaxProcesses
  BY CampaignAssumption DEF IInv, TypesOK
<1>4. mem.digest \in Requests
  BY <1>1 DEF OpenStates
<1>5. mem.digest.retries \in {1, 2}
  BY <1>4, RequestFacts
<1>6. ASSUME NEW s \in Ordinals
      PROVE  /\ mem.slots[s] \in SlotStates /\ file.slots[s] \in SlotStates
             /\ begun[s] \in Nat
  BY <1>1 DEF OpenStates, IInv, TypesOK
<1>7. ASSUME NEW slot \in SlotStates PROVE slot.attempts \in Nat
  <2>1. slot.attempts \in 0..MaxAttempts
    BY DEF SlotStates
  <2> QED
    BY <2>1
<1> QED
  BY <1>1, <1>2, <1>3, <1>4, <1>5, <1>6, <1>7 DEF IInv

(* One thread moves its slot, and what the process has in memory is saved  *)
(* or not.                                                                 *)
LEMMA MemoryStep ==
  ASSUME IInv, main \in {"select", "run"}, NEW s \in Ordinals,
         NEW slot \in SlotStates,
         NEW verdict \in {"running", "completed", "completed_with_failures"},
         NEW point \in {"out", "queued", "again", "started", "agent", "returned", "caught",
                        "done", "raised"},
         mem' = Changed(s, slot, verdict),
         file' = mem' \/ file' = file,
         at' = [at EXCEPT ![s] = point],
         main' \in {"select", "run"}, next' \in 1..Slots + 1,
         main' = "select" => next' \in Ordinals,
         main' = "select" => main = "select" /\ point \in {"out", "queued"},
         held' \in [Ordinals -> Judged \cup {"none", "exception"}],
         UNCHANGED <<published, processes, begun>>,
         SlotOK(slot), mem.slots[s].attempts <= slot.attempts,
         slot.attempts <= processes * mem.digest.retries,
         ~mem.digest.rerun => slot.attempts <= 1,
         point = "started" => begun[s] < file'.slots[s].attempts,
         point \in {"out", "queued"} => slot.attempts <= (processes - 1) * mem.digest.retries,
         point = "queued" /\ Strict => slot.attempts = 0,
         point = "again" => slot.attempts < mem.digest.retries,
         point \in {"started", "agent", "returned"} => Before(slot.history, slot.attempts),
         point \in {"started", "agent", "returned", "caught"} => slot.attempts >= 1
  PROVE  IInv'
<1>1. /\ mem' \in OpenStates /\ mem'.digest = mem.digest
      /\ mem'.slots[s] = slot
      /\ \A u \in Ordinals : u # s => mem'.slots[u] = mem.slots[u]
  BY WorkingFacts, ChangedFacts
<1>2. file' \in OpenStates /\ file' # NoState /\ file'.digest = mem'.digest
  BY <1>1, WorkingFacts, OpenIsSomething
<1>3. ASSUME NEW u \in Ordinals
      PROVE  /\ mem'.slots[u].attempts \in Nat /\ file'.slots[u].attempts \in Nat
             /\ mem.slots[u].attempts <= mem'.slots[u].attempts
             /\ file.slots[u].attempts <= file'.slots[u].attempts
             /\ file'.slots[u].attempts <= mem'.slots[u].attempts
  <2>1. mem'.slots[u] \in SlotStates /\ file'.slots[u] \in SlotStates
    BY <1>1, <1>2 DEF OpenStates
  <2>2. mem'.slots[u].attempts \in Nat /\ file'.slots[u].attempts \in Nat
    <3>1. mem'.slots[u].attempts \in 0..MaxAttempts /\ file'.slots[u].attempts \in 0..MaxAttempts
      BY <2>1 DEF SlotStates
    <3> QED
      BY <3>1
  <2>3. mem.slots[u].attempts \in Nat /\ file.slots[u].attempts \in Nat
    BY WorkingFacts
  <2>4. mem.slots[u].attempts <= mem'.slots[u].attempts
    BY <1>1, <2>3
  <2>5. file.slots[u].attempts <= mem.slots[u].attempts
    BY WorkingFacts DEF ThreadOK
  <2> QED
    BY <2>2, <2>3, <2>4, <2>5
<1>4. Counted(mem)'
  <2> SUFFICES ASSUME NEW u \in Ordinals
               PROVE  /\ SlotOK(mem'.slots[u])
                      /\ mem'.slots[u].attempts <= processes * mem'.digest.retries
                      /\ ~mem'.digest.rerun => mem'.slots[u].attempts <= 1
    BY DEF Counted
  <2>1. CASE u = s
    BY <1>1, <2>1
  <2>2. CASE u # s
    BY <1>1, <2>2, WorkingFacts DEF Counted
  <2> QED
    BY <2>1, <2>2
<1>5. Counted(file)'
  <2>1. CASE file' = mem'
    BY <1>4, <2>1 DEF Counted
  <2>2. CASE file' = file
    BY <2>2, WorkingFacts DEF Counted
  <2> QED
    BY <2>1, <2>2
<1>6. StartIsDurable'
  <2>1. ASSUME NEW u \in Ordinals PROVE begun'[u] <= file'.slots[u].attempts
    <3>1. begun[u] <= file.slots[u].attempts
      BY WorkingFacts DEF StartIsDurable
    <3> QED
      BY <1>3, <3>1, WorkingFacts
  <2>2. ASSUME NEW u \in Ordinals, at'[u] = "started" PROVE begun'[u] < file'.slots[u].attempts
    <3>1. CASE u = s
      BY <2>2, <3>1 DEF IInv, TypesOK
    <3>2. CASE u # s
      <4>1. at[u] = "started"
        BY <2>2, <3>2 DEF IInv, TypesOK
      <4>2. begun[u] < file.slots[u].attempts
        BY <4>1, WorkingFacts DEF StartIsDurable
      <4> QED
        BY <1>3, <4>2, WorkingFacts
    <3> QED
      BY <3>1, <3>2
  <2> QED
    BY <1>2, <2>1, <2>2 DEF StartIsDurable
<1>7. ASSUME NEW u \in Ordinals PROVE ThreadOK(u)'
  <2>1. CASE u = s
    <3>1. at'[s] = point
      BY DEF IInv, TypesOK
    <3>2. (at'[s] = "queued" /\ Strict') => slot.attempts = 0
      BY <1>1, <3>1 DEF Strict
    <3> QED
      BY <1>1, <1>3, <2>1, <3>1, <3>2 DEF ThreadOK
  <2>2. CASE u # s
    <3>1. at'[u] = at[u] /\ mem'.slots[u] = mem.slots[u] /\ Strict' = Strict
      BY <1>1, <2>2 DEF IInv, TypesOK, Strict
    <3>2. main # "publish" /\ ThreadOK(u)
      BY WorkingFacts
    <3> QED
      BY <1>1, <1>3, <3>1, <3>2 DEF ThreadOK
  <2> QED
    BY <2>1, <2>2
<1>8. TypesOK'
  BY <1>1, <1>2 DEF IInv, TypesOK, States
<1> QED
  BY <1>1, <1>2, <1>4, <1>5, <1>6, <1>7, <1>8, WorkingFacts DEF IInv, Opened

----------------------------------------------------------------------------
(* The invariant holds before the first process. *)
LEMMA InitIInv == Init => IInv
<1> SUFFICES ASSUME Init PROVE IInv
  OBVIOUS
<1>1. Slots \in Nat \ {0} /\ MaxProcesses \in Nat
  BY CampaignAssumption
<1>2. TypesOK
  BY <1>1 DEF Init, TypesOK, States, Ordinals
<1> QED
  BY <1>2 DEF Init, IInv, Opened, StartIsDurable

(* A process that is over leaves its files as they are. *)
LEMMA LeaveIInv ==
  ASSUME IInv, Leave, UNCHANGED <<file, processes, begun>>,
         published' \in [Ordinals -> SlotStates] \cup {<<>>}
  PROVE  IInv'
<1>1. 1 \in 1..Slots + 1 /\ 1 \in Ordinals
  BY CampaignAssumption DEF Ordinals
<1>2. TypesOK'
  BY <1>1 DEF IInv, TypesOK, Leave, States
<1>3. StartIsDurable'
  <2>1. \A s \in Ordinals : at'[s] = "out"
    BY DEF Leave
  <2> QED
    BY <2>1 DEF IInv, StartIsDurable
<1>4. file' # NoState => Counted(file)'
  BY DEF IInv, Counted
<1> QED
  BY <1>2, <1>3, <1>4 DEF IInv, Leave, Opened

(* A new campaign has made no attempt. *)
LEMMA FreshFacts ==
  ASSUME NEW q \in Requests
  PROVE  /\ Fresh(q) \in OpenStates /\ Fresh(q).digest = q
         /\ \A s \in Ordinals : /\ Fresh(q).slots[s].attempts = 0
                                /\ Fresh(q).slots[s].history = <<>>
                                /\ Fresh(q).slots[s].status = "pending"
<1>1. 0 \in 0..MaxAttempts
  BY CampaignAssumption DEF MaxAttempts
<1>2. <<>> \in Seq(1..MaxAttempts)
  OBVIOUS
<1>3. [status |-> "pending", attempts |-> 0, evidence |-> NoEvidence, history |-> <<>>]
        \in SlotStates
  BY <1>1, <1>2 DEF SlotStates
<1> QED
  BY <1>3 DEF Fresh, OpenStates

LEMMA OpenIInv ==
  ASSUME IInv, NEW q \in Requests, Open(q) PROVE IInv'
<1>1. /\ main = "idle" /\ processes' = processes + 1
      /\ processes \in Nat /\ MaxProcesses \in Nat /\ processes < MaxProcesses
      /\ UNCHANGED <<published, next, at, held, begun>>
  BY CampaignAssumption DEF Open, IInv, TypesOK, threadVars
<1>2. processes' \in 0..MaxProcesses /\ processes' # 0
  BY <1>1
<1>3. \A s \in Ordinals : at[s] = "out"
  BY <1>1 DEF IInv, TypesOK
<1>4. ASSUME NEW state \in OpenStates, Counted(state), state.digest \in Requests
      PROVE  \A s \in Ordinals :
               /\ state.slots[s].attempts \in Nat
               /\ state.slots[s].attempts <= (processes' - 1) * state.digest.retries
               /\ state.slots[s].attempts <= processes' * state.digest.retries
  <2> SUFFICES ASSUME NEW s \in Ordinals
               PROVE  /\ state.slots[s].attempts \in Nat
                      /\ state.slots[s].attempts <= (processes' - 1) * state.digest.retries
                      /\ state.slots[s].attempts <= processes' * state.digest.retries
    OBVIOUS
  <2>1. state.slots[s].attempts \in 0..MaxAttempts
    BY DEF OpenStates, SlotStates
  <2>2. state.slots[s].attempts \in Nat
    BY <2>1
  <2>3. state.digest.retries \in {1, 2}
    BY <1>4, RequestFacts
  <2>4. state.slots[s].attempts <= processes * state.digest.retries
    BY <1>4 DEF Counted
  <2>5. (processes' - 1) * state.digest.retries = processes * state.digest.retries
    BY <1>1
  <2>6. CASE state.digest.retries = 1
    BY <1>1, <2>2, <2>4, <2>5, <2>6
  <2>7. CASE state.digest.retries = 2
    BY <1>1, <2>2, <2>4, <2>5, <2>7
  <2> QED
    BY <2>3, <2>6, <2>7
<1>5. CASE file = NoState
  <2>1. mem' = Fresh(q) /\ file' = mem' /\ main' = "select"
    BY <1>5 DEF Open, Saved
  <2>2. /\ mem' \in OpenStates /\ mem'.digest \in Requests /\ mem' # NoState
        /\ \A s \in Ordinals : /\ mem'.slots[s].attempts = 0 /\ mem'.slots[s].history = <<>>
                               /\ mem'.slots[s].status = "pending"
    BY <2>1, FreshFacts, OpenIsSomething
  <2>3. mem'.digest.retries \in {1, 2}
    BY <2>2, RequestFacts
  <2>4. 0 <= processes' * mem'.digest.retries /\ 0 <= (processes' - 1) * mem'.digest.retries
    <3>1. CASE mem'.digest.retries = 1
      BY <1>1, <3>1
    <3>2. CASE mem'.digest.retries = 2
      BY <1>1, <3>2
    <3> QED
      BY <2>3, <3>1, <3>2
  <2>5. ASSUME NEW s \in Ordinals PROVE SlotOK(mem'.slots[s])
    BY <2>2 DEF SlotOK, Ascending, Before
  <2>6. Counted(mem)' /\ Counted(file)'
    BY <2>1, <2>2, <2>4, <2>5 DEF Counted
  <2>7. StartIsDurable'
    BY <1>1, <1>3, <1>5, <2>1, <2>2 DEF IInv, StartIsDurable
  <2>8. ASSUME NEW s \in Ordinals PROVE ThreadOK(s)'
    BY <1>1, <1>3, <2>1, <2>2, <2>4 DEF ThreadOK
  <2>9. TypesOK'
    BY <1>1, <1>2, <1>3, <2>1, <2>2 DEF IInv, TypesOK, States
  <2> QED
    BY <1>2, <2>1, <2>2, <2>6, <2>7, <2>8, <2>9 DEF IInv, Opened
<1>6. CASE file # NoState /\ file.digest = q
  <2>1. mem' = file /\ file' = file /\ main' = "select"
    BY <1>6 DEF Open
  <2>2. file \in OpenStates /\ file.digest \in Requests /\ Counted(file)
    BY <1>6 DEF IInv, TypesOK, States, OpenStates
  <2>3. ASSUME NEW s \in Ordinals
        PROVE  /\ file.slots[s].attempts \in Nat
               /\ file.slots[s].attempts <= (processes' - 1) * file.digest.retries
               /\ file.slots[s].attempts <= processes' * file.digest.retries
    BY <1>4, <2>2
  <2>4. Counted(mem)' /\ Counted(file)'
    BY <2>1, <2>2, <2>3 DEF Counted
  <2>5. StartIsDurable'
    BY <1>1, <2>1 DEF IInv, StartIsDurable
  <2>6. ASSUME NEW s \in Ordinals PROVE ThreadOK(s)'
    BY <1>1, <1>3, <2>1, <2>3 DEF ThreadOK
  <2>7. TypesOK'
    BY <1>1, <1>2, <1>3, <2>1, <2>2 DEF IInv, TypesOK, States
  <2> QED
    BY <1>2, <2>1, <2>2, <2>4, <2>5, <2>6, <2>7 DEF IInv, Opened
<1>7. CASE file # NoState /\ file.digest # q
  <2>1. UNCHANGED <<file, mem, main>>
    BY <1>7 DEF Open
  <2>2. file \in OpenStates /\ file.digest \in Requests /\ Counted(file)
    BY <1>7 DEF IInv, TypesOK, States, OpenStates
  <2>3. Counted(file)'
    BY <1>4, <2>1, <2>2 DEF Counted
  <2>4. TypesOK' /\ StartIsDurable'
    BY <1>1, <1>2, <2>1 DEF IInv, TypesOK, StartIsDurable
  <2> QED
    BY <1>1, <2>1, <2>3, <2>4 DEF IInv, Opened
<1> QED
  BY <1>5, <1>6, <1>7

----------------------------------------------------------------------------
(* A slot that is not worked on in this process keeps what it had. *)
LEMMA NextPosition ==
  ASSUME IInv, NEW s \in Ordinals, Select(s)
  PROVE  /\ main = "select" /\ main' \in {"select", "run"}
         /\ next' \in 1..Slots + 1 /\ (main' = "select" => next' \in Ordinals)
         /\ held' \in [Ordinals -> Judged \cup {"none", "exception"}]
         /\ UNCHANGED <<published, processes, begun>>
<1>1. Slots \in Nat /\ s \in Nat /\ s >= 1 /\ s <= Slots
  BY CampaignAssumption DEF Ordinals
<1>2. main = "select" /\ next' = s + 1 /\ main' = IF s = Slots THEN "run" ELSE main
  BY DEF Select
<1>3. next' \in 1..Slots + 1 /\ (main' = "select" => next' \in Ordinals)
  BY <1>1, <1>2 DEF Ordinals
<1> QED
  BY <1>2, <1>3 DEF Select, IInv, TypesOK

(* A step of the selection or of the threads that leaves the files alone.  *)
LEMMA QuietStep ==
  ASSUME IInv, main \in {"select", "run"}, NEW s \in Ordinals,
         NEW point \in {"out", "queued", "again", "started", "agent", "returned", "caught",
                        "done", "raised"},
         UNCHANGED <<file, mem, published, processes>>,
         at' = [at EXCEPT ![s] = point],
         main' \in {"select", "run"}, next' \in 1..Slots + 1,
         main' = "select" => next' \in Ordinals,
         main' = "select" => main = "select" /\ point \in {"out", "queued"},
         held' \in [Ordinals -> Judged \cup {"none", "exception"}],
         begun' \in [Ordinals -> Nat],
         \A u \in Ordinals : u # s => begun'[u] = begun[u],
         begun'[s] <= file.slots[s].attempts,
         point = "started" => begun'[s] < file.slots[s].attempts,
         ThreadOK(s)'
  PROVE  IInv'
<1>1. Counted(file)' /\ Counted(mem)'
  BY WorkingFacts DEF Counted
<1>2. \A u \in Ordinals : at'[u] = IF u = s THEN point ELSE at[u]
  BY DEF IInv, TypesOK
<1>3. StartIsDurable'
  BY <1>2, WorkingFacts DEF StartIsDurable
<1>4. ASSUME NEW u \in Ordinals PROVE ThreadOK(u)'
  <2>1. CASE u = s
    BY <2>1
  <2>2. CASE u # s
    <3>1. at'[u] = at[u] /\ main # "publish" /\ Strict' = Strict
      BY <1>2, <2>2 DEF Strict
    <3> QED
      BY <3>1, WorkingFacts DEF ThreadOK
  <2> QED
    BY <2>1, <2>2
<1>5. TypesOK'
  BY DEF IInv, TypesOK
<1> QED
  BY <1>1, <1>3, <1>4, <1>5, WorkingFacts DEF IInv, Opened

LEMMA SelectIInv ==
  ASSUME IInv, NEW s \in Ordinals, Select(s) PROVE IInv'
<1>1. main = "select" /\ at[s] \in {"out", "queued"} /\ main' # "publish"
      /\ begun' = begun /\ processes' = processes
  BY NextPosition DEF IInv, TypesOK
<1>2. ThreadOK(s) /\ mem \in OpenStates /\ processes \in Nat
      /\ mem.slots[s].attempts \in Nat /\ file.slots[s].attempts \in Nat
      /\ file \in OpenStates /\ mem.digest = file.digest
  BY <1>1, WorkingFacts
<1>3. begun \in [Ordinals -> Nat] /\ begun[s] <= file.slots[s].attempts
  BY <1>1, WorkingFacts DEF IInv, TypesOK, StartIsDurable
<1>4. mem.slots[s].attempts <= (processes - 1) * mem.digest.retries
  BY <1>1, <1>2 DEF ThreadOK
<1>5. CASE Enqueue(s)
  <2>1. at' = [at EXCEPT ![s] = "queued"] /\ UNCHANGED <<file, mem>>
        /\ (Strict => mem.slots[s].attempts = 0)
    BY <1>5 DEF Enqueue, Goto
  <2>2. at'[s] = "queued" /\ Strict' = Strict
    BY <2>1 DEF IInv, TypesOK, Strict
  <2>3. ThreadOK(s)'
    BY <1>1, <1>2, <1>4, <2>1, <2>2 DEF ThreadOK
  <2> QED
    BY <1>1, <1>3, <2>1, <2>3, NextPosition, QuietStep
<1>6. CASE FailClosed(s)
  <2>1. mem' = Changed(s, Failed(s), "running") /\ file' = mem' /\ at' = at
    BY <1>6 DEF FailClosed, Saved
  <2>2. at' = [at EXCEPT ![s] = at[s]]
    BY <2>1 DEF IInv, TypesOK
  <2>3. /\ Failed(s) \in SlotStates
        /\ Failed(s).attempts = mem.slots[s].attempts
        /\ Failed(s).history = mem.slots[s].history
        /\ Failed(s).status = "failed"
    BY <1>2, FailedSlot
  <2>4. /\ SlotOK(mem.slots[s])
        /\ mem.slots[s].attempts <= processes * mem.digest.retries
        /\ ~mem.digest.rerun => mem.slots[s].attempts <= 1
    BY <1>1, WorkingFacts DEF Counted
  <2>5. SlotOK(Failed(s))
    BY <2>3, <2>4 DEF SlotOK
  <2>6. mem.slots[s].attempts <= mem.slots[s].attempts
    BY <1>2
  <2>7. at[s] = "queued" /\ Strict => mem.slots[s].attempts = 0
    BY <1>2 DEF ThreadOK
  <2> QED
    BY <1>1, <1>4, <2>1, <2>2, <2>3, <2>4, <2>5, <2>6, <2>7, NextPosition, MemoryStep
<1>7. CASE SkipCompleted(s)
  <2>1. UNCHANGED <<file, mem, at>>
    BY <1>7 DEF SkipCompleted
  <2>2. at' = [at EXCEPT ![s] = at[s]]
    BY <2>1 DEF IInv, TypesOK
  <2>3. ThreadOK(s)'
    BY <1>1, <1>2, <2>1 DEF ThreadOK, Strict
  <2> QED
    BY <1>1, <1>3, <2>1, <2>2, <2>3, NextPosition, QuietStep
<1> QED
  BY <1>5, <1>6, <1>7 DEF Select

----------------------------------------------------------------------------
(* A thread at work, and its slot. *)
LEMMA ThreadFacts ==
  ASSUME IInv, NEW s \in Ordinals, at[s] \notin {"out", "queued"} \/ main = "run"
  PROVE  /\ main = "run" /\ ThreadOK(s)
         /\ processes \in Nat /\ processes # 0 /\ processes <= MaxProcesses
         /\ mem \in OpenStates /\ file \in OpenStates /\ mem.digest = file.digest
         /\ mem.digest.retries \in {1, 2} /\ (~mem.digest.rerun => mem.digest.retries = 1)
         /\ mem.slots[s] \in SlotStates
         /\ mem.slots[s].attempts \in Nat /\ file.slots[s].attempts \in Nat
         /\ begun[s] \in Nat /\ begun[s] <= file.slots[s].attempts
         /\ file.slots[s].attempts <= mem.slots[s].attempts
         /\ SlotOK(mem.slots[s])
         /\ mem.slots[s].attempts <= processes * mem.digest.retries
         /\ ~mem.digest.rerun => mem.slots[s].attempts <= 1
         /\ next \in 1..Slots + 1 /\ held \in [Ordinals -> Judged \cup {"none", "exception"}]
         /\ begun \in [Ordinals -> Nat]
<1>1. main = "run" /\ next \in 1..Slots + 1 /\ begun \in [Ordinals -> Nat]
      /\ held \in [Ordinals -> Judged \cup {"none", "exception"}]
  BY DEF IInv, TypesOK
<1>2. mem.digest.retries \in {1, 2} /\ (~mem.digest.rerun => mem.digest.retries = 1)
  BY <1>1, WorkingFacts, RequestFacts
<1>3. begun[s] <= file.slots[s].attempts /\ ThreadOK(s)
  BY <1>1, WorkingFacts DEF StartIsDurable
<1>4. file.slots[s].attempts <= mem.slots[s].attempts
  BY <1>3 DEF ThreadOK
<1>5. /\ SlotOK(mem.slots[s])
      /\ mem.slots[s].attempts <= processes * mem.digest.retries
      /\ ~mem.digest.rerun => mem.slots[s].attempts <= 1
  BY <1>1, WorkingFacts DEF Counted
<1> QED
  BY <1>1, <1>2, <1>3, <1>4, <1>5, WorkingFacts

(* The retries on record are numbers. *)
LEMMA HistoryFacts ==
  ASSUME NEW slot \in SlotStates
  PROVE  /\ slot.history \in Seq(Nat)
         /\ \A i \in DOMAIN slot.history : slot.history[i] \in Nat
<1>1. MaxAttempts \in Nat
  BY CampaignAssumption DEF MaxAttempts
<1>2. slot.history \in Seq(1..MaxAttempts)
  BY DEF SlotStates
<1>3. ASSUME NEW S, NEW q \in Seq(S), S \subseteq Nat PROVE q \in Seq(Nat)
  <2>1. Len(q) \in Nat /\ DOMAIN q = 1..Len(q)
    OBVIOUS
  <2>2. \A i \in 1..Len(q) : q[i] \in S
    OBVIOUS
  <2>3. q = [i \in 1..Len(q) |-> q[i]]
    OBVIOUS
  <2> QED
    BY <1>3, <2>1, <2>2, <2>3
<1>4. ASSUME NEW q \in Seq(Nat), NEW i \in DOMAIN q PROVE q[i] \in Nat
  OBVIOUS
<1>5. 1..MaxAttempts \subseteq Nat
  BY <1>1
<1>6. slot.history \in Seq(Nat)
  BY <1>2, <1>3, <1>5
<1> QED
  BY <1>4, <1>6

LEMMA MarkIInv ==
  ASSUME IInv, NEW s \in Ordinals, Mark(s) PROVE IInv'
<1> DEFINE old == mem.slots[s]
           slot == [old EXCEPT !.status = "running", !.attempts = @ + 1]
<1>1. main = "run" /\ main' = main /\ next' = next /\ held' = held
      /\ UNCHANGED <<published, processes, begun>> /\ MayStart(s)
  BY DEF Mark
<1>2. mem' = Changed(s, slot, "running")
  BY DEF Mark, Marked
<1>3. old.attempts + 1 <= processes * mem.digest.retries
      /\ (~mem.digest.rerun => old.attempts + 1 <= 1)
  <2>1. CASE at[s] = "again"
    <3>1. old.attempts < mem.digest.retries
      BY <1>1, <2>1, ThreadFacts DEF ThreadOK
    <3> QED
      BY <1>1, <3>1, ThreadFacts, AttemptsBounded
  <2>2. CASE at[s] = "queued"
    <3>1. old.attempts <= (processes - 1) * mem.digest.retries
          /\ (~mem.digest.rerun => old.attempts = 0)
      BY <1>1, <2>2, ThreadFacts DEF ThreadOK, Strict
    <3>2. old.attempts + 1 <= processes * mem.digest.retries
      BY <1>1, <3>1, ThreadFacts, AttemptsBounded
    <3> QED
      BY <3>1, <3>2
  <2> QED
    BY <1>1, <2>1, <2>2 DEF MayStart
<1>4. old.attempts \in Nat /\ old.attempts + 1 \in Nat
  BY <1>1, ThreadFacts
<1>5. old.attempts + 1 \in 0..MaxAttempts
  BY <1>1, <1>3, <1>4, ThreadFacts, AttemptsBounded
<1>6. /\ slot \in SlotStates /\ slot.attempts = old.attempts + 1
      /\ slot.history = old.history /\ slot.status = "running"
  BY <1>1, <1>5, ThreadFacts, MarkedSlot
<1>7. SlotOK(old) /\ old \in SlotStates
  BY <1>1, ThreadFacts
<1>8. Before(slot.history, slot.attempts) /\ Ascending(slot.history)
  BY <1>6, <1>7 DEF SlotOK
<1>9. Before(slot.history, slot.attempts + 1)
  <2>1. \A i \in DOMAIN old.history : old.history[i] \in Nat
    BY <1>7, HistoryFacts
  <2>3. \A i \in DOMAIN slot.history : slot.history[i] \in Nat
    BY <1>6, <2>1
  <2>4. slot.attempts \in Nat
    BY <1>4, <1>6
  <2> HIDE DEF old, slot
  <2> QED
    BY <1>8, <2>3, <2>4 DEF Before
<1>10. SlotOK(slot)
  BY <1>6, <1>8, <1>9 DEF SlotOK
<1>11. CASE Saved /\ Goto(s, "started")
  <2>1. file' = mem' /\ at' = [at EXCEPT ![s] = "started"]
    BY <1>11 DEF Saved, Goto
  <2>2. mem'.slots[s] = slot
    BY <1>1, <1>2, <1>6, ThreadFacts, ChangedFacts
  <2>3. begun[s] < file'.slots[s].attempts
    <3>1. file'.slots[s].attempts = old.attempts + 1
      BY <1>6, <2>1, <2>2
    <3>2. /\ begun[s] \in Nat /\ file.slots[s].attempts \in Nat
          /\ begun[s] <= file.slots[s].attempts /\ file.slots[s].attempts <= old.attempts
      BY <1>1, ThreadFacts
    <3> QED
      BY <1>4, <3>1, <3>2
  <2>4. old.attempts <= slot.attempts /\ slot.attempts >= 1
    BY <1>4, <1>6
  <2> HIDE DEF old, slot
  <2> QED
    BY <1>1, <1>2, <1>3, <1>6, <1>8, <1>10, <2>1, <2>3, <2>4, ThreadFacts, MemoryStep DEF old
<1>12. CASE Unsaved /\ Goto(s, "raised")
  <2>1. file' = file /\ at' = [at EXCEPT ![s] = "raised"]
    BY <1>12 DEF Unsaved, Goto
  <2>2. old.attempts <= slot.attempts /\ slot.attempts >= 1
    BY <1>4, <1>6
  <2> HIDE DEF old, slot
  <2> QED
    BY <1>1, <1>2, <1>3, <1>6, <1>8, <1>10, <2>1, <2>2, ThreadFacts, MemoryStep DEF old
<1> QED
  BY <1>11, <1>12 DEF Mark

LEMMA RunAgentIInv ==
  ASSUME IInv, NEW s \in Ordinals, RunAgent(s) PROVE IInv'
<1>1. /\ at[s] = "started" /\ at' = [at EXCEPT ![s] = "agent"]
      /\ begun' = [begun EXCEPT ![s] = @ + 1]
      /\ UNCHANGED <<file, published, processes, main, next, mem, held>>
  BY DEF RunAgent, Goto
<1>2. main = "run"
  BY <1>1, ThreadFacts
<1>3. begun[s] < file.slots[s].attempts
  BY <1>1, <1>2, WorkingFacts DEF StartIsDurable
<1>4. begun'[s] = begun[s] + 1 /\ begun' \in [Ordinals -> Nat]
      /\ \A u \in Ordinals : u # s => begun'[u] = begun[u]
  BY <1>1, <1>2, ThreadFacts
<1>5. begun'[s] <= file.slots[s].attempts
  BY <1>2, <1>3, <1>4, ThreadFacts
<1>6. at'[s] = "agent"
  BY <1>1 DEF IInv, TypesOK
<1>7. ThreadOK(s)'
  BY <1>1, <1>2, <1>6, ThreadFacts DEF ThreadOK, Strict
<1> QED
  BY <1>1, <1>2, <1>4, <1>5, <1>7, ThreadFacts, QuietStep

LEMMA AgentReturnsIInv ==
  ASSUME IInv, NEW s \in Ordinals, AgentReturns(s) PROVE IInv'
<1>1. /\ at[s] = "agent" /\ at' = [at EXCEPT ![s] = "returned"]
      /\ UNCHANGED <<file, published, processes, main, next, mem, begun>>
      /\ \E result \in Judged \cup {"exception"} : held' = [held EXCEPT ![s] = result]
  BY DEF AgentReturns, Goto
<1>2. main = "run"
  BY <1>1, ThreadFacts
<1>3. held' \in [Ordinals -> Judged \cup {"none", "exception"}]
  BY <1>1, <1>2, ThreadFacts
<1>4. at'[s] = "returned"
  BY <1>1 DEF IInv, TypesOK
<1>5. ThreadOK(s)'
  BY <1>1, <1>2, <1>4, ThreadFacts DEF ThreadOK, Strict
<1> QED
  BY <1>1, <1>2, <1>3, <1>5, ThreadFacts, QuietStep

(* An attempt later than all on record goes to the end of the record. *)
LEMMA AppendedHistory ==
  ASSUME NEW q \in Seq(Nat), NEW a \in Nat, Ascending(q), Before(q, a)
  PROVE  Ascending(Append(q, a)) /\ Before(Append(q, a), a + 1)
<1> DEFINE longer == Append(q, a)
<1>1. /\ Len(q) \in Nat /\ DOMAIN q = 1..Len(q) /\ DOMAIN longer = 1..(Len(q) + 1)
      /\ longer[Len(q) + 1] = a
      /\ \A i \in 1..Len(q) : longer[i] = q[i] /\ q[i] \in Nat
  OBVIOUS
<1>2. \A i \in 1..Len(q) : longer[i] < a /\ longer[i] \in Nat
  BY <1>1 DEF Before
<1> HIDE DEF longer
<1>3. Ascending(longer)
  <2> SUFFICES ASSUME NEW i \in 1..(Len(q) + 1), NEW j \in 1..(Len(q) + 1), i < j
               PROVE  longer[i] < longer[j]
    BY <1>1 DEF Ascending
  <2>1. i \in 1..Len(q)
    BY <1>1
  <2>2. CASE j = Len(q) + 1
    BY <1>1, <1>2, <2>1, <2>2
  <2>3. CASE j # Len(q) + 1
    <3>1. j \in 1..Len(q)
      BY <1>1, <2>3
    <3> QED
      BY <1>1, <2>1, <3>1 DEF Ascending
  <2> QED
    BY <2>2, <2>3
<1>4. Before(longer, a + 1)
  <2> SUFFICES ASSUME NEW i \in 1..(Len(q) + 1) PROVE longer[i] < a + 1
    BY <1>1 DEF Before
  <2>1. CASE i = Len(q) + 1
    BY <1>1, <2>1
  <2>2. CASE i # Len(q) + 1
    <3>1. i \in 1..Len(q)
      BY <1>1, <2>2
    <3> QED
      BY <1>2, <3>1
  <2> QED
    BY <2>1, <2>2
<1> QED
  BY <1>3, <1>4 DEF longer

LEMMA RecordIInv ==
  ASSUME IInv, NEW s \in Ordinals, Record(s) PROVE IInv'
<1> DEFINE old == mem.slots[s]
<1>1. /\ at[s] = "returned" /\ held[s] \in Judged
      /\ mem' = Changed(s, Judge(s), mem.status)
      /\ held' = [held EXCEPT ![s] = "none"]
      /\ UNCHANGED <<published, processes, main, next, begun>>
  BY DEF Record
<1>2. main = "run" /\ ThreadOK(s) /\ SlotOK(old) /\ old \in SlotStates /\ old.attempts \in Nat
      /\ mem \in OpenStates
      /\ old.attempts <= processes * mem.digest.retries
      /\ (~mem.digest.rerun => old.attempts <= 1)
  BY <1>1, ThreadFacts
<1>3. old.attempts >= 1 /\ Before(old.history, old.attempts)
  BY <1>1, <1>2 DEF ThreadOK
<1>4. old.attempts \in 1..MaxAttempts
  <2>1. old.attempts \in 0..MaxAttempts
    BY <1>2 DEF SlotStates
  <2> QED
    BY <1>3, <2>1
<1>5. /\ Judge(s) \in SlotStates
      /\ Judge(s).attempts = old.attempts /\ Judge(s).evidence.attempt = old.attempts
      /\ Judge(s).history = IF Retry(s) THEN Append(old.history, old.attempts) ELSE old.history
      /\ Judge(s).status = IF Retry(s) THEN "retry_pending" ELSE "completed"
  BY <1>1, <1>2, <1>4, JudgedSlot
<1>6. SlotOK(Judge(s))
  <2>1. CASE Retry(s)
    <3>1. Ascending(Append(old.history, old.attempts))
          /\ Before(Append(old.history, old.attempts), old.attempts + 1)
      BY <1>2, <1>3, HistoryFacts, AppendedHistory DEF SlotOK
    <3> QED
      BY <1>5, <2>1, <3>1 DEF SlotOK
  <2>2. CASE ~Retry(s)
    BY <1>2, <1>3, <1>5, <2>2 DEF SlotOK
  <2> QED
    BY <2>1, <2>2
<1>7. held' \in [Ordinals -> Judged \cup {"none", "exception"}]
  BY <1>1, <1>2, ThreadFacts
<1>8. mem.status \in {"running", "completed", "completed_with_failures"}
  BY <1>2 DEF OpenStates
<1>9. Retry(s) => old.attempts < mem.digest.retries
  BY DEF Retry
<1>10. old.attempts <= old.attempts
  BY <1>2
<1>11. /\ next' \in 1..Slots + 1 /\ main' = "run" /\ main = "run"
       /\ (main' = "select" => next' \in Ordinals)
  BY <1>1, <1>2, ThreadFacts
<1>12. \/ file' = mem' /\ at' = [at EXCEPT ![s] = IF Retry(s) THEN "again" ELSE "done"]
       \/ file' = file /\ at' = [at EXCEPT ![s] = "caught"]
  BY DEF Record, Saved, Unsaved, Goto
<1> HIDE DEF old
<1>13. CASE file' = mem' /\ at' = [at EXCEPT ![s] = "again"] /\ Retry(s)
  BY <1>1, <1>2, <1>3, <1>5, <1>6, <1>7, <1>8, <1>9, <1>10, <1>11, <1>13, MemoryStep DEF old
<1>14. CASE file' = mem' /\ at' = [at EXCEPT ![s] = "done"]
  BY <1>1, <1>2, <1>3, <1>5, <1>6, <1>7, <1>8, <1>10, <1>11, <1>14, MemoryStep DEF old
<1>15. CASE file' = file /\ at' = [at EXCEPT ![s] = "caught"]
  BY <1>1, <1>2, <1>3, <1>5, <1>6, <1>7, <1>8, <1>10, <1>11, <1>15, MemoryStep DEF old
<1> QED
  BY <1>12, <1>13, <1>14, <1>15

LEMMA CatchIInv ==
  ASSUME IInv, NEW s \in Ordinals, Catch(s) PROVE IInv'
<1> DEFINE old == mem.slots[s]
<1>1. /\ at[s] \in {"caught", "returned"}
      /\ mem' = Changed(s, Failed(s), mem.status)
      /\ held' = [held EXCEPT ![s] = "none"]
      /\ UNCHANGED <<published, processes, main, next, begun>>
  BY DEF Catch
<1>2. main = "run" /\ SlotOK(old) /\ old.attempts \in Nat /\ mem \in OpenStates
      /\ old.attempts <= processes * mem.digest.retries
      /\ (~mem.digest.rerun => old.attempts <= 1)
  BY <1>1, ThreadFacts
<1>3. /\ Failed(s) \in SlotStates /\ Failed(s).attempts = old.attempts
      /\ Failed(s).history = old.history /\ Failed(s).status = "failed"
  BY <1>2, FailedSlot
<1>4. SlotOK(Failed(s))
  BY <1>2, <1>3 DEF SlotOK
<1>5. held' \in [Ordinals -> Judged \cup {"none", "exception"}]
  BY <1>1, <1>2, ThreadFacts
<1>6. mem.status \in {"running", "completed", "completed_with_failures"}
  BY <1>2 DEF OpenStates
<1>7. old.attempts <= old.attempts
  BY <1>2
<1>8. /\ next' \in 1..Slots + 1 /\ main' = "run" /\ main = "run"
      /\ (main' = "select" => next' \in Ordinals)
  BY <1>1, <1>2, ThreadFacts
<1>9. \/ file' = mem' /\ at' = [at EXCEPT ![s] = "done"]
      \/ file' = file /\ at' = [at EXCEPT ![s] = "raised"]
  BY DEF Catch, Saved, Unsaved, Goto
<1> HIDE DEF old
<1>10. CASE file' = mem' /\ at' = [at EXCEPT ![s] = "done"]
  BY <1>1, <1>2, <1>3, <1>4, <1>5, <1>6, <1>7, <1>8, <1>10, MemoryStep DEF old
<1>11. CASE file' = file /\ at' = [at EXCEPT ![s] = "raised"]
  BY <1>1, <1>2, <1>3, <1>4, <1>5, <1>6, <1>7, <1>8, <1>11, MemoryStep DEF old
<1> QED
  BY <1>9, <1>10, <1>11

LEMMA ConcludeIInv == ASSUME IInv, Conclude PROVE IInv'
<1> DEFINE verdict == IF AllCompleted(mem) THEN "completed" ELSE "completed_with_failures"
<1>1. /\ main = "run" /\ mem' = [mem EXCEPT !.status = verdict] /\ file' = mem'
      /\ main' = "publish" /\ at' = [s \in Ordinals |-> "out"]
      /\ UNCHANGED <<published, processes, next, held, begun>>
  BY DEF Conclude, Joined, Saved
<1>2. mem \in OpenStates /\ file \in OpenStates /\ Counted(mem)
      /\ processes # 0 /\ \A s \in Ordinals : begun[s] <= file.slots[s].attempts /\ ThreadOK(s)
  BY <1>1, WorkingFacts DEF StartIsDurable
<1>3. verdict \in {"running", "completed", "completed_with_failures"}
  OBVIOUS
<1> HIDE DEF verdict
<1>4. mem' \in OpenStates /\ mem'.digest = mem.digest /\ mem'.slots = mem.slots
  BY <1>1, <1>2, <1>3 DEF OpenStates
<1>5. mem' # NoState
  BY <1>4, OpenIsSomething
<1>6. Counted(mem)' /\ Counted(file)'
  BY <1>1, <1>2, <1>4 DEF Counted
<1>7. ASSUME NEW s \in Ordinals
      PROVE  /\ begun'[s] <= file'.slots[s].attempts /\ at'[s] = "out"
             /\ file'.slots[s].attempts <= mem'.slots[s].attempts
  <2>1. /\ begun[s] \in Nat /\ file.slots[s].attempts \in Nat /\ mem.slots[s].attempts \in Nat
        /\ begun[s] <= file.slots[s].attempts
    BY <1>1, WorkingFacts DEF StartIsDurable
  <2>2. file.slots[s].attempts <= mem.slots[s].attempts
    BY <1>2 DEF ThreadOK
  <2>3. file'.slots[s] = mem.slots[s] /\ mem'.slots[s] = mem.slots[s]
    BY <1>1, <1>4
  <2> QED
    BY <1>1, <2>1, <2>2, <2>3
<1>8. StartIsDurable'
  BY <1>1, <1>5, <1>7 DEF StartIsDurable
<1>9. \A s \in Ordinals : ThreadOK(s)'
  BY <1>1, <1>7 DEF ThreadOK
<1>10. TypesOK'
  BY <1>1, <1>4 DEF IInv, TypesOK, States
<1> QED
  BY <1>1, <1>2, <1>4, <1>6, <1>8, <1>9, <1>10 DEF IInv, Opened

LEMMA PublishIInv == ASSUME IInv, Publish PROVE IInv'
<1>1. Leave /\ UNCHANGED <<file, processes, begun>>
  BY DEF Publish
<1>2. mem.slots \in [Ordinals -> SlotStates]
  BY WorkingFacts DEF Publish, OpenStates
<1>3. published' \in [Ordinals -> SlotStates] \cup {<<>>}
  BY <1>2 DEF Publish, IInv, TypesOK
<1> QED
  BY <1>1, <1>3, LeaveIInv

(* The processes that end without a word. *)
LEMMA EndIInv ==
  ASSUME IInv, Leave, UNCHANGED <<file, published, processes, begun>> PROVE IInv'
  BY LeaveIInv DEF IInv, TypesOK

LEMMA NextIInv == ASSUME IInv, [Next]_vars PROVE IInv'
<1>1. ASSUME NEW q \in Requests, Open(q) PROVE IInv'
  BY <1>1, OpenIInv
<1>2. ASSUME NEW s \in Ordinals, Select(s) PROVE IInv'
  BY <1>2, SelectIInv
<1>3. ASSUME NEW s \in Ordinals, SlotStep(s) PROVE IInv'
  BY <1>3, MarkIInv, RunAgentIInv, AgentReturnsIInv, RecordIInv, CatchIInv DEF SlotStep
<1>4. CASE Reraise
  BY <1>4, EndIInv DEF Reraise
<1>5. CASE Conclude
  BY <1>5, ConcludeIInv
<1>6. CASE Publish
  BY <1>6, PublishIInv
<1>7. ASSUME NEW s \in Ordinals, FailClosedRaises(s) PROVE IInv'
  BY <1>7, EndIInv DEF FailClosedRaises
<1>8. CASE ConcludeRaises
  BY <1>8, EndIInv DEF ConcludeRaises
<1>9. CASE Crash
  BY <1>9, EndIInv DEF Crash
<1>10. CASE UNCHANGED vars
  BY <1>10 DEF vars, threadVars, IInv, TypesOK, Opened, StartIsDurable, Counted, ThreadOK, Strict
<1> QED
  BY <1>1, <1>2, <1>3, <1>4, <1>5, <1>6, <1>7, <1>8, <1>9, <1>10 DEF Next, Work

LEMMA Invariance == Spec => []IInv
  BY InitIInv, NextIInv, PTL DEF Spec

----------------------------------------------------------------------------
(* Every variable keeps its type; threads are at work only in a process    *)
(* that is, and no slot on disk has more attempts than the processes that  *)
(* worked on the campaign could have given it.                             *)
THEOREM TypeCorrect == Spec => []TypeOK
<1>1. ASSUME IInv PROVE TypeOK
  <2>1. ASSUME NEW s \in DOMAIN file.slots
        PROVE  file.slots[s].attempts <= processes * file.digest.retries
    <3>1. CASE file = NoState
      <4>1. DOMAIN file.slots = {}
        BY <3>1 DEF NoState
      <4> QED
        BY <2>1, <4>1
    <3>2. CASE file # NoState
      <4>1. file \in OpenStates
        BY <1>1, <3>2 DEF IInv, TypesOK, States
      <4>2. s \in Ordinals
        BY <4>1, <2>1 DEF OpenStates
      <4> QED
        BY <1>1, <3>2, <4>2 DEF IInv, Counted
    <3> QED
      BY <3>1, <3>2
  <2> QED
    BY <1>1, <2>1 DEF IInv, TypesOK, TypeOK
<1> QED
  BY <1>1, Invariance, PTL

(* pass@1: in a strict campaign no slot gets a second trajectory, whatever *)
(* crashes and whatever could not be saved: an attempt is on disk before   *)
(* its trajectory begins, and no later process makes a second.             *)
THEOREM PassAtOneHolds == Spec => []PassAtOne
<1>1. ASSUME IInv PROVE PassAtOne
  <2> SUFFICES ASSUME file # NoState, ~file.digest.rerun, NEW s \in Ordinals
               PROVE  begun[s] <= 1
    BY DEF PassAtOne
  <2>1. file \in OpenStates /\ begun[s] \in Nat /\ begun[s] <= file.slots[s].attempts
    BY <1>1 DEF IInv, TypesOK, States, StartIsDurable
  <2>2. file.slots[s].attempts <= 1
    BY <1>1 DEF IInv, Counted
  <2>3. file.slots[s] \in SlotStates
    BY <2>1 DEF OpenStates
  <2>4. file.slots[s].attempts \in 0..MaxAttempts
    BY <2>3 DEF SlotStates
  <2> QED
    BY <2>1, <2>2, <2>4
<1> QED
  BY <1>1, Invariance, PTL

(* Every trajectory is counted by an attempt on disk, a completed slot is  *)
(* judged by its last one, and the retries on its record are earlier ones, *)
(* each once.                                                              *)
THEOREM TrajectoriesCounted == Spec => []CountedOnce
<1>1. ASSUME IInv PROVE CountedOnce
  <2>1. CASE file = NoState
    <3>1. DOMAIN file.slots = {}
      BY <2>1 DEF NoState
    <3> QED
      BY <3>1 DEF CountedOnce
  <2>2. CASE file # NoState
    <3>1. DOMAIN file.slots = Ordinals
      BY <1>1, <2>2 DEF IInv, TypesOK, States, OpenStates
    <3>2. ASSUME NEW s \in Ordinals
          PROVE  SlotOK(file.slots[s]) /\ begun[s] <= file.slots[s].attempts
      BY <1>1, <2>2 DEF IInv, Counted, StartIsDurable
    <3>3. ASSUME NEW s \in Ordinals
          PROVE  LET slot == file.slots[s]
                 IN  /\ slot.status = "completed" => slot.evidence.attempt = slot.attempts
                     /\ \A i, j \in DOMAIN slot.history :
                          i < j => slot.history[i] < slot.history[j]
                     /\ \A i \in DOMAIN slot.history :
                          slot.status = "completed" => slot.history[i] < slot.evidence.attempt
      BY <3>2 DEF SlotOK, Ascending, Before
    <3> QED
      BY <3>1, <3>2, <3>3 DEF CountedOnce
  <2> QED
    BY <2>1, <2>2
<1> QED
  BY <1>1, Invariance, PTL

----------------------------------------------------------------------------
(* What was published is what is on disk and, in a process at work, in     *)
(* memory, where every slot is completed and none is worked on.            *)
Finished ==
  published # <<>> =>
    /\ file \in OpenStates /\ file.slots = published /\ AllCompleted(file)
    /\ main # "idle" => mem.slots = published /\ \A s \in Ordinals : at[s] = "out"
Concluded ==
  main = "publish" => /\ file.slots = mem.slots
                      /\ mem.status = "completed" => AllCompleted(mem)
PInv == Finished /\ Concluded

(* A process that finds the campaign published has nothing to do. *)
LEMMA NothingToDo ==
  ASSUME IInv, Finished, published # <<>>, NEW s \in Ordinals
  PROVE  /\ ~SlotStep(s)
         /\ main # "idle" => ~Enqueue(s) /\ ~FailClosed(s)
<1>1. at[s] = "out"
  BY DEF IInv, TypesOK, Finished
<1>2. ~SlotStep(s)
  BY <1>1 DEF SlotStep, Mark, MayStart, RunAgent, AgentReturns, Record, Catch
<1>3. main # "idle" => mem.slots[s].status = "completed"
  BY DEF Finished, AllCompleted
<1> QED
  BY <1>2, <1>3 DEF Enqueue, FailClosed

LEMMA InitPInv == Init => PInv
  BY DEF Init, PInv, Finished, Concluded

LEMMA NextPInv ==
  ASSUME IInv, PInv, [Next]_vars
  PROVE  /\ PInv'
         /\ published # <<>> => published' = published /\ begun' = begun
                                /\ file'.slots = published
<1>1. ASSUME Leave, UNCHANGED <<file, published, begun>>
      PROVE  PInv' /\ (published # <<>> => published' = published /\ begun' = begun
                                           /\ file'.slots = published)
  BY <1>1 DEF PInv, Finished, Concluded, AllCompleted, Leave
<1>2. ASSUME NEW q \in Requests, Open(q)
      PROVE  PInv' /\ (published # <<>> => published' = published /\ begun' = begun
                                           /\ file'.slots = published)
  <2>1. main = "idle" /\ main' # "publish" /\ UNCHANGED <<published, at, begun>>
        /\ \A s \in Ordinals : at[s] = "out"
    BY <1>2 DEF Open, threadVars, IInv, TypesOK
  <2>2. ASSUME published # <<>>
        PROVE  file' = file /\ (main' # "idle" => mem' = file)
    <3>1. file # NoState
      BY <2>2, OpenIsSomething DEF PInv, Finished
    <3> QED
      BY <1>2, <2>1, <3>1 DEF Open
  <2> QED
    BY <2>1, <2>2 DEF PInv, Finished, Concluded, AllCompleted
<1>3. ASSUME NEW s \in Ordinals, Select(s)
      PROVE  PInv' /\ (published # <<>> => published' = published /\ begun' = begun
                                           /\ file'.slots = published)
  <2>1. main = "select" /\ main' # "publish" /\ UNCHANGED <<published, begun>>
    BY <1>3, NextPosition
  <2>2. published # <<>> => UNCHANGED <<file, mem, at>>
    BY <1>3, <2>1, NothingToDo DEF PInv, Select, SkipCompleted
  <2> QED
    BY <2>1, <2>2 DEF PInv, Finished, Concluded, AllCompleted
<1>4. ASSUME NEW s \in Ordinals, SlotStep(s)
      PROVE  PInv' /\ (published # <<>> => published' = published /\ begun' = begun
                                           /\ file'.slots = published)
  <2>1. published = <<>>
    BY <1>4, NothingToDo DEF PInv
  <2>2. published' = <<>>
    BY <1>4, <2>1 DEF SlotStep, Mark, RunAgent, AgentReturns, Record, Catch
  <2>3. main' = main
    BY <1>4 DEF SlotStep, Mark, RunAgent, AgentReturns, Record, Catch
  <2>4. main # "publish"
    BY <1>4 DEF SlotStep, Mark, RunAgent, AgentReturns, Record, Catch, IInv, TypesOK
  <2> QED
    BY <2>1, <2>2, <2>3, <2>4 DEF PInv, Finished, Concluded
<1>5. CASE Conclude
  <2>1. /\ main = "run" /\ main' = "publish" /\ file' = mem' /\ UNCHANGED <<published, begun>>
        /\ at' = [s \in Ordinals |-> "out"]
        /\ mem' = [mem EXCEPT !.status = IF AllCompleted(mem) THEN "completed"
                                         ELSE "completed_with_failures"]
    BY <1>5 DEF Conclude, Joined, Saved
  <2>2. mem \in OpenStates
    BY <2>1, WorkingFacts
  <2>3. /\ mem' \in OpenStates /\ mem'.slots = mem.slots
        /\ mem'.status = "completed" => AllCompleted(mem)
    BY <2>1, <2>2 DEF OpenStates
  <2>4. AllCompleted(mem)' = AllCompleted(mem)
    BY <2>3 DEF AllCompleted
  <2>5. Concluded'
    BY <2>1, <2>3, <2>4 DEF Concluded
  <2>6. published # <<>> => mem.slots = published /\ AllCompleted(mem)
    BY <2>1 DEF PInv, Finished, AllCompleted
  <2>7. Finished'
    BY <2>1, <2>3, <2>6 DEF Finished, AllCompleted
  <2> QED
    BY <2>1, <2>3, <2>5, <2>6, <2>7 DEF PInv
<1>6. CASE Publish
  <2>1. /\ main = "publish" /\ main' = "idle" /\ UNCHANGED <<file, begun>>
        /\ published' = IF mem.status = "completed" THEN mem.slots ELSE published
    BY <1>6 DEF Publish, Leave
  <2>2. file \in OpenStates /\ file.slots = mem.slots
        /\ (mem.status = "completed" => AllCompleted(file))
    BY <2>1, WorkingFacts DEF PInv, Concluded, AllCompleted
  <2>3. published # <<>> => published' = published
    BY <2>1 DEF PInv, Finished
  <2> QED
    BY <2>1, <2>2, <2>3 DEF PInv, Finished, Concluded, AllCompleted
<1>7. CASE UNCHANGED vars
  BY <1>7 DEF vars, threadVars, PInv, Finished, Concluded, AllCompleted
<1>8. ASSUME Leave, UNCHANGED <<file, published, processes, begun>>
      PROVE  PInv' /\ (published # <<>> => published' = published /\ begun' = begun
                                           /\ file'.slots = published)
  BY <1>1, <1>8
<1>9. CASE Reraise \/ ConcludeRaises \/ Crash \/ \E s \in Ordinals : FailClosedRaises(s)
  BY <1>8, <1>9 DEF Reraise, ConcludeRaises, Crash, FailClosedRaises
<1> QED
  BY <1>2, <1>3, <1>4, <1>5, <1>6, <1>7, <1>9 DEF Next, Work

(* What was published stays true: a later invocation of the campaign       *)
(* begins no trajectory and changes no slot.                               *)
THEOREM PublishedStays == Spec => PublishedIsFinal
<1>1. IInv /\ PInv /\ [Next]_vars =>
        PInv' /\ [published # <<>> => published' = published /\ begun' = begun
                                      /\ file'.slots = published]_vars
  BY NextPInv
<1> QED
  BY <1>1, InitPInv, Invariance, PTL DEF Spec, PublishedIsFinal
=============================================================================
