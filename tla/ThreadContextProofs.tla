------------------------- MODULE ThreadContextProofs -------------------------
(***************************************************************************)
(* Proofs about the conversation view and its digest, for a journal, a     *)
(* page and a lookahead of any length, any batches, and any number of Runs *)
(* of which any number overlap and may die between any two steps.          *)
(*                                                                         *)
(* The argument: every item of the journal that is a result or an answer   *)
(* belongs to one batch (JournalOK), so the normalized page may be cut     *)
(* where a segment ends and nowhere is half a batch (PagesCanBeCut); a     *)
(* digest built from such a prefix is exact (RollsUp); and the revision    *)
(* check makes the state that a Run extends the one that is stored         *)
(* (ViewOK).  With the types and the Turns they are one invariant, CInv.   *)
(***************************************************************************)
EXTENDS ThreadContext, FiniteSetTheorems, WellFoundedInduction, TLAPS

----------------------------------------------------------------------------
(* Induction and recursion over the first natural numbers.                 *)

(* Induction over 0..N, on the set of the numbers for which a claim holds. *)
LEMMA Climb ==
  ASSUME NEW N \in Nat, NEW T, 0 \in T, \A n \in 1..N : n - 1 \in T => n \in T
  PROVE  0..N \subseteq T
<1> SUFFICES ASSUME ~(0..N \subseteq T) PROVE FALSE
  OBVIOUS
<1> DEFINE R == {ss \in Nat \X Nat : ss[1] < ss[2]}
           missing == {n \in 0..N : n \notin T}
<1>1. IsWellFoundedOn(R, Nat)
  BY NatLessThanWellFounded DEF OpToRel
<1>2. missing \subseteq Nat /\ missing # {}
  OBVIOUS
<1>3. PICK m \in missing : \A n \in missing : ~(<<n, m>> \in R)
  <2> HIDE DEF R, missing
  <2> QED
    BY <1>1, <1>2, WFMin
<1>4. m \in 1..N /\ m - 1 \in 0..N
  BY <1>3
<1>5. <<m - 1, m>> \in R
  BY <1>4
<1> QED
  BY <1>3, <1>4, <1>5

(* f starts with first and goes on step by step.  Such a function exists. *)
StepsFrom(N, first, step, f) == f[0] = first /\ \A n \in 1..N : f[n] = step[n][f[n - 1]]

LEMMA Recursion ==
  ASSUME NEW N \in Nat, NEW V, NEW first \in V, NEW step \in [1..N -> [V -> V]]
  PROVE  \E f \in [0..N -> V] : StepsFrom(N, first, step, f)
<1> DEFINE Upto(m, f) == f[0] = first /\ \A n \in 1..m : f[n] = step[n][f[n - 1]]
           done == {m \in 0..N : \E f \in [0..m -> V] : Upto(m, f)}
<1>1. 0 \in done
  <2> DEFINE f == [n \in 0..0 |-> first]
  <2>1. f \in [0..0 -> V] /\ Upto(0, f) /\ 0 \in 0..N
    OBVIOUS
  <2> QED
    BY <2>1
<1>2. ASSUME NEW m \in 1..N, m - 1 \in done PROVE m \in done
  <2>1. PICK f \in [0..(m - 1) -> V] : Upto(m - 1, f)
    BY <1>2
  <2> DEFINE new == step[m][f[m - 1]]
             g == [n \in 0..m |-> IF n = m THEN new ELSE f[n]]
  <2>2. m - 1 \in 0..(m - 1) /\ m \in 0..N /\ m \in Nat
    OBVIOUS
  <2>3. new \in V
    BY <2>2
  <2> HIDE DEF new
  <2>4. g \in [0..m -> V]
    <3>1. ASSUME NEW n \in 0..m, n # m PROVE f[n] \in V
      <4>1. n \in 0..(m - 1)
        BY <3>1
      <4> QED
        BY <4>1
    <3> QED
      BY <2>3, <3>1
  <2>5. g[m] = new /\ \A n \in 0..(m - 1) : g[n] = f[n]
    OBVIOUS
  <2>6. ASSUME NEW n \in 1..m PROVE g[n] = step[n][g[n - 1]]
    <3> HIDE DEF g
    <3>1. n - 1 \in 0..(m - 1) /\ g[n - 1] = f[n - 1]
      BY <2>5
    <3>2. CASE n = m
      BY <2>5, <3>1, <3>2 DEF new
    <3>3. CASE n # m
      <4>1. n \in 0..(m - 1) /\ n \in 1..(m - 1)
        BY <3>3
      <4> QED
        BY <2>1, <2>5, <3>1, <4>1
    <3> QED
      BY <3>2, <3>3
  <2>7. g[0] = first
    <3>1. 0 \in 0..(m - 1)
      OBVIOUS
    <3> HIDE DEF g
    <3> QED
      BY <2>1, <2>5, <3>1
  <2>8. \E h \in [0..m -> V] : Upto(m, h)
    <3> HIDE DEF g
    <3> QED
      BY <2>4, <2>6, <2>7
  <2> QED
    BY <2>2, <2>8
<1>3. 0..N \subseteq done
  <2> HIDE DEF done
  <2> QED
    BY <1>1, <1>2, Climb
<1>4. N \in done
  <2> HIDE DEF done
  <2> QED
    BY <1>3
<1> QED
  BY <1>4 DEF StepsFrom
----------------------------------------------------------------------------
(* Sets of positions and sequences.                                        *)

(* The largest element of a set of bounded numbers. *)
LEMMA MaxOf ==
  ASSUME NEW N \in Nat, NEW S \in SUBSET (0..N), S # {}
  PROVE  Max(S) \in S /\ \A y \in S : Max(S) >= y
<1> DEFINE bounded == {n \in 0..N : \A T \in SUBSET (0..n) :
                        T # {} => \E x \in T : \A y \in T : x >= y}
<1>1. 0 \in bounded
  <2>1. ASSUME NEW T \in SUBSET (0..0), T # {} PROVE \E x \in T : \A y \in T : x >= y
    <3>1. \A y \in T : y = 0
      BY <2>1
    <3>2. PICK x \in T : x = 0
      BY <2>1, <3>1
    <3>3. \A y \in T : x >= y
      BY <3>1, <3>2
    <3> QED
      BY <3>3
  <2> QED
    BY <2>1
<1>2. ASSUME NEW n \in 1..N, n - 1 \in bounded PROVE n \in bounded
  <2>1. ASSUME NEW T \in SUBSET (0..n), T # {}
        PROVE  \E x \in T : \A y \in T : x >= y
    <3>1. CASE n \in T
      BY <3>1
    <3>2. CASE n \notin T
      <4>1. T \in SUBSET (0..(n - 1))
        BY <3>2
      <4> QED
        BY <1>2, <2>1, <4>1
    <3> QED
      BY <3>1, <3>2
  <2> QED
    BY <2>1
<1>3. N \in bounded
  <2> HIDE DEF bounded
  <2> QED
    BY <1>1, <1>2, Climb
<1>4. \E x \in S : \A y \in S : x >= y
  BY <1>3
<1> QED
  BY <1>4 DEF Max

(* The elements of a part of a sequence. *)
First(items, k) == {items[i] : i \in 1..k}

(* q is the part of s from m to n. *)
IsPart(q, s, m, n) ==
  /\ Len(q) = n - m + 1 /\ \A i \in 1..(n - m + 1) : q[i] = s[m + i - 1]
  /\ Range(q) = {s[i] : i \in m..n}

LEMMA RangeOfPart ==
  ASSUME NEW S, NEW s \in Seq(S), NEW m \in 1..Len(s) + 1, NEW n \in 0..Len(s), m <= n + 1
  PROVE  SubSeq(s, m, n) \in Seq(S) /\ IsPart(SubSeq(s, m, n), s, m, n)
<1> DEFINE q == SubSeq(s, m, n)
<1>1. Len(s) \in Nat /\ \A i \in m..n : s[i] \in S
  OBVIOUS
<1>2. q = [i \in 1..(n - m + 1) |-> s[m + i - 1]]
  <2>1. \A i \in 1..(n - m + 1) : m + i - 1 = i + m - 1
    OBVIOUS
  <2> QED
    BY <1>1, <2>1
<1> HIDE DEF q
<1>3. n - m + 1 \in Nat
  BY <1>1
<1>4. \A i \in 1..(n - m + 1) : m + i - 1 \in m..n /\ q[i] = s[m + i - 1]
  BY <1>1, <1>2
<1>5. q \in Seq(S) /\ Len(q) = n - m + 1
  BY <1>1, <1>2, <1>3, <1>4
<1>6. Range(q) = {s[i] : i \in m..n}
  <2>1. DOMAIN q = 1..(n - m + 1)
    BY <1>2
  <2>2. ASSUME NEW i \in m..n PROVE s[i] \in Range(q)
    <3>1. i - m + 1 \in 1..(n - m + 1) /\ m + (i - m + 1) - 1 = i
      BY <1>1
    <3> QED
      BY <1>4, <2>1, <3>1 DEF Range
  <2> QED
    BY <1>4, <2>1, <2>2 DEF Range
<1> QED
  BY <1>4, <1>5, <1>6 DEF q, IsPart

----------------------------------------------------------------------------
(* The results of a batch, counted.                                        *)
Count(b, end) == Cardinality(ResultsAt(b, end))
Quiet(first, last) == \A i \in first..last : journal[i].kind \in {"tool", "answer"}

LEMMA CountOf ==
  ASSUME NEW b \in Nat, NEW e \in Nat
  PROVE  IsFiniteSet(ResultsAt(b, e)) /\ Count(b, e) \in Nat
<1>1. ResultsAt(b, e) \subseteq b + 1..e /\ IsFiniteSet(b + 1..e)
  BY FS_Interval DEF ResultsAt
<1> QED
  BY <1>1, FS_Subset, FS_CardinalityType DEF Count

LEMMA CountNone ==
  ASSUME NEW b \in Nat
  PROVE  Count(b, b) = 0
BY FS_EmptySet DEF Count, ResultsAt

LEMMA CountNext ==
  ASSUME NEW b \in Nat, NEW e \in Nat, b < e
  PROVE  Count(b, e) = IF journal[e].kind = "tool" THEN Count(b, e - 1) + 1 ELSE Count(b, e - 1)
<1>1. e - 1 \in Nat /\ IsFiniteSet(ResultsAt(b, e - 1))
  BY CountOf
<1>2. e \notin ResultsAt(b, e - 1)
  BY DEF ResultsAt
<1>3. CASE journal[e].kind = "tool"
  <2>1. ResultsAt(b, e) = ResultsAt(b, e - 1) \cup {e}
    BY <1>3 DEF ResultsAt
  <2> QED
    BY <1>1, <1>2, <1>3, <2>1, FS_AddElement DEF Count
<1>4. CASE journal[e].kind # "tool"
  <2>1. ResultsAt(b, e) = ResultsAt(b, e - 1)
    BY <1>4 DEF ResultsAt
  <2> QED
    BY <1>4, <2>1 DEF Count
<1> QED
  BY <1>3, <1>4

LEMMA CountGrows ==
  ASSUME NEW b \in Nat, NEW d \in Nat, NEW e \in Nat, d <= e
  PROVE  Count(b, d) <= Count(b, e)
<1>1. ResultsAt(b, d) \subseteq ResultsAt(b, e)
  BY DEF ResultsAt
<1> QED
  BY <1>1, CountOf, FS_Subset DEF Count

----------------------------------------------------------------------------
(* The journal: what is a result or an answer is in one batch, which waits *)
(* for more results, and whose only question it answers.                   *)
Items == [kind : Kinds, turn : Runs, calls : Seq(Results)]

InBatch(i, b) ==
  /\ b \in 1..i - 1 /\ journal[b].kind = "batch" /\ Quiet(b + 1, i)
  /\ Count(b, i - 1) < Len(journal[b].calls)
  /\ journal[i].kind = "answer" =>
       /\ "ask" \in Range(journal[b].calls)
       /\ \A j \in b + 1..i - 1 : journal[j].kind # "answer"

JournalOK ==
  \A i \in 1..Len(journal) :
    /\ journal[i].kind \in {"tool", "answer"} => \E b \in 1..Len(journal) : InBatch(i, b)
    /\ journal[i].kind = "batch" => journal[i].calls # <<>>

LEMMA CompleteIff ==
  ASSUME NEW b, NEW end
  PROVE  IsComplete(b, end) <=>
           \E e \in b + 1..end : Count(b, e) = Len(journal[b].calls) /\ Quiet(b + 1, e)
BY DEF IsComplete, Count, Quiet

LEMMA ItemFacts ==
  ASSUME journal \in Seq(Items), NEW i \in 1..Len(journal)
  PROVE  /\ journal[i].kind \in Kinds /\ journal[i].turn \in Runs
         /\ journal[i].calls \in Seq(Results) /\ Len(journal[i].calls) \in Nat
<1>1. journal[i] \in Items
  OBVIOUS
<1>2. journal[i].kind \in Kinds /\ journal[i].turn \in Runs /\ journal[i].calls \in Seq(Results)
  BY <1>1 DEF Items
<1> QED
  BY <1>2

(* Two batches are not both followed by results and answers only. *)
LEMMA OneQuietBatch ==
  ASSUME NEW n \in Nat, NEW b \in BatchesIn(1, n), NEW c \in BatchesIn(1, n),
         Quiet(b + 1, n), Quiet(c + 1, n)
  PROVE  b = c
<1>1. b \in 1..n /\ c \in 1..n /\ journal[b].kind = "batch" /\ journal[c].kind = "batch"
  BY DEF BatchesIn
<1>2. ~(b < c)
  BY <1>1 DEF Quiet
<1>3. ~(c < b)
  BY <1>1 DEF Quiet
<1> QED
  BY <1>1, <1>2, <1>3

(* A page from after to last can be read: every batch before it is         *)
(* complete before it, and every batch in it is complete in it.            *)
Readable(after, last) ==
  /\ after \in Nat /\ last \in after..Len(journal)
  /\ \A b \in BatchesIn(1, after) : IsComplete(b, after)
  /\ ~Open(after, last)

LEMMA OpenIsQuiet ==
  ASSUME journal \in Seq(Items), NEW after, NEW last, Readable(after, last),
         NEW n \in after + 1..last, NEW b \in BatchesIn(after + 1, n), ~IsComplete(b, n)
  PROVE  Quiet(b + 1, n)
<1>1. after \in Nat /\ last \in Nat /\ b \in after + 1..n /\ journal[b].kind = "batch"
  BY DEF Readable, BatchesIn
<1>2. b \in BatchesIn(after + 1, last)
  BY <1>1 DEF BatchesIn
<1>3. PICK e \in b + 1..last : Count(b, e) = Len(journal[b].calls) /\ Quiet(b + 1, e)
  BY <1>2, CompleteIff DEF Readable, Open
<1>4. ~(e <= n)
  BY <1>1, <1>3, CompleteIff
<1> QED
  BY <1>1, <1>3, <1>4 DEF Quiet

LEMMA BatchOf ==
  ASSUME journal \in Seq(Items), JournalOK, NEW after, NEW last, Readable(after, last),
         NEW i \in after + 1..last, journal[i].kind \in {"tool", "answer"}
  PROVE  \E b \in BatchesIn(after + 1, i - 1) : InBatch(i, b)
<1>1. after \in Nat /\ last \in Nat /\ i \in 1..Len(journal)
  BY DEF Readable
<1>2. PICK b \in 1..Len(journal) : InBatch(i, b)
  BY <1>1 DEF JournalOK
<1>3. b \in 1..i - 1 /\ journal[b].kind = "batch" /\ Count(b, i - 1) < Len(journal[b].calls)
  BY <1>2 DEF InBatch
<1>4. CASE b <= after
  <2>1. b \in BatchesIn(1, after)
    BY <1>1, <1>3, <1>4 DEF BatchesIn
  <2>2. PICK e \in b + 1..after : Count(b, e) = Len(journal[b].calls)
    BY <2>1, CompleteIff DEF Readable
  <2>3. Count(b, e) <= Count(b, i - 1)
    BY <1>1, <1>3, <2>2, CountGrows
  <2>4. Len(journal[b].calls) \in Nat /\ Count(b, i - 1) \in Nat
    <3>1. b \in Nat /\ i - 1 \in Nat /\ b \in 1..Len(journal)
      BY <1>1, <1>3
    <3> QED
      BY <3>1, CountOf, ItemFacts
  <2> QED
    BY <1>3, <2>2, <2>3, <2>4
<1>5. CASE ~(b <= after)
  <2>1. b \in BatchesIn(after + 1, i - 1)
    BY <1>1, <1>3, <1>5 DEF BatchesIn
  <2> QED
    BY <1>2, <2>1
<1> QED
  BY <1>4, <1>5

(* An answer stands in a batch that still waits for a result. *)
LEMMA AnswerIsInside ==
  ASSUME journal \in Seq(Items), JournalOK, NEW after, NEW last, Readable(after, last),
         NEW n \in after + 1..last, journal[n].kind = "answer"
  PROVE  \E b \in BatchesIn(after + 1, n - 1) : InBatch(n, b) /\ ~IsComplete(b, n)
<1>1. PICK b \in BatchesIn(after + 1, n - 1) : InBatch(n, b)
  BY BatchOf
<1>2. after \in Nat /\ n \in Nat /\ b \in after + 1..n - 1 /\ n \in 1..Len(journal)
  BY DEF Readable, BatchesIn
<1>3. Count(b, n) = Count(b, n - 1) /\ Count(b, n - 1) < Len(journal[b].calls)
  BY <1>1, <1>2, CountNext DEF InBatch
<1>4. ASSUME NEW e \in b + 1..n PROVE Count(b, e) # Len(journal[b].calls)
  <2>1. Count(b, e) <= Count(b, n)
    BY <1>2, CountGrows
  <2>2. Count(b, e) \in Nat /\ Count(b, n) \in Nat
    <3>1. b \in Nat /\ e \in Nat
      BY <1>2
    <3> QED
      BY <1>2, <3>1, CountOf
  <2>3. Len(journal[b].calls) \in Nat
    BY <1>2, ItemFacts DEF Readable
  <2> QED
    BY <1>3, <2>1, <2>2, <2>3
<1>5. ~IsComplete(b, n)
  BY <1>4, CompleteIff
<1> QED
  BY <1>1, <1>5

(* A batch that becomes complete does so with a result. *)
LEMMA ClosedByResult ==
  ASSUME journal \in Seq(Items), JournalOK, NEW n \in 1..Len(journal),
         NEW b \in BatchesIn(1, n - 1), ~IsComplete(b, n - 1), IsComplete(b, n)
  PROVE  journal[n].kind = "tool"
<1>1. b \in 1..n - 1 /\ journal[b].kind = "batch" /\ b \in 1..Len(journal)
  BY DEF BatchesIn
<1>2. PICK e \in b + 1..n : Count(b, e) = Len(journal[b].calls) /\ Quiet(b + 1, e)
  BY CompleteIff
<1>3. e = n
  BY <1>1, <1>2, CompleteIff
<1>4. SUFFICES ASSUME journal[n].kind # "tool" PROVE FALSE
  OBVIOUS
<1>5. Count(b, n - 1) = Len(journal[b].calls)
  BY <1>1, <1>2, <1>3, <1>4, CountNext
<1>6. CASE n - 1 = b
  <2>1. Count(b, b) = 0
    BY <1>1, CountNone
  <2>2. journal[b].calls # <<>> /\ journal[b].calls \in Seq(Results)
    BY <1>1, ItemFacts DEF JournalOK
  <2>3. Len(journal[b].calls) = 0
    BY <1>5, <1>6, <2>1
  <2> QED
    BY <2>2, <2>3
<1>7. CASE n - 1 # b
  <2>1. n - 1 \in b + 1..n - 1 /\ Quiet(b + 1, n - 1)
    BY <1>1, <1>2, <1>3, <1>7 DEF Quiet
  <2> QED
    BY <1>5, <2>1, CompleteIff
<1> QED
  BY <1>6, <1>7

----------------------------------------------------------------------------
(* A page is normalized item by item.                                      *)
Reads == [said : Seq(Nat), held : Seq(Nat)]
Nothing == [said |-> <<>>, held |-> <<>>]

ReadOn(after, n, v) ==
  IF n <= after THEN Nothing
  ELSE IF ~Open(after, n) THEN [said |-> Append(v.said, n) \o v.held, held |-> <<>>]
  ELSE IF journal[n].kind = "answer" THEN [v EXCEPT !.held = Append(@, n)]
  ELSE [v EXCEPT !.said = Append(@, n)]

Reading(after, last, read) ==
  read = [n \in 0..last |->
           LET before == read[n - 1]
           IN  IF n <= after THEN [said |-> <<>>, held |-> <<>>]
               ELSE IF ~Open(after, n)
                    THEN [said |-> Append(before.said, n) \o before.held, held |-> <<>>]
               ELSE IF journal[n].kind = "answer"
                    THEN [before EXCEPT !.held = Append(@, n)]
                    ELSE [before EXCEPT !.said = Append(@, n)]]

LEMMA ReadOnType ==
  ASSUME NEW after, NEW n \in Nat, NEW v \in Reads
  PROVE  ReadOn(after, n, v) \in Reads
<1>1. v.said \in Seq(Nat) /\ v.held \in Seq(Nat) /\ <<>> \in Seq(Nat)
  BY DEF Reads
<1>2. Append(v.said, n) \in Seq(Nat) /\ Append(v.held, n) \in Seq(Nat)
  BY <1>1
<1>3. Append(v.said, n) \o v.held \in Seq(Nat)
  BY <1>1, <1>2
<1>4. [v EXCEPT !.held = Append(@, n)] \in Reads /\ [v EXCEPT !.said = Append(@, n)] \in Reads
  BY <1>1, <1>2 DEF Reads
<1>5. Nothing \in Reads /\ [said |-> Append(v.said, n) \o v.held, held |-> <<>>] \in Reads
  BY <1>1, <1>3 DEF Reads, Nothing
<1> QED
  BY <1>4, <1>5 DEF ReadOn

LEMMA ReadingSteps ==
  ASSUME NEW after \in Nat, NEW last \in Nat, NEW read, Reading(after, last, read)
  PROVE  \A n \in 0..last : read[n] = ReadOn(after, n, read[n - 1])
<1>1. read = [n \in 0..last |-> ReadOn(after, n, read[n - 1])]
  BY Zenon DEF Reading, ReadOn, Nothing
<1> QED
  BY <1>1

LEMMA NormalizedSteps ==
  ASSUME NEW after \in Nat, NEW last \in Nat
  PROVE  \E read : /\ Normalized(after, last) = read[last].said
                   /\ \A n \in 0..last : read[n] = ReadOn(after, n, read[n - 1])
<1> DEFINE step == [n \in 1..last |-> [v \in Reads |-> ReadOn(after, n, v)]]
<1>1. step \in [1..last -> [Reads -> Reads]] /\ Nothing \in Reads
  BY ReadOnType DEF Reads, Nothing
<1>2. \A n \in 1..last, v \in Reads : step[n][v] = ReadOn(after, n, v)
  OBVIOUS
<1> HIDE DEF step
<1>3. PICK f \in [0..last -> Reads] : StepsFrom(last, Nothing, step, f)
  BY <1>1, Recursion
<1>4. ASSUME NEW n \in 0..last PROVE f[n] = ReadOn(after, n, f[n - 1])
  <2>1. CASE n = 0
    BY <1>3, <2>1 DEF StepsFrom, ReadOn
  <2>2. CASE n # 0
    <3>1. n \in 1..last /\ n - 1 \in 0..last
      BY <2>2
    <3>2. f[n - 1] \in Reads /\ f[n] = step[n][f[n - 1]]
      BY <1>3, <3>1 DEF StepsFrom
    <3> QED
      BY <1>2, <3>1, <3>2
  <2> QED
    BY <2>1, <2>2
<1>5. Reading(after, last, f)
  <2>1. f = [n \in 0..last |-> ReadOn(after, n, f[n - 1])]
    BY <1>4
  <2> QED
    BY <2>1, Zenon DEF Reading, ReadOn, Nothing
<1> DEFINE read == CHOOSE read : Reading(after, last, read)
<1>6. Reading(after, last, read)
  BY <1>5
<1>7. Normalized(after, last) = read[last].said
  BY Zenon DEF Normalized, Reading
<1> HIDE DEF read
<1>8. \A n \in 0..last : read[n] = ReadOn(after, n, read[n - 1])
  BY <1>6, ReadingSteps
<1> QED
  BY <1>7, <1>8

(* What is said of a page up to n. *)
CutsUpTo(after, n, said) ==
  \A k \in 1..Len(said) :
    \/ k < Len(said) /\ ~Joins(said, k + 1)
    \/ k = Len(said) /\ ~Open(after, n)
    => First(said, k) = after + 1..after + k /\ ~Open(after, after + k)

(* The open batch of a page is said, with its results behind it, and its   *)
(* answer may be held.                                                     *)
OpenPart(n, b, said, held) ==
  /\ ~IsComplete(b, n) /\ Quiet(b + 1, n)
  /\ \E j \in 1..Len(said) :
       said[j] = b /\ \A l \in j + 1..Len(said) : journal[said[l]].kind = "tool"
  /\ \/ held = <<>>
     \/ \E a \in b + 1..n : held = <<a>> /\ journal[a].kind = "answer" /\ a \notin Range(said)

ReadUpTo(after, n, v) ==
  /\ v \in Reads
  /\ \A i, j \in 1..Len(v.said) : v.said[i] = v.said[j] => i = j
  /\ Len(v.said) + Len(v.held) = n - after
  /\ Range(v.said) \cup Range(v.held) = after + 1..n
  /\ v.held # <<>> => Open(after, n)
  /\ Open(after, n) => \E b \in BatchesIn(after + 1, n) : OpenPart(n, b, v.said, v.held)
  /\ CutsUpTo(after, n, v.said)

(* t is s and one more item, x. *)
Extended(t, s, x) ==
  /\ t \in Seq(Nat) /\ Len(t) = Len(s) + 1 /\ Len(s) \in Nat
  /\ \A i \in 1..Len(s) : t[i] = s[i]
  /\ t[Len(s) + 1] = x
  /\ Range(t) = Range(s) \cup {x}
  /\ Range(s) = {s[i] : i \in 1..Len(s)}
  /\ \A k \in 0..Len(s) : First(t, k) = First(s, k)
  /\ \A k \in 1..Len(s) : Joins(t, k) <=> Joins(s, k)

LEMMA AppendFacts ==
  ASSUME NEW s \in Seq(Nat), NEW x \in Nat
  PROVE  Extended(Append(s, x), s, x)
<1> DEFINE t == Append(s, x)
<1>1. t \in Seq(Nat) /\ Len(t) = Len(s) + 1 /\ Len(s) \in Nat /\ t[Len(s) + 1] = x
  OBVIOUS
<1>2. \A i \in 1..Len(s) : t[i] = s[i]
  OBVIOUS
<1>3. DOMAIN t = 1..Len(s) + 1 /\ DOMAIN s = 1..Len(s)
  OBVIOUS
<1> HIDE DEF t
<1>4. Range(t) = Range(s) \cup {x} /\ Range(s) = {s[i] : i \in 1..Len(s)}
  <2>1. Range(s) = {s[i] : i \in 1..Len(s)}
    BY <1>3 DEF Range
  <2>2. \A i \in 1..Len(s) + 1 : i \in 1..Len(s) \/ i = Len(s) + 1
    BY <1>1
  <2>3. 1..Len(s) \subseteq 1..Len(s) + 1 /\ Len(s) + 1 \in 1..Len(s) + 1
    BY <1>1
  <2>4. ASSUME NEW y \in Range(t) PROVE y \in Range(s) \cup {x}
    BY <1>1, <1>2, <1>3, <2>2 DEF Range
  <2>5. ASSUME NEW y \in Range(s) PROVE y \in Range(t)
    <3>1. PICK i \in 1..Len(s) : y = s[i]
      BY <1>3 DEF Range
    <3> QED
      BY <1>2, <1>3, <2>3, <3>1 DEF Range
  <2>6. x \in Range(t)
    BY <1>1, <1>3, <2>3 DEF Range
  <2> QED
    BY <2>1, <2>4, <2>5, <2>6
<1>5. ASSUME NEW k \in 0..Len(s) PROVE First(t, k) = First(s, k)
  <2>1. \A i \in 1..k : t[i] = s[i]
    BY <1>1, <1>2
  <2> QED
    BY <2>1 DEF First
<1>6. ASSUME NEW k \in 1..Len(s) PROVE Joins(t, k) <=> Joins(s, k)
  <2>1. \A j \in 1..k : j \in 1..Len(s)
    BY <1>1
  <2>2. \A j \in 1..k : t[j] = s[j]
    BY <1>2, <2>1
  <2>3. k \in 1..k /\ (k > 1 => k - 1 \in 1..k) /\ \A j \in 1..k - 1 : j \in 1..k
    BY <1>1
  <2>4. \A j \in 1..k - 1 : \A l \in j + 1..k - 1 : l \in 1..k
    BY <1>1
  <2>5. t[k] = s[k] /\ (k > 1 => t[k - 1] = s[k - 1]) /\ \A j \in 1..k - 1 : t[j] = s[j]
    BY <2>2, <2>3
  <2>6. \A j \in 1..k - 1 : \A l \in j + 1..k - 1 : t[l] = s[l]
    BY <2>2, <2>4
  <2> DEFINE asked(q, j) == /\ journal[q[j]].kind = "batch"
                            /\ "ask" \in Range(journal[q[j]].calls)
                            /\ \A l \in j + 1..k - 1 : journal[q[l]].kind = "tool"
  <2>7. ASSUME NEW j \in 1..k - 1 PROVE asked(t, j) <=> asked(s, j)
    <3>1. t[j] = s[j] /\ \A l \in j + 1..k - 1 : t[l] = s[l]
      BY <2>5, <2>6
    <3> QED
      BY <3>1
  <2>8. (\E j \in 1..k - 1 : asked(t, j)) <=> \E j \in 1..k - 1 : asked(s, j)
    <3> HIDE DEF asked
    <3> QED
      BY <2>7
  <2> QED
    BY <2>5, <2>8 DEF Joins
<1> QED
  BY <1>1, <1>2, <1>4, <1>5, <1>6 DEF t, Extended

(* Sets with one more element at the end. *)
LEMMA OneMore ==
  ASSUME NEW after \in Nat, NEW n \in Nat, n > after
  PROVE  after + 1..n = (after + 1..n - 1) \cup {n}
OBVIOUS

(* One more item is said. *)
LEMMA SayOne ==
  ASSUME NEW after \in Nat, NEW n \in Nat, n > after, NEW v, ReadUpTo(after, n - 1, v)
  PROVE  LET said == Append(v.said, n)
         IN  /\ \A i, j \in 1..Len(said) : said[i] = said[j] => i = j
             /\ said \in Seq(Nat) /\ Len(said) = Len(v.said) + 1 /\ Len(v.said) \in Nat
             /\ Len(said) + Len(v.held) = n - after
             /\ Range(said) \cup Range(v.held) = after + 1..n
             /\ Range(said) = Range(v.said) \cup {n}
             /\ First(said, Len(said)) = Range(said)
             /\ n \notin Range(v.said)
<1> DEFINE s == v.said
           h == v.held
           t == Append(s, n)
<1>1. s \in Seq(Nat) /\ h \in Seq(Nat) /\ Len(h) \in Nat
  BY DEF ReadUpTo, Reads
<1>2. /\ Range(s) \cup Range(h) = after + 1..n - 1 /\ Len(s) + Len(h) = n - 1 - after
      /\ \A i, j \in 1..Len(s) : s[i] = s[j] => i = j
  BY DEF ReadUpTo
<1>3. /\ t \in Seq(Nat) /\ Len(t) = Len(s) + 1 /\ Len(s) \in Nat
      /\ \A i \in 1..Len(s) : t[i] = s[i]
      /\ t[Len(s) + 1] = n
      /\ Range(t) = Range(s) \cup {n}
      /\ Range(s) = {s[i] : i \in 1..Len(s)}
  <2>1. Extended(t, s, n)
    BY <1>1, AppendFacts
  <2> HIDE DEF t, s
  <2> QED
    BY <2>1 DEF Extended
<1> HIDE DEF s, t, h
<1>4. Range(t) \cup Range(h) = after + 1..n
  BY <1>2, <1>3, OneMore
<1>5. Len(t) + Len(h) = n - after
  BY <1>1, <1>2, <1>3
<1>6. n \notin Range(s)
  BY <1>2
<1>7. ASSUME NEW i \in 1..Len(t), NEW j \in 1..Len(t), t[i] = t[j] PROVE i = j
  <2>1. (i \in 1..Len(s) \/ i = Len(s) + 1) /\ (j \in 1..Len(s) \/ j = Len(s) + 1)
    BY <1>3
  <2>2. \A l \in 1..Len(s) : s[l] # n
    BY <1>3, <1>6
  <2> QED
    BY <1>2, <1>3, <1>7, <2>1, <2>2
<1>8. First(t, Len(t)) = Range(t)
  <2>1. DOMAIN t = 1..Len(t)
    BY <1>3
  <2> QED
    BY <2>1 DEF Range, First
<1> QED
  BY <1>3, <1>4, <1>5, <1>6, <1>7, <1>8 DEF s, t, h

LEMMA CutsSayOne ==
  ASSUME NEW after \in Nat, NEW n \in Nat, n > after, NEW v, ReadUpTo(after, n - 1, v),
         NEW t, t = Append(v.said, n),
         Joins(t, Len(v.said) + 1) \/ ~Open(after, n - 1),
         Open(after, n) \/ v.held = <<>>
  PROVE  CutsUpTo(after, n, t)
<1> DEFINE s == v.said
<1>1. s \in Seq(Nat) /\ CutsUpTo(after, n - 1, s) /\ t = Append(s, n)
  BY DEF ReadUpTo, Reads
<1>2. /\ Len(t) = Len(s) + 1 /\ Len(s) \in Nat
      /\ \A k \in 0..Len(s) : First(t, k) = First(s, k)
      /\ \A k \in 1..Len(s) : Joins(t, k) <=> Joins(s, k)
  <2>1. Extended(t, s, n)
    BY <1>1, AppendFacts
  <2> HIDE DEF s
  <2> QED
    BY <2>1 DEF Extended
<1>3. /\ Len(t) + Len(v.held) = n - after /\ Range(t) \cup Range(v.held) = after + 1..n
      /\ First(t, Len(t)) = Range(t)
  BY SayOne, ZenonT(20)
<1>4. Len(s) + Len(v.held) = n - 1 - after /\ (v.held # <<>> => Open(after, n - 1))
  BY DEF ReadUpTo
<1>5. Len(v.held) \in Nat /\ (v.held = <<>> => Range(v.held) = {} /\ Len(v.held) = 0)
  <2>1. v.held \in Seq(Nat)
    BY DEF ReadUpTo, Reads
  <2> QED
    BY <2>1 DEF Range
<1> HIDE DEF s
<1>6. ASSUME NEW k \in 1..Len(t),
             \/ k < Len(t) /\ ~Joins(t, k + 1)
             \/ k = Len(t) /\ ~Open(after, n)
      PROVE  First(t, k) = after + 1..after + k /\ ~Open(after, after + k)
  <2>1. CASE k < Len(s)
    <3>1. k \in 1..Len(s) /\ k + 1 \in 1..Len(s) /\ k \in 0..Len(s) /\ ~Joins(t, k + 1)
      BY <1>2, <1>6, <2>1
    <3>2. ~Joins(s, k + 1) /\ First(t, k) = First(s, k)
      BY <1>2, <3>1
    <3> QED
      BY <1>1, <2>1, <3>1, <3>2 DEF CutsUpTo
  <2>2. CASE k = Len(s)
    <3>1. k \in 1..Len(s) /\ k \in 0..Len(s) /\ ~Joins(t, k + 1)
      BY <1>2, <1>6, <2>2
    <3>2. ~Open(after, n - 1) /\ First(t, k) = First(s, k)
      BY <1>2, <2>2, <3>1 DEF s
    <3> QED
      BY <1>1, <2>2, <3>1, <3>2 DEF CutsUpTo
  <2>3. CASE k = Len(t)
    <3>1. ~Open(after, n)
      BY <1>6, <2>3
    <3>2. Len(t) = n - after /\ Range(t) = after + 1..n
      <4>1. Range(v.held) = {} /\ Len(v.held) = 0
        BY <1>5, <3>1
      <4>2. Len(t) \in Nat /\ Len(t) + 0 = n - after
        BY <1>2, <1>3, <4>1
      <4>3. Range(t) = after + 1..n
        BY <1>3, <4>1
      <4> QED
        BY <4>2, <4>3
    <3>3. after + k = n
      BY <2>3, <3>2
    <3> QED
      BY <1>3, <2>3, <3>1, <3>2, <3>3
  <2> QED
    BY <1>2, <2>1, <2>2, <2>3
<1> QED
  BY <1>6 DEF CutsUpTo

LEMMA ReadStep ==
  ASSUME journal \in Seq(Items), JournalOK, NEW after, NEW last, Readable(after, last),
         NEW n \in after + 1..last, NEW v, ReadUpTo(after, n - 1, v)
  PROVE  ReadUpTo(after, n, ReadOn(after, n, v))
<1> DEFINE s == v.said
           h == v.held
           t == Append(s, n)
<1>1. /\ after \in Nat /\ last \in Nat /\ n \in Nat /\ n > after /\ n - 1 \in Nat
      /\ n \in 1..Len(journal) /\ ~(n <= after)
  BY DEF Readable
<1>2. /\ v \in Reads /\ s \in Seq(Nat) /\ h \in Seq(Nat) /\ Len(h) \in Nat
      /\ (h # <<>> => Open(after, n - 1)) /\ CutsUpTo(after, n - 1, s)
  BY DEF ReadUpTo, Reads
<1>3. /\ \A i, j \in 1..Len(t) : t[i] = t[j] => i = j
      /\ t \in Seq(Nat) /\ Len(t) = Len(s) + 1 /\ Len(s) \in Nat
      /\ Len(t) + Len(h) = n - after
      /\ Range(t) \cup Range(h) = after + 1..n
      /\ Range(t) = Range(s) \cup {n}
      /\ First(t, Len(t)) = Range(t)
      /\ n \notin Range(s)
  BY <1>1, SayOne
<1>4. /\ \A i \in 1..Len(s) : t[i] = s[i]
      /\ t[Len(s) + 1] = n
  <2>1. Extended(t, s, n)
    BY <1>1, <1>2, AppendFacts
  <2> HIDE DEF t, s
  <2> QED
    BY <2>1 DEF Extended
<1>5. ASSUME NEW b \in BatchesIn(after + 1, n - 1)
      PROVE  /\ b \in BatchesIn(after + 1, n) /\ b \in BatchesIn(1, n - 1) /\ b \in BatchesIn(1, n)
             /\ b \in after + 1..n - 1 /\ (IsComplete(b, n - 1) => IsComplete(b, n))
  <2>1. b \in after + 1..n - 1 /\ journal[b].kind = "batch"
    BY DEF BatchesIn
  <2>2. b \in BatchesIn(after + 1, n) /\ b \in BatchesIn(1, n - 1) /\ b \in BatchesIn(1, n)
    BY <1>1, <2>1 DEF BatchesIn
  <2>3. \A e \in b + 1..n - 1 : e \in b + 1..n
    BY <1>1, <2>1
  <2> QED
    BY <2>1, <2>2, <2>3, CompleteIff
<1>6. ASSUME journal[n].kind # "tool", Open(after, n - 1)
      PROVE  \E b \in BatchesIn(after + 1, n - 1) : ~IsComplete(b, n) /\ Quiet(b + 1, n)
  <2>1. PICK b \in BatchesIn(after + 1, n - 1) : ~IsComplete(b, n - 1)
    BY <1>6 DEF Open
  <2>2. ~IsComplete(b, n)
    BY <1>1, <1>5, <1>6, <2>1, ClosedByResult
  <2> QED
    BY <1>5, <2>2, OpenIsQuiet
<1>7. CASE ~Open(after, n)
  <2>1. \A b \in BatchesIn(after + 1, n) : IsComplete(b, n)
    BY <1>7 DEF Open
  <2>2. journal[n].kind # "tool" => ~Open(after, n - 1)
    BY <1>5, <1>6, <2>1
  <2>3. Joins(t, Len(s) + 1) \/ ~Open(after, n - 1)
    BY <1>4, <2>2 DEF Joins
  <2>4. ReadOn(after, n, v) = [said |-> t \o h, held |-> <<>>]
    BY <1>1, <1>7 DEF ReadOn
  <2>5. CASE h = <<>>
    <3>1. t \o h = t /\ Range(h) = {} /\ Len(h) = 0
      <4> HIDE DEF t, h
      <4>1. t \o <<>> = t
        BY <1>3
      <4> QED
        BY <2>5, <4>1 DEF Range
    <3>2. CutsUpTo(after, n, t)
      BY <1>1, <2>3, <2>5, CutsSayOne
    <3>3. Range(t) = after + 1..n /\ Len(t) + 0 = n - after
      <4> HIDE DEF t, h
      <4> QED
        BY <1>3, <3>1
    <3> DEFINE w == [said |-> t, held |-> <<>>]
    <3>4. w \in Reads /\ w.said = t /\ w.held = <<>>
      BY <1>3 DEF Reads
    <3>5. Range(w.held) = {} /\ Len(w.held) = 0
      BY DEF Range
    <3>6. ReadOn(after, n, v) = w
      <4> HIDE DEF t, h
      <4> QED
        BY <2>4, <3>1
    <3> HIDE DEF w, t, s, h
    <3>7. ReadUpTo(after, n, w)
      BY <1>3, <1>7, <3>2, <3>3, <3>4, <3>5 DEF ReadUpTo
    <3> QED
      BY <3>6, <3>7
  <2>6. CASE h # <<>>
    <3>1. PICK b \in BatchesIn(after + 1, n - 1) : OpenPart(n - 1, b, s, h)
      BY <1>2, <2>6 DEF ReadUpTo
    <3>2. PICK a \in b + 1..n - 1 : h = <<a>> /\ journal[a].kind = "answer" /\ a \notin Range(s)
      BY <2>6, <3>1 DEF OpenPart
    <3>3. journal[n].kind = "tool"
      BY <1>1, <1>5, <2>1, <3>1, ClosedByResult DEF OpenPart
    <3>4. PICK j \in 1..Len(s) : s[j] = b /\ \A l \in j + 1..Len(s) : journal[s[l]].kind = "tool"
      BY <3>1 DEF OpenPart
    <3>5. b \in after + 1..n - 1 /\ journal[b].kind = "batch" /\ Quiet(b + 1, n - 1)
      BY <1>5, <3>1 DEF BatchesIn, OpenPart
    <3>6. "ask" \in Range(journal[b].calls)
      <4>1. a \in after + 1..last /\ a \in Nat
        BY <1>1, <3>2, <3>5
      <4>2. PICK c \in BatchesIn(after + 1, a - 1) : InBatch(a, c)
        BY <3>2, <4>1, BatchOf
      <4>3. c \in BatchesIn(1, a) /\ Quiet(c + 1, a)
        BY <1>1, <4>1, <4>2 DEF BatchesIn, InBatch
      <4>4. b \in BatchesIn(1, a) /\ Quiet(b + 1, a)
        <5>1. b \in 1..a /\ \A i \in b + 1..a : i \in b + 1..n - 1
          BY <1>1, <3>2, <3>5, <4>1
        <5> QED
          BY <3>5, <5>1 DEF BatchesIn, Quiet
      <4>5. b = c
        BY <4>1, <4>3, <4>4, OneQuietBatch
      <4> QED
        BY <3>2, <4>2, <4>5 DEF InBatch
    <3> DEFINE u == Append(t, a)
    <3>7. /\ a \in Nat /\ a # n
          /\ u \in Seq(Nat) /\ Len(u) = Len(t) + 1 /\ Len(t) \in Nat
          /\ \A i \in 1..Len(t) : u[i] = t[i]
          /\ u[Len(t) + 1] = a
          /\ Range(u) = Range(t) \cup {a}
          /\ Range(t) = {t[i] : i \in 1..Len(t)}
          /\ \A k \in 0..Len(t) : First(u, k) = First(t, k)
          /\ \A k \in 1..Len(t) : Joins(u, k) <=> Joins(t, k)
      <4>1. a \in Nat /\ a # n
        BY <1>1, <3>2, <3>5
      <4> HIDE DEF t
      <4>2. Extended(u, t, a)
        BY <1>3, <4>1, AppendFacts
      <4> HIDE DEF u
      <4> QED
        BY <4>1, <4>2 DEF Extended
    <3>8. t \o h = u
      <4> HIDE DEF t, s, h
      <4> QED
        BY <1>3, <3>2, <3>7
    <3>9. Range(h) = {a} /\ Len(h) = 1
      BY <3>2 DEF Range
    <3>10. Range(u) = after + 1..n /\ Len(u) = n - after
      <4> HIDE DEF t, s, h, u
      <4>1. Len(t) + 1 = n - after
        BY <1>3, <3>9
      <4>2. Range(u) = after + 1..n
        BY <1>3, <3>7, <3>9
      <4> QED
        BY <3>7, <4>1, <4>2
    <3>11. ASSUME NEW i \in 1..Len(u), NEW k \in 1..Len(u), u[i] = u[k] PROVE i = k
      <4>0. Len(u) = Len(t) + 1 /\ Len(t) \in Nat
        BY <3>7
      <4>1. (i \in 1..Len(t) \/ i = Len(t) + 1) /\ (k \in 1..Len(t) \/ k = Len(t) + 1)
        <5> HIDE DEF t, u
        <5> QED
          BY <4>0
      <4>2. a \notin Range(t)
        BY <1>3, <3>2, <3>7
      <4>3. \A l \in 1..Len(t) : t[l] # a
        BY <3>7, <4>2
      <4> HIDE DEF t, s, h, u
      <4> QED
        BY <1>3, <3>7, <3>11, <4>1, <4>3
    <3>12. Joins(u, Len(t) + 1)
      <4>1. u[Len(t) + 1] = a /\ u[Len(t)] = n /\ Len(t) + 1 > 1 /\ Len(t) + 1 - 1 = Len(t)
        <5>1. Len(t) \in 1..Len(t) /\ Len(t) = Len(s) + 1
          BY <1>3
        <5> QED
          BY <1>4, <3>7, <5>1
      <4>2. j \in 1..Len(t) /\ u[j] = b
        <5>1. j \in 1..Len(t)
          BY <1>3
        <5> QED
          BY <1>4, <3>4, <3>7, <5>1
      <4>3. ASSUME NEW l \in j + 1..Len(t) PROVE journal[u[l]].kind = "tool"
        <5>1. l \in 1..Len(t) /\ (l = Len(s) + 1 \/ l \in j + 1..Len(s))
          <6>1. Len(t) = Len(s) + 1 /\ Len(s) \in Nat /\ j \in 1..Len(s)
            BY <1>3, <3>4
          <6> HIDE DEF t, s
          <6> QED
            BY <6>1
        <5>2. CASE l = Len(s) + 1
          BY <1>4, <3>3, <3>7, <5>1, <5>2
        <5>3. CASE l \in j + 1..Len(s)
          <6>1. l \in 1..Len(s)
            <7> HIDE DEF s
            <7> QED
              BY <3>4, <5>3
          <6>2. journal[s[l]].kind = "tool"
            BY <3>4, <5>3
          <6> QED
            BY <1>4, <3>7, <5>1, <6>1, <6>2
        <5> QED
          BY <5>1, <5>2, <5>3
      <4> DEFINE k == Len(t) + 1
      <4>4. k > 1 /\ k - 1 = Len(t)
        BY <4>1
      <4> HIDE DEF t, s, h, u, k
      <4>5. \E i \in 1..k - 1 : /\ journal[u[i]].kind = "batch"
                               /\ "ask" \in Range(journal[u[i]].calls)
                               /\ \A l \in i + 1..k - 1 : journal[u[l]].kind = "tool"
        BY <3>5, <3>6, <4>2, <4>3, <4>4
      <4>6. journal[u[k]].kind = "answer" /\ journal[u[k - 1]].kind = "tool"
        BY <3>2, <3>3, <4>1, <4>4 DEF k
      <4>7. Joins(u, k)
        BY <4>4, <4>5, <4>6 DEF Joins
      <4> QED
        BY <4>7 DEF k
    <3>13. CutsUpTo(after, n, u)
      <4>1. ASSUME NEW k \in 1..Len(u),
                   \/ k < Len(u) /\ ~Joins(u, k + 1)
                   \/ k = Len(u) /\ ~Open(after, n)
            PROVE  First(u, k) = after + 1..after + k /\ ~Open(after, after + k)
        <5>1. CASE k = Len(u)
          <6>1. after + k = n /\ First(u, k) = Range(u)
            <7>1. DOMAIN u = 1..Len(u)
              BY <3>7
            <7> HIDE DEF t, s, h, u
            <7> QED
              BY <1>1, <3>10, <5>1, <7>1 DEF First, Range
          <6> HIDE DEF t, s, h, u
          <6> QED
            BY <1>7, <3>10, <6>1
        <5>2. CASE k = Len(t)
          <6> HIDE DEF t, s, h, u
          <6> QED
            BY <3>7, <3>12, <4>1, <5>2
        <5>3. CASE k = Len(s)
          <6>1. k \in 1..Len(t) /\ k + 1 \in 1..Len(t) /\ k + 1 = Len(s) + 1 /\ k < Len(u)
            <7>1. Len(t) = Len(s) + 1 /\ Len(s) \in Nat /\ Len(u) = Len(t) + 1 /\ k \in 1..Len(u)
              BY <1>3, <3>7
            <7> HIDE DEF t, s, u
            <7> QED
              BY <5>3, <7>1
          <6>2. Joins(t, k + 1)
            BY <1>4, <3>3, <6>1 DEF Joins
          <6> HIDE DEF t, s, h, u
          <6> QED
            BY <3>7, <4>1, <6>1, <6>2
        <5>4. CASE k < Len(s)
          <6>1. /\ k \in 1..Len(s) /\ k + 1 \in 1..Len(s) /\ k + 1 \in 1..Len(t) /\ k < Len(u)
                /\ k \in 0..Len(s) /\ k \in 0..Len(t) /\ k \in Nat
            <7>1. Len(t) = Len(s) + 1 /\ Len(s) \in Nat /\ Len(u) = Len(t) + 1 /\ k \in 1..Len(u)
              BY <1>3, <3>7
            <7> HIDE DEF t, s, u
            <7> QED
              BY <5>4, <7>1
          <6>2. ~Joins(u, k + 1)
            <7> HIDE DEF t, s, h, u
            <7> QED
              BY <4>1, <5>4, <6>1
          <6>3. ~Joins(s, k + 1) /\ First(u, k) = First(s, k)
            <7>1. /\ \A i \in 1..Len(s) : Joins(t, i) <=> Joins(s, i)
                  /\ \A i \in 0..Len(s) : First(t, i) = First(s, i)
              <8>1. Extended(t, s, n)
                BY <1>1, <1>2, AppendFacts
              <8> HIDE DEF t, s
              <8> QED
                BY <8>1 DEF Extended
            <7> HIDE DEF t, s, h, u
            <7> QED
              BY <3>7, <6>1, <6>2, <7>1
          <6> HIDE DEF t, s, h, u
          <6> QED
            BY <1>2, <5>4, <6>1, <6>3 DEF CutsUpTo
        <5>5. k = Len(u) \/ k = Len(t) \/ k = Len(s) \/ k < Len(s)
          <6>1. Len(u) = Len(s) + 2 /\ Len(t) = Len(s) + 1 /\ Len(s) \in Nat
            <7>1. Len(u) = Len(t) + 1
              BY <3>7
            <7>2. Len(t) = Len(s) + 1 /\ Len(s) \in Nat
              BY <1>3
            <7> HIDE DEF t, s, u
            <7> QED
              BY <7>1, <7>2
          <6> HIDE DEF t, s, h, u
          <6> QED
            BY <6>1
        <5> QED
          BY <5>1, <5>2, <5>3, <5>4, <5>5
      <4> HIDE DEF t, s, h, u
      <4> QED
        BY <4>1 DEF CutsUpTo
    <3> DEFINE w == [said |-> u, held |-> <<>>]
    <3>14. w \in Reads /\ w.said = u /\ w.held = <<>>
      <4>1. u \in Seq(Nat)
        BY <3>7
      <4> HIDE DEF u
      <4> QED
        BY <4>1 DEF Reads
    <3>15. Range(w.held) = {} /\ Len(w.held) = 0
      BY DEF Range
    <3>16. ReadOn(after, n, v) = w
      <4> HIDE DEF t, h, s, u
      <4> QED
        BY <2>4, <3>8
    <3>17. Len(w.said) + Len(w.held) = n - after
      <4> HIDE DEF u, t, s, h, w
      <4> QED
        BY <1>1, <3>10, <3>14, <3>15
    <3> HIDE DEF w, t, s, h, u
    <3>18. ReadUpTo(after, n, w)
      BY <1>7, <3>10, <3>11, <3>13, <3>14, <3>15, <3>17 DEF ReadUpTo
    <3> QED
      BY <3>16, <3>18
  <2> QED
    BY <2>5, <2>6
<1>8. CASE Open(after, n) /\ journal[n].kind = "answer"
  <2>1. ReadOn(after, n, v) = [v EXCEPT !.held = Append(h, n)]
    BY <1>1, <1>8 DEF ReadOn
  <2>2. PICK b \in BatchesIn(after + 1, n - 1) : InBatch(n, b) /\ ~IsComplete(b, n)
    BY <1>8, AnswerIsInside
  <2>3. ~IsComplete(b, n - 1) /\ Open(after, n - 1)
    BY <1>5, <2>2 DEF Open
  <2>4. PICK c \in BatchesIn(after + 1, n - 1) : OpenPart(n - 1, c, s, h)
    BY <2>3 DEF ReadUpTo
  <2>5. b \in after + 1..n - 1 /\ Quiet(b + 1, n) /\ Quiet(b + 1, n - 1)
    <3>1. b \in after + 1..n - 1 /\ Quiet(b + 1, n)
      BY <1>5, <2>2 DEF InBatch
    <3> QED
      BY <1>1, <3>1 DEF Quiet
  <2>6. b = c
    BY <1>1, <1>5, <2>4, <2>5, OneQuietBatch DEF OpenPart
  <2>7. h = <<>>
    <3>1. SUFFICES ASSUME h # <<>> PROVE FALSE
      OBVIOUS
    <3>2. PICK a \in b + 1..n - 1 : journal[a].kind = "answer"
      BY <2>4, <2>6, <3>1 DEF OpenPart
    <3> QED
      BY <1>8, <2>2, <3>2 DEF InBatch
  <2> DEFINE w == [said |-> s, held |-> <<n>>]
  <2>8. ReadOn(after, n, v) = w
    <3>1. Append(h, n) = <<n>>
      BY <2>7
    <3>2. v = [said |-> s, held |-> h]
      BY <1>2 DEF Reads
    <3>3. [v EXCEPT !.held = Append(h, n)] = [said |-> s, held |-> Append(h, n)]
      <4> DEFINE g == Append(h, n)
      <4> HIDE DEF g
      <4>1. [v EXCEPT !.held = g] = [said |-> s, held |-> g]
        BY <3>2
      <4> QED
        BY <4>1 DEF g
    <3> QED
      BY <2>1, <3>1, <3>3
  <2>9. w \in Reads /\ w.said = s /\ w.held = <<n>>
    BY <1>1, <1>2 DEF Reads
  <2>10. /\ \A i, j \in 1..Len(s) : s[i] = s[j] => i = j
         /\ Len(s) + Len(h) = n - 1 - after /\ Range(s) \cup Range(h) = after + 1..n - 1
    BY DEF ReadUpTo
  <2>11. Range(<<n>>) = {n} /\ Len(<<n>>) = 1 /\ Range(h) = {} /\ Len(h) = 0
    BY <2>7 DEF Range
  <2>12. Len(s) + 1 = n - after
    <3> HIDE DEF s, h
    <3> QED
      BY <1>1, <1>3, <2>10, <2>11
  <2>13. Range(s) \cup {n} = after + 1..n
    <3> HIDE DEF s, h
    <3> QED
      BY <1>1, <2>10, <2>11, OneMore
  <2>14. OpenPart(n, b, s, <<n>>)
    <3>1. n \in b + 1..n
      BY <1>1, <2>5
    <3>2. \E j \in 1..Len(s) : s[j] = b /\ \A l \in j + 1..Len(s) : journal[s[l]].kind = "tool"
      BY <2>4, <2>6 DEF OpenPart
    <3> HIDE DEF s, h
    <3> QED
      BY <1>3, <1>8, <2>2, <2>5, <3>1, <3>2 DEF OpenPart
  <2>15. CutsUpTo(after, n, s)
    <3> HIDE DEF s, h
    <3> QED
      BY <1>2, <1>8 DEF CutsUpTo
  <2>16. b \in BatchesIn(after + 1, n)
    BY <1>5
  <2> HIDE DEF w, s, h
  <2>17. ReadUpTo(after, n, w)
    BY <1>8, <2>9, <2>10, <2>11, <2>12, <2>13, <2>14, <2>15, <2>16 DEF ReadUpTo
  <2> QED
    BY <2>8, <2>17
<1>9. CASE Open(after, n) /\ journal[n].kind # "answer"
  <2>1. ReadOn(after, n, v) = [v EXCEPT !.said = t]
    BY <1>1, <1>9 DEF ReadOn
  <2>2. PICK b \in BatchesIn(after + 1, n) : ~IsComplete(b, n)
    BY <1>9 DEF Open
  <2>3. Quiet(b + 1, n) /\ b \in after + 1..n /\ journal[b].kind = "batch"
    BY <2>2, OpenIsQuiet DEF BatchesIn
  <2> DEFINE w == [said |-> t, held |-> h]
  <2>4. ReadOn(after, n, v) = w
    <3>1. v = [said |-> s, held |-> h]
      BY <1>2 DEF Reads
    <3> HIDE DEF t
    <3>2. [v EXCEPT !.said = t] = [said |-> t, held |-> h]
      BY <3>1
    <3> QED
      BY <2>1, <3>2
  <2>5. w \in Reads /\ w.said = t /\ w.held = h
    <3> HIDE DEF t, h
    <3> QED
      BY <1>2, <1>3 DEF Reads
  <2>6. OpenPart(n, b, t, h) /\ (Joins(t, Len(s) + 1) \/ ~Open(after, n - 1))
    <3>1. CASE journal[n].kind = "tool"
      <4>1. b # n /\ b \in after + 1..n - 1 /\ b \in BatchesIn(after + 1, n - 1)
        BY <1>1, <2>3, <3>1 DEF BatchesIn
      <4>2. ~IsComplete(b, n - 1) /\ Open(after, n - 1)
        BY <1>5, <2>2, <4>1 DEF Open
      <4>3. PICK c \in BatchesIn(after + 1, n - 1) : OpenPart(n - 1, c, s, h)
        BY <4>2 DEF ReadUpTo
      <4>4. Quiet(b + 1, n - 1)
        BY <1>1, <2>3 DEF Quiet
      <4>5. b = c
        BY <1>1, <1>5, <4>1, <4>3, <4>4, OneQuietBatch DEF OpenPart
      <4>6. PICK j \in 1..Len(s) : s[j] = b /\ \A l \in j + 1..Len(s) : journal[s[l]].kind = "tool"
        BY <4>3, <4>5 DEF OpenPart
      <4>7. ASSUME NEW l \in j + 1..Len(t) PROVE journal[t[l]].kind = "tool"
        <5>1. l = Len(s) + 1 \/ (l \in j + 1..Len(s) /\ l \in 1..Len(s))
          <6>1. Len(t) = Len(s) + 1 /\ Len(s) \in Nat /\ j \in 1..Len(s)
            BY <1>3
          <6> HIDE DEF t, s
          <6> QED
            BY <6>1
        <5> QED
          BY <1>4, <3>1, <4>6, <5>1
      <4>8. j \in 1..Len(t) /\ t[j] = b
        BY <1>3, <1>4, <4>6
      <4>9. h = <<>> \/ \E a \in b + 1..n : h = <<a>> /\ journal[a].kind = "answer" /\ a \notin Range(t)
        <5>1. SUFFICES ASSUME h # <<>>
                       PROVE  \E a \in b + 1..n : h = <<a>> /\ journal[a].kind = "answer" /\ a \notin Range(t)
          OBVIOUS
        <5>2. PICK a \in b + 1..n - 1 : h = <<a>> /\ journal[a].kind = "answer" /\ a \notin Range(s)
          BY <4>3, <4>5, <5>1 DEF OpenPart
        <5>3. a \in b + 1..n /\ a # n
          BY <1>1, <4>1, <5>2
        <5> QED
          BY <1>3, <5>2, <5>3
      <4>10. Joins(t, Len(s) + 1)
        BY <1>4, <3>1 DEF Joins
      <4> HIDE DEF t, s, h
      <4> QED
        BY <2>2, <2>3, <4>7, <4>8, <4>9, <4>10 DEF OpenPart
    <3>2. CASE journal[n].kind # "tool"
      <4>1. b = n
        BY <1>1, <1>9, <2>3, <3>2 DEF Quiet
      <4>2. ~Open(after, n - 1)
        <5>1. SUFFICES ASSUME Open(after, n - 1) PROVE FALSE
          OBVIOUS
        <5>2. PICK c \in BatchesIn(after + 1, n - 1) : Quiet(c + 1, n)
          BY <1>6, <3>2, <5>1
        <5>3. c \in after + 1..n - 1 /\ journal[n].kind \in {"tool", "answer"}
          BY <1>1, <1>5, <5>2 DEF Quiet
        <5> QED
          BY <1>9, <3>2, <5>3
      <4>3. h = <<>>
        BY <1>2, <4>2
      <4>4. Len(t) \in 1..Len(t) /\ t[Len(t)] = b /\ Len(t) + 1..Len(t) = {}
        BY <1>3, <1>4, <4>1
      <4>5. \A l \in Len(t) + 1..Len(t) : journal[t[l]].kind = "tool"
        BY <4>4
      <4> HIDE DEF t, s, h
      <4> QED
        BY <2>2, <2>3, <4>2, <4>3, <4>4, <4>5 DEF OpenPart
    <3> QED
      BY <3>1, <3>2
  <2>7. CutsUpTo(after, n, t)
    BY <1>1, <1>9, <2>6, CutsSayOne
  <2> HIDE DEF w, s, h, t
  <2>8. ReadUpTo(after, n, w)
    BY <1>3, <1>9, <2>2, <2>5, <2>6, <2>7 DEF ReadUpTo
  <2> QED
    BY <2>4, <2>8
<1> QED
  BY <1>7, <1>8, <1>9

(* Where a segment of a page ends, the items before it are the first ones  *)
(* behind after, and there is no half batch among them.                    *)
Cuts(items, after) ==
  \A k \in Ends(items) : First(items, k) = after + 1..after + k /\ ~Open(after, after + k)

LEMMA PagesCanBeCut ==
  ASSUME journal \in Seq(Items), JournalOK, NEW after, NEW last, Readable(after, last)
  PROVE  LET items == Normalized(after, last)
         IN  /\ items \in Seq(Nat) /\ Len(items) = last - after
             /\ \A i, j \in 1..Len(items) : items[i] = items[j] => i = j
             /\ Range(items) = after + 1..last
             /\ Cuts(items, after)
<1>1. after \in Nat /\ last \in Nat /\ last - after \in Nat /\ after <= last
  BY DEF Readable
<1>2. PICK read : /\ Normalized(after, last) = read[last].said
                  /\ \A n \in 0..last : read[n] = ReadOn(after, n, read[n - 1])
  BY <1>1, NormalizedSteps
<1> DEFINE T == {m \in 0..(last - after) : ReadUpTo(after, after + m, read[after + m])}
<1>3. 0 \in T
  <2>1. read[after] = Nothing
    <3>1. after \in 0..last /\ after <= after
      BY <1>1
    <3>2. read[after] = ReadOn(after, after, read[after - 1])
      BY <1>2, <3>1
    <3> QED
      BY <3>1, <3>2 DEF ReadOn
  <2>2. ~Open(after, after)
    BY <1>1 DEF Open, BatchesIn
  <2>3. /\ Nothing \in Reads /\ Len(Nothing.said) = 0 /\ Len(Nothing.held) = 0
        /\ Range(Nothing.said) = {} /\ Range(Nothing.held) = {} /\ Nothing.held = <<>>
        /\ Nothing.said = <<>>
    BY DEF Nothing, Reads, Range
  <2>4. after + 1..after = {} /\ 0 = after - after /\ 1..0 = {}
    BY <1>1
  <2>5. ReadUpTo(after, after, Nothing)
    <3> HIDE DEF Nothing
    <3>1. CutsUpTo(after, after, Nothing.said)
      BY <2>3, <2>4 DEF CutsUpTo
    <3> QED
      BY <1>1, <2>2, <2>3, <2>4, <3>1 DEF ReadUpTo
  <2>6. after + 0 = after
    BY <1>1
  <2> QED
    BY <1>1, <2>1, <2>5, <2>6
<1>4. ASSUME NEW m \in 1..(last - after), m - 1 \in T PROVE m \in T
  <2> DEFINE n == after + m
  <2>1. n \in after + 1..last /\ n \in 0..last /\ n - 1 = after + (m - 1) /\ m \in 0..(last - after)
    BY <1>1
  <2>2. ReadUpTo(after, n - 1, read[n - 1])
    BY <1>4, <2>1
  <2>3. ReadUpTo(after, n, ReadOn(after, n, read[n - 1]))
    <3> HIDE DEF n
    <3> QED
      BY <2>1, <2>2, ReadStep
  <2>4. read[n] = ReadOn(after, n, read[n - 1])
    BY <1>2, <2>1
  <2> QED
    BY <2>1, <2>3, <2>4
<1>5. last - after \in T
  <2> DEFINE N == last - after
  <2>1. N \in Nat /\ 0 \in T /\ \A m \in 1..N : m - 1 \in T => m \in T
    BY <1>1, <1>3, <1>4
  <2>2. N \in 0..N
    BY <1>1
  <2> HIDE DEF N, T
  <2>3. 0..N \subseteq T
    BY <2>1, Climb
  <2>4. N \in T
    BY <2>2, <2>3
  <2> QED
    BY <2>4 DEF N
<1> DEFINE v == read[last]
           items == v.said
<1>6. ReadUpTo(after, last, v)
  <2>1. after + (last - after) = last
    BY <1>1
  <2> QED
    BY <1>5, <2>1
<1>7. ~Open(after, last)
  BY DEF Readable
<1>8. v.held = <<>> /\ items \in Seq(Nat)
  BY <1>6, <1>7 DEF ReadUpTo, Reads
<1>9. Range(v.held) = {} /\ Len(v.held) = 0
  BY <1>8 DEF Range
<1>10. /\ Len(items) + Len(v.held) = last - after
       /\ \A i, j \in 1..Len(items) : items[i] = items[j] => i = j
       /\ Range(items) \cup Range(v.held) = after + 1..last
       /\ CutsUpTo(after, last, items)
  BY <1>6 DEF ReadUpTo
<1>11. Len(items) = last - after /\ Range(items) = after + 1..last
  <2>1. Len(items) \in Nat /\ Len(items) + 0 = last - after
    BY <1>8, <1>9, <1>10
  <2>2. Range(items) = after + 1..last
    BY <1>9, <1>10
  <2> QED
    BY <2>1, <2>2
<1>12. Cuts(items, after)
  <2>1. ASSUME NEW k \in Ends(items)
        PROVE  First(items, k) = after + 1..after + k /\ ~Open(after, after + k)
    <3>1. k \in 1..Len(items) /\ (k = Len(items) \/ ~Joins(items, k + 1))
      BY <1>8 DEF Ends
    <3>2. k < Len(items) \/ k = Len(items)
      BY <1>8, <3>1
    <3> HIDE DEF items
    <3> QED
      BY <1>7, <1>10, <3>1, <3>2 DEF CutsUpTo
  <2> QED
    BY <2>1 DEF Cuts
<1> QED
  BY <1>2, <1>8, <1>10, <1>11, <1>12

(* The page that is read is readable. *)
LEMMA PageIsReadable ==
  ASSUME journal \in Seq(Items), NEW after \in 0..Len(journal),
         \A b \in BatchesIn(1, after) : IsComplete(b, after),
         PageEnd(after) # 0
  PROVE  Readable(after, PageEnd(after))
<1> DEFINE N == Len(journal)
           first == Min({after + PageLimit, N})
           whole == {e \in first..Min({first + Lookahead, N}) :
                       \A b \in BatchesIn(after + 1, e) : IsComplete(b, e)}
<1>1. N \in Nat /\ after \in Nat /\ after <= N /\ PageLimit \in Nat /\ Lookahead \in Nat
  BY ContextAssumption
<1>2. ASSUME NEW x \in Nat, NEW y \in Nat PROVE Min({x, y}) \in {x, y} /\ Min({x, y}) <= y
  <2>1. \E z \in {x, y} : \A w \in {x, y} : z =< w
    BY x <= y \/ y <= x
  <2>2. Min({x, y}) \in {x, y} /\ \A w \in {x, y} : Min({x, y}) <= w
    BY <2>1 DEF Min
  <2> QED
    BY <2>2
<1>3. first \in after..N
  <2>1. after + PageLimit \in Nat
    BY <1>1
  <2>2. first \in {after + PageLimit, N} /\ first <= N
    BY <1>1, <1>2, <2>1
  <2> HIDE DEF first, N
  <2> QED
    BY <1>1, <2>2
<1>4. whole \subseteq first..N
  <2>1. first + Lookahead \in Nat
    <3> HIDE DEF first
    <3> QED
      BY <1>1, <1>3
  <2>2. Min({first + Lookahead, N}) \in {first + Lookahead, N} /\ Min({first + Lookahead, N}) <= N
    <3> HIDE DEF first, N
    <3> QED
      BY <1>1, <1>2, <2>1
  <2> DEFINE top == Min({first + Lookahead, N})
  <2>3. top \in Nat /\ top <= N
    <3> HIDE DEF first, N
    <3> QED
      BY <1>1, <2>1, <2>2
  <2>4. whole \subseteq first..top
    OBVIOUS
  <2> HIDE DEF first, N, top, whole
  <2> QED
    BY <1>1, <1>3, <2>3, <2>4
<1>5. PageEnd(after) = IF whole = {} THEN 0 ELSE Min(whole)
  BY DEF PageEnd
<1>6. whole # {} /\ PageEnd(after) = Min(whole)
  <2> HIDE DEF whole
  <2> QED
    BY <1>5
<1>7. Min(whole) \in whole
  <2>1. whole \subseteq Nat
    <3> HIDE DEF whole, first, N
    <3> QED
      BY <1>1, <1>3, <1>4
  <2> HIDE DEF whole
  <2> DEFINE R == {ss \in Nat \X Nat : ss[1] < ss[2]}
  <2>2. IsWellFoundedOn(R, Nat)
    BY NatLessThanWellFounded DEF OpToRel
  <2>3. PICK m \in whole : \A n \in whole : ~(<<n, m>> \in R)
    <3> HIDE DEF R
    <3> QED
      BY <1>6, <2>1, <2>2, WFMin
  <2>4. ASSUME NEW n \in whole PROVE m <= n
    <3>1. m \in Nat /\ n \in Nat
      BY <2>1
    <3>2. ~(n < m)
      BY <2>3, <3>1
    <3> QED
      BY <3>1, <3>2
  <2>5. \E x \in whole : \A y \in whole : x =< y
    BY <2>4
  <2> QED
    BY <2>5 DEF Min
<1> DEFINE last == PageEnd(after)
<1>8. last \in first..N /\ \A b \in BatchesIn(after + 1, last) : IsComplete(b, last)
  <2>1. last \in whole
    BY <1>6, <1>7
  <2> QED
    BY <1>4, <2>1
<1>9. last \in after..N
  <2> HIDE DEF first, N, last
  <2> QED
    BY <1>1, <1>3, <1>8
<1> QED
  BY <1>1, <1>8, <1>9 DEF Readable, Open

----------------------------------------------------------------------------
(* The validation that still holds after two parts, one behind the other.  *)
Valid(S) == {i \in S : Result(i) = "check" /\ \A w \in Writes(S) : w < i}

LEMMA LatestOf ==
  ASSUME NEW N \in Nat, NEW S \in SUBSET (1..N)
  PROVE  /\ Latest(S) \in 0..N
         /\ S = {} => Latest(S) = 0
         /\ S # {} => Latest(S) \in S /\ \A y \in S : Latest(S) >= y
<1>1. S \in SUBSET (0..N)
  OBVIOUS
<1>2. S # {} => Max(S) \in S /\ \A y \in S : Max(S) >= y
  BY <1>1, MaxOf
<1>3. CASE S = {}
  BY <1>3 DEF Latest
<1>4. CASE S # {}
  <2>1. Latest(S) = Max(S)
    BY <1>4 DEF Latest
  <2>2. Max(S) \in S /\ \A y \in S : Max(S) >= y
    BY <1>2, <1>4
  <2>3. Max(S) \in 0..N
    BY <1>1, <2>2
  <2> QED
    BY <1>4, <2>1, <2>2, <2>3
<1> QED
  BY <1>3, <1>4

LEMMA LatestIs ==
  ASSUME NEW N \in Nat, NEW S \in SUBSET (1..N), NEW m \in S, \A y \in S : m >= y
  PROVE  Latest(S) = m
<1>1. Latest(S) \in S /\ Latest(S) >= m /\ m >= Latest(S)
  BY LatestOf
<1>2. Latest(S) \in Nat /\ m \in Nat
  <2>1. \A y \in S : y \in Nat
    OBVIOUS
  <2> QED
    BY <1>1, <2>1
<1> QED
  BY <1>1, <1>2

LEMMA ValidType ==
  ASSUME NEW m \in Nat, NEW n \in Nat
  PROVE  /\ ValidIn(m + 1..n) = Latest(Valid(m + 1..n)) /\ Valid(m + 1..n) \in SUBSET (1..n)
         /\ ValidIn(m + 1..n) \in 0..n
<1>1. ValidIn(m + 1..n) = Latest(Valid(m + 1..n)) /\ Valid(m + 1..n) \in SUBSET (1..n)
  BY DEF ValidIn, Valid
<1> QED
  BY <1>1, LatestOf

(* The evidence of the items up to f is that of the items behind d, unless nothing was written
   or validated there. *)
JoinsAt(a, d, f) ==
  ValidIn(a + 1..f) = IF ValidIn(d + 1..f) # 0 \/ Writes(d + 1..f) # {}
                      THEN ValidIn(d + 1..f) ELSE ValidIn(a + 1..d)

LEMMA ValidMerge ==
  \A a, d, f \in Nat : a <= d /\ d <= f => JoinsAt(a, d, f)
<1> TAKE a, d, f \in Nat
<1> HAVE a <= d /\ d <= f
<1> SUFFICES ValidIn(a + 1..f) = IF ValidIn(d + 1..f) # 0 \/ Writes(d + 1..f) # {}
                                 THEN ValidIn(d + 1..f) ELSE ValidIn(a + 1..d)
  BY DEF JoinsAt
<1> DEFINE A == a + 1..d
           B == d + 1..f
           C == a + 1..f
<1>1. /\ ValidIn(A) = Latest(Valid(A)) /\ Valid(A) \in SUBSET (1..d)
      /\ ValidIn(B) = Latest(Valid(B)) /\ Valid(B) \in SUBSET (1..f)
      /\ ValidIn(C) = Latest(Valid(C)) /\ Valid(C) \in SUBSET (1..f)
  BY ValidType
<1>2. C = A \cup B /\ \A x \in A, y \in B : x \in Nat /\ y \in Nat /\ x < y
  OBVIOUS
<1> HIDE DEF A, B, C
<1>3. Writes(C) = Writes(A) \cup Writes(B) /\ Writes(A) \subseteq A /\ Writes(B) \subseteq B
  BY <1>2 DEF Writes
<1>4. \A i \in B : i \in Valid(C) <=> i \in Valid(B)
  BY <1>2, <1>3 DEF Valid
<1>5. \A i \in A : i \in Valid(C) <=> i \in Valid(A) /\ Writes(B) = {}
  <2>1. ASSUME NEW i \in A, i \in Valid(C) PROVE i \in Valid(A) /\ Writes(B) = {}
    <3>1. \A w \in Writes(B) : w < i /\ i < w /\ w \in Nat /\ i \in Nat
      BY <1>2, <1>3, <2>1 DEF Valid
    <3>2. Writes(B) = {}
      BY <3>1
    <3> QED
      BY <1>3, <2>1, <3>2 DEF Valid
  <2>2. ASSUME NEW i \in A, i \in Valid(A), Writes(B) = {} PROVE i \in Valid(C)
    BY <1>2, <1>3, <2>2 DEF Valid
  <2> QED
    BY <2>1, <2>2
<1>6. Valid(C) \subseteq A \cup B /\ Valid(B) \subseteq B /\ Valid(A) \subseteq A
  BY <1>2 DEF Valid
<1>7. CASE Valid(B) # {}
  <2>1. Latest(Valid(B)) \in Valid(B) /\ \A y \in Valid(B) : Latest(Valid(B)) >= y
    BY <1>1, <1>7, LatestOf
  <2> DEFINE m == Latest(Valid(B))
  <2> HIDE DEF m
  <2>2. m \in Valid(C) /\ m \in B
    BY <1>4, <1>6, <2>1 DEF m
  <2>3. ASSUME NEW y \in Valid(C) PROVE m >= y
    <3>1. CASE y \in B
      BY <1>4, <2>1, <3>1 DEF m
    <3>2. CASE y \in A
      BY <1>2, <2>2, <3>2
    <3> QED
      BY <1>6, <3>1, <3>2
  <2>4. Latest(Valid(C)) = m
    BY <1>1, <2>2, <2>3, LatestIs
  <2>5. m # 0
    BY <1>1, <2>1 DEF m
  <2> QED
    BY <1>1, <2>4, <2>5 DEF m, A, B, C
<1>8. CASE Valid(B) = {}
  <2>1. ValidIn(B) = 0
    BY <1>1, <1>8, LatestOf
  <2>2. CASE Writes(B) = {}
    <3>1. Valid(C) = Valid(A)
      BY <1>4, <1>5, <1>6, <1>8, <2>2
    <3> QED
      BY <1>1, <2>1, <2>2, <3>1 DEF A, B, C
  <2>3. CASE Writes(B) # {}
    <3>1. Valid(C) = {}
      BY <1>4, <1>5, <1>6, <1>8, <2>3
    <3>2. ValidIn(C) = 0
      BY <1>1, <3>1, LatestOf
    <3> QED
      BY <2>1, <2>3, <3>2 DEF A, B, C
  <2> QED
    BY <2>2, <2>3
<1> QED
  BY <1>7, <1>8

----------------------------------------------------------------------------
(* A digest is rolled up segment by segment.                               *)
Sums(t) == [sum : [turn : {0, t}, items : Seq(Nat), updates : SUBSET Nat,
                   evidence : {0} \cup {ValidIn(S) : S \in SUBSET Nat}],
            from : Nat \ {0}]
Blank == [sum |-> NoDigest, from |-> 1]

RollOn(t, items, k, v) ==
  IF k = 0 THEN Blank
  ELSE IF k \in Ends(items)
       THEN [sum |-> Merge(v.sum, Build(t, SubSeq(items, v.from, k))), from |-> k + 1]
  ELSE v

Rolling(t, items, cut, roll) ==
  roll = [k \in 0..cut |->
           LET before == roll[k - 1]
           IN  IF k = 0 THEN [sum |-> NoDigest, from |-> 1]
               ELSE IF k \in Ends(items)
                    THEN [sum |-> Merge(before.sum, Build(t, SubSeq(items, before.from, k))),
                          from |-> k + 1]
               ELSE before]

LEMMA PartOf ==
  ASSUME NEW items \in Seq(Nat), NEW from \in Nat \ {0}, NEW k \in 1..Len(items)
  PROVE  SubSeq(items, from, k) \in Seq(Nat) /\ Range(SubSeq(items, from, k)) \in SUBSET Nat
<1>1. SubSeq(items, from, k) \in Seq(Nat)
  <2>1. CASE from <= k
    <3>1. from \in 1..Len(items) + 1 /\ k \in 0..Len(items) /\ from <= k + 1
      BY <2>1
    <3> QED
      BY <3>1, RangeOfPart
  <2>2. CASE ~(from <= k)
    <3>1. SubSeq(items, from, k) = <<>>
      BY <2>2
    <3> QED
      BY <3>1
  <2> QED
    BY <2>1, <2>2
<1> DEFINE q == SubSeq(items, from, k)
<1> HIDE DEF q
<1>2. q \in Seq(Nat)
  BY <1>1 DEF q
<1>3. Range(q) \subseteq Nat
  BY <1>2 DEF Range
<1> QED
  BY <1>2, <1>3 DEF q

LEMMA RollOnType ==
  ASSUME NEW t, NEW items \in Seq(Nat), NEW k \in 1..Len(items), NEW v \in Sums(t)
  PROVE  RollOn(t, items, k, v) \in Sums(t)
<1> DEFINE q == SubSeq(items, v.from, k)
           d == Build(t, q)
           E == {0} \cup {ValidIn(S) : S \in SUBSET Nat}
           D == [turn : {0, t}, items : Seq(Nat), updates : SUBSET Nat, evidence : E]
<1>1. v.from \in Nat \ {0} /\ v.sum \in D
  BY DEF Sums
<1>2. q \in Seq(Nat) /\ Range(q) \in SUBSET Nat
  BY <1>1, PartOf
<1> HIDE DEF q
<1>3. d \in D
  <2>1. ValidIn(Range(q)) \in E
    BY <1>2
  <2>2. {i \in Range(q) : Human(i) /\ journal[i].turn = t} \in SUBSET Nat
    BY <1>2
  <2> HIDE DEF E
  <2> QED
    BY <1>2, <2>1, <2>2 DEF Build
<1>4. Merge(v.sum, d) \in D
  <2> HIDE DEF d
  <2>1. v.sum.items \o d.items \in Seq(Nat) /\ v.sum.updates \cup d.updates \in SUBSET Nat
    <3> HIDE DEF E
    <3>1. /\ v.sum.items \in Seq(Nat) /\ d.items \in Seq(Nat)
          /\ v.sum.updates \in SUBSET Nat /\ d.updates \in SUBSET Nat
      BY <1>1, <1>3
    <3> QED
      BY <3>1
  <2> HIDE DEF E
  <2> QED
    BY <1>1, <1>3, <2>1 DEF Merge
<1>5. k + 1 \in Nat \ {0}
  OBVIOUS
<1>6. CASE k \in Ends(items)
  <2>1. RollOn(t, items, k, v) = [sum |-> Merge(v.sum, d), from |-> k + 1]
    BY <1>6 DEF RollOn, q
  <2> HIDE DEF d
  <2> DEFINE g == Merge(v.sum, d)
  <2>2. g \in D
    BY <1>4
  <2> HIDE DEF g
  <2>3. [sum |-> g, from |-> k + 1] \in Sums(t)
    <3>1. [sum |-> g, from |-> k + 1] \in [sum : D, from : Nat \ {0}]
      <4> HIDE DEF D
      <4> QED
        BY <1>5, <2>2
    <3> QED
      BY <3>1 DEF Sums
  <2> QED
    BY <2>1, <2>3 DEF g
<1>7. CASE k \notin Ends(items)
  BY <1>7 DEF RollOn
<1> QED
  BY <1>6, <1>7

LEMMA RollingSteps ==
  ASSUME NEW t, NEW items, NEW cut \in Nat, NEW roll, Rolling(t, items, cut, roll)
  PROVE  \A k \in 0..cut : roll[k] = RollOn(t, items, k, roll[k - 1])
<1>1. roll = [k \in 0..cut |-> RollOn(t, items, k, roll[k - 1])]
  BY Zenon DEF Rolling, RollOn, Blank
<1> QED
  BY <1>1

RolledBy(previous, t, items, cut, roll) ==
  /\ Rolled(previous, t, items, cut) = Merge(previous, roll[cut].sum)
  /\ \A k \in 0..cut : roll[k] = RollOn(t, items, k, roll[k - 1])

LEMMA RolledSteps ==
  ASSUME NEW t, NEW items \in Seq(Nat), NEW cut \in 0..Len(items), NEW previous
  PROVE  \E roll : RolledBy(previous, t, items, cut, roll)
<1> DEFINE step == [k \in 1..cut |-> [v \in Sums(t) |-> RollOn(t, items, k, v)]]
           V == Sums(t)
<1>1. cut \in Nat /\ \A k \in 1..cut : k \in 1..Len(items)
  OBVIOUS
<1>2. Blank \in V
  <2>1. NoDigest \in [turn : {0, t}, items : Seq(Nat), updates : SUBSET Nat,
                      evidence : {0} \cup {ValidIn(S) : S \in SUBSET Nat}]
    BY DEF NoDigest
  <2> QED
    BY <2>1 DEF Sums, Blank
<1>3. \A k \in 1..cut, v \in V : RollOn(t, items, k, v) \in V
  BY <1>1, RollOnType
<1> HIDE DEF V
<1>4. step \in [1..cut -> [V -> V]] /\ \A k \in 1..cut, v \in V : step[k][v] = RollOn(t, items, k, v)
  BY <1>3 DEF V
<1> HIDE DEF step
<1>5. PICK f \in [0..cut -> V] : StepsFrom(cut, Blank, step, f)
  BY <1>1, <1>2, <1>4, Recursion
<1>6. ASSUME NEW k \in 0..cut PROVE f[k] = RollOn(t, items, k, f[k - 1])
  <2>1. CASE k = 0
    BY <1>5, <2>1 DEF StepsFrom, RollOn
  <2>2. CASE k # 0
    <3>1. k \in 1..cut /\ k - 1 \in 0..cut
      BY <1>1, <2>2
    <3>2. f[k - 1] \in V /\ f[k] = step[k][f[k - 1]]
      BY <1>5, <3>1 DEF StepsFrom
    <3> QED
      BY <1>4, <3>1, <3>2
  <2> QED
    BY <2>1, <2>2
<1>7. Rolling(t, items, cut, f)
  <2>1. f = [k \in 0..cut |-> RollOn(t, items, k, f[k - 1])]
    BY <1>6
  <2> QED
    BY <2>1, Zenon DEF Rolling, RollOn, Blank
<1> DEFINE roll == CHOOSE roll : Rolling(t, items, cut, roll)
<1>8. Rolling(t, items, cut, roll)
  BY <1>7
<1>9. Rolled(previous, t, items, cut) = Merge(previous, roll[cut].sum)
  BY Zenon DEF Rolled, Rolling
<1> HIDE DEF roll
<1>10. \A k \in 0..cut : roll[k] = RollOn(t, items, k, roll[k - 1])
  BY <1>1, <1>8, RollingSteps
<1> QED
  BY <1>9, <1>10 DEF RolledBy

(* The digest of the first k items of a page behind after. *)
SumUpTo(t, items, after, k) ==
  [turn |-> t, items |-> SubSeq(items, 1, k),
   updates |-> {i \in after + 1..after + k : Human(i) /\ journal[i].turn = t},
   evidence |-> ValidIn(after + 1..after + k)]

RolledUpTo(t, items, after, k, v) ==
  \E e \in 0..k : /\ e = 0 \/ e \in Ends(items)
                  /\ k \in Ends(items) => e = k
                  /\ v.from = e + 1
                  /\ v.sum = IF e = 0 THEN NoDigest ELSE SumUpTo(t, items, after, e)

(* A page of the items behind after. *)
PageOf(items, after) ==
  /\ after \in Nat /\ items \in Seq(Nat)
  /\ \A i, j \in 1..Len(items) : items[i] = items[j] => i = j
  /\ Cuts(items, after)

LEMMA SegmentOf ==
  ASSUME NEW after, NEW items, PageOf(items, after), NEW k \in Ends(items), NEW e \in 0..k - 1,
         e = 0 \/ e \in Ends(items)
  PROVE  /\ Range(SubSeq(items, e + 1, k)) = after + e + 1..after + k
         /\ SubSeq(items, e + 1, k) \in Seq(Nat)
         /\ SubSeq(items, 1, e) \o SubSeq(items, e + 1, k) = SubSeq(items, 1, k)
<1>1. /\ after \in Nat /\ items \in Seq(Nat) /\ Len(items) \in Nat
      /\ k \in 1..Len(items) /\ e \in 0..Len(items) /\ e \in Nat /\ k \in Nat /\ e < k
  <2>1. after \in Nat /\ items \in Seq(Nat) /\ Len(items) \in Nat
    BY DEF PageOf
  <2>2. k \in 1..Len(items)
    BY <2>1 DEF Ends
  <2> QED
    BY <2>1, <2>2
<1>2. First(items, k) = after + 1..after + k
  BY DEF PageOf, Cuts
<1>3. First(items, e) = after + 1..after + e
  <2>1. CASE e = 0
    BY <1>1, <2>1 DEF First
  <2>2. CASE e # 0
    BY <2>2 DEF PageOf, Cuts
  <2> QED
    BY <2>1, <2>2
<1>4. /\ SubSeq(items, e + 1, k) \in Seq(Nat) /\ Len(SubSeq(items, e + 1, k)) = k - (e + 1) + 1
      /\ \A i \in 1..(k - (e + 1) + 1) : SubSeq(items, e + 1, k)[i] = items[e + 1 + i - 1]
      /\ Range(SubSeq(items, e + 1, k)) = {items[i] : i \in e + 1..k}
  <2> DEFINE m == e + 1
  <2>1. m \in 1..Len(items) + 1 /\ k \in 0..Len(items) /\ m <= k + 1
    BY <1>1
  <2> HIDE DEF m
  <2>2. SubSeq(items, m, k) \in Seq(Nat) /\ IsPart(SubSeq(items, m, k), items, m, k)
    BY <1>1, <2>1, RangeOfPart
  <2> QED
    BY <2>2 DEF IsPart, m
<1>5. \A i \in e + 1..k : i \in 1..k /\ i \in 1..Len(items)
  BY <1>1
<1>6. {items[i] : i \in e + 1..k} = after + e + 1..after + k
  <2>1. ASSUME NEW i \in e + 1..k PROVE items[i] \in after + e + 1..after + k
    <3>1. items[i] \in after + 1..after + k
      BY <1>2, <1>5 DEF First
    <3>2. items[i] \notin after + 1..after + e
      <4>1. ASSUME NEW j \in 1..e PROVE items[j] # items[i]
        <5>1. j \in 1..Len(items) /\ i \in 1..Len(items) /\ j # i
          BY <1>1
        <5> QED
          BY <5>1 DEF PageOf
      <4> QED
        BY <1>3, <4>1 DEF First
    <3> QED
      BY <1>1, <3>1, <3>2
  <2>2. ASSUME NEW x \in after + e + 1..after + k PROVE \E i \in e + 1..k : x = items[i]
    <3>1. x \in after + 1..after + k /\ x \notin after + 1..after + e
      BY <1>1
    <3>2. PICK i \in 1..k : x = items[i]
      BY <1>2, <3>1 DEF First
    <3>3. i \notin 1..e
      BY <1>3, <3>1, <3>2 DEF First
    <3>4. i \in e + 1..k
      BY <1>1, <3>2, <3>3
    <3> QED
      BY <3>2, <3>4
  <2> QED
    BY <2>1, <2>2
<1>7. SubSeq(items, 1, e) \o SubSeq(items, e + 1, k) = SubSeq(items, 1, k)
  <2> DEFINE p == SubSeq(items, 1, e)
             q == SubSeq(items, e + 1, k)
             r == SubSeq(items, 1, k)
  <2>1. p \in Seq(Nat) /\ Len(p) = e /\ \A i \in 1..e : p[i] = items[i]
    <3>1. 1 \in 1..Len(items) + 1 /\ e \in 0..Len(items) /\ 1 <= e + 1
      BY <1>1
    <3>2. p \in Seq(Nat) /\ IsPart(p, items, 1, e)
      BY <1>1, <3>1, RangeOfPart
    <3>3. e - 1 + 1 = e /\ \A i \in 1..e : 1 + i - 1 = i
      BY <1>1
    <3> HIDE DEF p
    <3> QED
      BY <3>2, <3>3 DEF IsPart
  <2>2. r \in Seq(Nat) /\ Len(r) = k /\ \A i \in 1..k : r[i] = items[i]
    <3>1. 1 \in 1..Len(items) + 1 /\ k \in 0..Len(items) /\ 1 <= k + 1
      BY <1>1
    <3>2. r \in Seq(Nat) /\ IsPart(r, items, 1, k)
      BY <1>1, <3>1, RangeOfPart
    <3>3. k - 1 + 1 = k /\ \A i \in 1..k : 1 + i - 1 = i
      BY <1>1
    <3> HIDE DEF r
    <3> QED
      BY <3>2, <3>3 DEF IsPart
  <2>3. q \in Seq(Nat) /\ Len(q) = k - e /\ \A i \in 1..k - e : q[i] = items[e + i]
    <3>1. k - (e + 1) + 1 = k - e /\ \A i \in 1..k - e : e + 1 + i - 1 = e + i
      BY <1>1
    <3> HIDE DEF q
    <3> QED
      BY <1>4, <3>1 DEF q
  <2> HIDE DEF p, q, r
  <2> DEFINE z == p \o q
  <2>4. /\ z \in Seq(Nat) /\ Len(z) = Len(p) + Len(q)
        /\ \A i \in 1..Len(p) : z[i] = p[i]
        /\ \A i \in 1..Len(q) : z[Len(p) + i] = q[i]
    <3>1. p \in Seq(Nat) /\ q \in Seq(Nat)
      BY <2>1, <2>3
    <3>2. Len(p) \in Nat /\ Len(q) \in Nat
      BY <3>1
    <3> QED
      BY <3>1, <3>2
  <2> HIDE DEF z
  <2>5. Len(z) = k
    BY <1>1, <2>1, <2>3, <2>4
  <2>6. ASSUME NEW i \in 1..k PROVE z[i] = r[i]
    <3>1. CASE i <= e
      <4>1. i \in 1..e
        BY <1>1, <3>1
      <4> QED
        BY <2>1, <2>2, <2>4, <4>1
    <3>2. CASE ~(i <= e)
      <4>1. i - e \in 1..k - e /\ e + (i - e) = i
        BY <1>1, <3>2
      <4>2. z[e + (i - e)] = q[i - e] /\ q[i - e] = items[e + (i - e)]
        BY <2>1, <2>3, <2>4, <4>1
      <4> QED
        BY <2>2, <4>1, <4>2
    <3> QED
      BY <3>1, <3>2
  <2>7. z = r
    <3>1. DOMAIN z = 1..k /\ DOMAIN r = 1..k
      BY <2>2, <2>4, <2>5
    <3>2. z = [i \in 1..k |-> z[i]] /\ r = [i \in 1..k |-> r[i]]
      BY <2>2, <2>4, <3>1
    <3>3. [i \in 1..k |-> z[i]] = [i \in 1..k |-> r[i]]
      BY <2>6
    <3> QED
      BY <3>2, <3>3
  <2> QED
    BY <2>7 DEF p, q, r, z
<1> QED
  BY <1>4, <1>6, <1>7

LEMMA RollStep ==
  ASSUME NEW t \in Runs, NEW after, NEW items, PageOf(items, after), NEW k \in 1..Len(items),
         NEW v, RolledUpTo(t, items, after, k - 1, v)
  PROVE  RolledUpTo(t, items, after, k, RollOn(t, items, k, v))
<1>1. /\ after \in Nat /\ items \in Seq(Nat) /\ k \in Nat /\ k # 0 /\ t # 0
  BY DEF PageOf, Runs
<1>2. PICK e \in 0..k - 1 :
        /\ e = 0 \/ e \in Ends(items)
        /\ v.from = e + 1
        /\ v.sum = IF e = 0 THEN NoDigest ELSE SumUpTo(t, items, after, e)
  BY DEF RolledUpTo
<1>3. e \in 0..k /\ e \in Nat
  BY <1>1
<1>4. CASE k \notin Ends(items)
  <2>1. RollOn(t, items, k, v) = v
    BY <1>1, <1>4 DEF RollOn
  <2> QED
    BY <1>2, <1>3, <1>4, <2>1 DEF RolledUpTo
<1>5. CASE k \in Ends(items)
  <2> DEFINE q == SubSeq(items, e + 1, k)
             d == Build(t, q)
             w == Merge(v.sum, d)
  <2>1. RollOn(t, items, k, v) = [sum |-> w, from |-> k + 1]
    BY <1>1, <1>2, <1>5 DEF RollOn
  <2>2. Range(q) = after + e + 1..after + k /\ SubSeq(items, 1, e) \o q = SubSeq(items, 1, k)
    BY <1>2, <1>5, SegmentOf
  <2>3. /\ d.turn = t /\ d.items = q
        /\ d.updates = {i \in after + e + 1..after + k : Human(i) /\ journal[i].turn = t}
        /\ d.evidence = ValidIn(after + e + 1..after + k)
        /\ d = [turn |-> t, items |-> q, updates |-> d.updates, evidence |-> d.evidence]
    <3> HIDE DEF q
    <3> QED
      BY <2>2 DEF Build
  <2>4. w = SumUpTo(t, items, after, k)
    <3>1. CASE e = 0
      <4>1. w = d
        <5> HIDE DEF d
        <5> QED
          BY <1>2, <3>1 DEF Merge
      <4>2. q = SubSeq(items, 1, k) /\ after + e + 1 = after + 1
        BY <1>1, <3>1
      <4> HIDE DEF q, d, w
      <4> QED
        BY <2>3, <4>1, <4>2 DEF SumUpTo
    <3>2. CASE e # 0
      <4> DEFINE s == SumUpTo(t, items, after, e)
      <4>1. v.sum = s /\ s # NoDigest
        BY <1>1, <1>2, <3>2 DEF SumUpTo, NoDigest
      <4>2. /\ s.turn = t /\ s.items = SubSeq(items, 1, e)
            /\ s.updates = {i \in after + 1..after + e : Human(i) /\ journal[i].turn = t}
            /\ s.evidence = ValidIn(after + 1..after + e)
        BY DEF SumUpTo
      <4>3. Writes(Range(d.items)) = Writes(after + e + 1..after + k)
        BY <2>2, <2>3
      <4> HIDE DEF s, d, q
      <4>4. w = [turn |-> t, items |-> SubSeq(items, 1, k),
                 updates |-> s.updates \cup d.updates,
                 evidence |-> IF d.evidence # 0 \/ Writes(Range(d.items)) # {}
                              THEN d.evidence ELSE s.evidence]
        BY <2>2, <2>3, <4>1, <4>2 DEF Merge
      <4>5. s.updates \cup d.updates
              = {i \in after + 1..after + k : Human(i) /\ journal[i].turn = t}
        <5>1. after + 1..after + k = (after + 1..after + e) \cup (after + e + 1..after + k)
          BY <1>1, <1>3
        <5> QED
          BY <2>3, <4>2, <5>1
      <4>6. ValidIn(after + 1..after + k)
              = IF d.evidence # 0 \/ Writes(Range(d.items)) # {} THEN d.evidence ELSE s.evidence
        <5> DEFINE x == after + e
                   y == after + k
        <5>1. after \in Nat /\ x \in Nat /\ y \in Nat /\ after <= x /\ x <= y
          BY <1>1, <1>3
        <5>2. ValidIn(after + 1..y) = IF ValidIn(x + 1..y) # 0 \/ Writes(x + 1..y) # {}
                                      THEN ValidIn(x + 1..y) ELSE ValidIn(after + 1..x)
          <6> HIDE DEF x, y
          <6>1. JoinsAt(after, x, y)
            BY <5>1, ValidMerge
          <6> QED
            BY <6>1 DEF JoinsAt
        <5> QED
          BY <2>3, <4>2, <4>3, <5>2
      <4> HIDE DEF w
      <4> QED
        BY <4>4, <4>5, <4>6 DEF SumUpTo
    <3> QED
      BY <3>1, <3>2
  <2>5. k \in 0..k
    BY <1>1
  <2> HIDE DEF w
  <2>6. RolledUpTo(t, items, after, k, [sum |-> w, from |-> k + 1])
    BY <1>1, <1>5, <2>4, <2>5 DEF RolledUpTo
  <2> QED
    BY <2>1, <2>6
<1> QED
  BY <1>4, <1>5

(* What is merged into the old digest is that of the items up to the cut. *)
LEMMA RollsUp ==
  ASSUME NEW t \in Runs, NEW after, NEW items, PageOf(items, after), NEW cut \in Ends(items),
         NEW previous
  PROVE  Rolled(previous, t, items, cut) = Merge(previous, SumUpTo(t, items, after, cut))
<1>1. /\ after \in Nat /\ items \in Seq(Nat) /\ cut \in 1..Len(items) /\ cut \in Nat
      /\ cut \in 0..Len(items)
  BY DEF PageOf, Ends
<1>2. PICK roll : RolledBy(previous, t, items, cut, roll)
  <2>1. items \in Seq(Nat) /\ cut \in 0..Len(items)
    BY <1>1
  <2> QED
    BY <2>1, RolledSteps
<1>3. /\ Rolled(previous, t, items, cut) = Merge(previous, roll[cut].sum)
      /\ \A k \in 0..cut : roll[k] = RollOn(t, items, k, roll[k - 1])
  BY <1>2 DEF RolledBy
<1> DEFINE T == {k \in 0..cut : RolledUpTo(t, items, after, k, roll[k])}
<1>4. 0 \in T
  <2>1. roll[0] = Blank
    <3>1. 0 \in 0..cut
      BY <1>1
    <3>2. roll[0] = RollOn(t, items, 0, roll[0 - 1])
      BY <1>3, <3>1
    <3> QED
      BY <3>2 DEF RollOn
  <2>2. 0 \notin Ends(items)
    BY <1>1 DEF Ends
  <2>3. RolledUpTo(t, items, after, 0, Blank)
    BY <2>2 DEF RolledUpTo, Blank
  <2> QED
    BY <1>1, <2>1, <2>3
<1>5. ASSUME NEW k \in 1..cut, k - 1 \in T PROVE k \in T
  <2>1. k \in 1..Len(items) /\ k \in 0..cut /\ RolledUpTo(t, items, after, k - 1, roll[k - 1])
    BY <1>1, <1>5
  <2>2. RolledUpTo(t, items, after, k, roll[k])
    BY <1>3, <2>1, RollStep
  <2> QED
    BY <2>1, <2>2
<1>6. cut \in T
  <2>1. cut \in 0..cut
    BY <1>1
  <2> HIDE DEF T
  <2>2. 0..cut \subseteq T
    BY <1>1, <1>4, <1>5, Climb
  <2> QED
    BY <2>1, <2>2
<1>7. roll[cut].sum = SumUpTo(t, items, after, cut)
  BY <1>1, <1>6 DEF RolledUpTo
<1> QED
  BY <1>3, <1>7

----------------------------------------------------------------------------
(* What holds of the items of the journal holds of a longer journal.       *)
Grown ==
  /\ journal \in Seq(Items) /\ journal' \in Seq(Items) /\ Len(journal) <= Len(journal')
  /\ \A i \in 1..Len(journal) : journal'[i] = journal[i]

LEMMA CompleteStays ==
  ASSUME Grown, NEW b \in 1..Len(journal), NEW e \in 0..Len(journal)
  PROVE  IsComplete(b, e)' <=> IsComplete(b, e)
<1>1. \A i \in b + 1..e : journal'[i] = journal[i]
  BY DEF Grown
<1>2. journal'[b] = journal[b]
  BY DEF Grown
<1>3. ASSUME NEW x \in b + 1..e PROVE ResultsAt(b, x)' = ResultsAt(b, x)
  <2>1. \A i \in b + 1..x : i \in b + 1..e
    OBVIOUS
  <2>2. \A i \in b + 1..x : journal'[i] = journal[i]
    BY <1>1, <2>1
  <2> QED
    BY <2>2 DEF ResultsAt
<1>4. ASSUME NEW x \in b + 1..e
      PROVE  (\A i \in b + 1..x : journal'[i].kind \in {"tool", "answer"})
             <=> (\A i \in b + 1..x : journal[i].kind \in {"tool", "answer"})
  <2>1. \A i \in b + 1..x : i \in b + 1..e
    OBVIOUS
  <2> QED
    BY <1>1, <2>1
<1> QED
  BY <1>2, <1>3, <1>4 DEF IsComplete

LEMMA BatchesStay ==
  ASSUME Grown, NEW m \in Nat \ {0}, NEW n \in 0..Len(journal)
  PROVE  BatchesIn(m, n)' = BatchesIn(m, n) /\ BatchesIn(m, n) \subseteq 1..Len(journal)
<1>1. \A i \in m..n : journal'[i] = journal[i] /\ i \in 1..Len(journal)
  BY DEF Grown
<1> QED
  BY <1>1 DEF BatchesIn

LEMMA OpenStays ==
  ASSUME Grown, NEW after \in Nat, NEW n \in 0..Len(journal)
  PROVE  Open(after, n)' <=> Open(after, n)
<1>1. after + 1 \in Nat \ {0}
  OBVIOUS
<1>2. BatchesIn(after + 1, n)' = BatchesIn(after + 1, n)
      /\ BatchesIn(after + 1, n) \subseteq 1..Len(journal)
  BY <1>1, BatchesStay
<1>3. \A b \in BatchesIn(after + 1, n) : IsComplete(b, n)' <=> IsComplete(b, n)
  BY <1>2, CompleteStays
<1> QED
  BY <1>2, <1>3 DEF Open

LEMMA CountStays ==
  ASSUME Grown, NEW b \in Nat, NEW e \in 0..Len(journal)
  PROVE  Count(b, e)' = Count(b, e)
<1>1. \A i \in b + 1..e : journal'[i] = journal[i]
  BY DEF Grown
<1> QED
  BY <1>1 DEF Count, ResultsAt

LEMMA InBatchStays ==
  ASSUME Grown, NEW i \in 1..Len(journal), NEW b, InBatch(i, b)
  PROVE  InBatch(i, b)'
<1>1. b \in 1..i - 1 /\ b \in Nat /\ i - 1 \in 0..Len(journal)
  BY DEF InBatch
<1>2. /\ \A j \in b + 1..i : journal'[j] = journal[j]
      /\ journal'[b] = journal[b] /\ journal'[i] = journal[i]
      /\ \A j \in b + 1..i - 1 : journal'[j] = journal[j]
  BY <1>1 DEF Grown
<1>3. Count(b, i - 1)' = Count(b, i - 1)
  BY <1>1, CountStays
<1>4. Quiet(b + 1, i)'
  BY <1>2 DEF InBatch, Quiet
<1> QED
  BY <1>2, <1>3, <1>4 DEF InBatch

LEMMA CutsStay ==
  ASSUME Grown, NEW after \in Nat, NEW items \in Seq(Nat), Cuts(items, after),
         after + Len(items) <= Len(journal), \A i \in 1..Len(items) : items[i] \in 1..Len(journal)
  PROVE  Cuts(items, after)'
<1>1. ASSUME NEW k \in 1..Len(items) PROVE Joins(items, k)' <=> Joins(items, k)
  <2>1. \A j \in 1..k : j \in 1..Len(items)
    OBVIOUS
  <2>2. \A j \in 1..k : journal'[items[j]] = journal[items[j]]
    BY <2>1 DEF Grown
  <2>3. k \in 1..k /\ (k > 1 => k - 1 \in 1..k)
    OBVIOUS
  <2>4. journal'[items[k]] = journal[items[k]]
        /\ (k > 1 => journal'[items[k - 1]] = journal[items[k - 1]])
    BY <2>2, <2>3
  <2> DEFINE asked(J, j) == /\ J[items[j]].kind = "batch"
                            /\ "ask" \in Range(J[items[j]].calls)
                            /\ \A l \in j + 1..k - 1 : J[items[l]].kind = "tool"
  <2>5. ASSUME NEW j \in 1..k - 1 PROVE asked(journal', j) <=> asked(journal, j)
    <3>1. j \in 1..k /\ \A l \in j + 1..k - 1 : l \in 1..k
      OBVIOUS
    <3> QED
      BY <2>2, <3>1
  <2>6. (\E j \in 1..k - 1 : asked(journal', j)) <=> (\E j \in 1..k - 1 : asked(journal, j))
    <3> HIDE DEF asked
    <3> QED
      BY <2>5
  <2> QED
    BY <2>4, <2>6 DEF Joins
<1>2. Ends(items)' = Ends(items)
  <2>1. \A k \in DOMAIN items : k # Len(items) => k + 1 \in 1..Len(items)
    OBVIOUS
  <2> QED
    BY <1>1, <2>1 DEF Ends
<1>3. ASSUME NEW k \in Ends(items)
      PROVE  Open(after, after + k)' <=> Open(after, after + k)
  <2>1. k \in 1..Len(items) /\ Len(journal) \in Nat
    BY DEF Ends, Grown
  <2>2. after + k \in 0..Len(journal)
    BY <2>1
  <2> QED
    BY <2>2, OpenStays
<1>4. \A k : First(items, k)' = First(items, k)
  BY DEF First
<1> QED
  BY <1>2, <1>3, <1>4 DEF Cuts

LEMMA ValidStays ==
  ASSUME Grown, NEW n \in 0..Len(journal)
  PROVE  ValidIn(1..n)' = ValidIn(1..n)
<1>1. \A i \in 1..n : Result(i)' = Result(i)
  BY DEF Grown, Result
<1>2. Writes(1..n)' = Writes(1..n)
  BY <1>1 DEF Writes
<1>3. {i \in 1..n : Result(i) = "check" /\ \A w \in Writes(1..n) : w < i}'
        = {i \in 1..n : Result(i) = "check" /\ \A w \in Writes(1..n) : w < i}
  BY <1>1, <1>2
<1> QED
  BY <1>3 DEF ValidIn, Latest

----------------------------------------------------------------------------
(* A context state whose digest stands for what it covers.                 *)
Updates(t, n) == {i \in 1..n : Human(i) /\ journal[i].turn = t}

Exact(c) ==
  /\ c.covered \in 0..Len(journal)
  /\ Len(c.digest.items) = c.covered /\ Range(c.digest.items) = 1..c.covered
  /\ \A b \in BatchesIn(1, c.covered) : IsComplete(b, c.covered)
  /\ c.digest.evidence = ValidIn(1..c.covered)
  /\ c.digest.updates = Updates(c.digest.turn, c.covered)

LEMMA ExactStays ==
  ASSUME Grown, NEW c, Exact(c)
  PROVE  Exact(c)'
<1>1. c.covered \in 0..Len(journal) /\ 1 \in Nat \ {0}
  BY DEF Exact
<1>2. Len(journal) \in Nat /\ Len(journal') \in Nat /\ Len(journal) <= Len(journal')
  BY DEF Grown
<1>3. c.covered \in 0..Len(journal')
  BY <1>1, <1>2
<1>4. BatchesIn(1, c.covered)' = BatchesIn(1, c.covered)
      /\ BatchesIn(1, c.covered) \subseteq 1..Len(journal)
  BY <1>1, BatchesStay
<1>5. \A b \in BatchesIn(1, c.covered) : IsComplete(b, c.covered)' <=> IsComplete(b, c.covered)
  BY <1>1, <1>4, CompleteStays
<1>6. ValidIn(1..c.covered)' = ValidIn(1..c.covered)
  BY <1>1, ValidStays
<1>7. Updates(c.digest.turn, c.covered)' = Updates(c.digest.turn, c.covered)
  <2>1. \A i \in 1..c.covered : journal'[i] = journal[i]
    BY <1>1 DEF Grown
  <2> QED
    BY <2>1 DEF Updates, Human
<1> QED
  BY <1>3, <1>4, <1>5, <1>6, <1>7 DEF Exact

LEMMA EmptyIsExact ==
  ASSUME Len(journal) \in Nat, \A i \in 1..Len(journal) : journal[i].turn \in Runs
  PROVE  Exact(EmptyContext)
<1>1. EmptyContext.covered = 0 /\ EmptyContext.digest = NoDigest
  BY DEF EmptyContext
<1>2. 1..0 = {} /\ Range(<<>>) = {} /\ BatchesIn(1, 0) = {}
  BY DEF Range, BatchesIn
<1>3. ValidIn({}) = 0
  BY DEF ValidIn, Latest
<1>4. Updates(0, 0) = {}
  BY <1>2 DEF Updates
<1> QED
  BY <1>1, <1>2, <1>3, <1>4 DEF Exact, NoDigest

LEMMA ConcatOf ==
  ASSUME NEW q \in Seq(Nat), NEW p \in Seq(Nat)
  PROVE  /\ q \o p \in Seq(Nat) /\ Len(q \o p) = Len(q) + Len(p)
         /\ Range(q \o p) = Range(q) \cup Range(p)
<1> DEFINE z == q \o p
<1>1. Len(p) \in Nat /\ Len(q) \in Nat
  OBVIOUS
<1>2. /\ z \in Seq(Nat) /\ Len(z) = Len(q) + Len(p)
      /\ \A i \in 1..Len(q) : z[i] = q[i]
      /\ \A i \in 1..Len(p) : z[Len(q) + i] = p[i]
  BY <1>1
<1> HIDE DEF z
<1>3. DOMAIN z = 1..Len(z) /\ DOMAIN q = 1..Len(q) /\ DOMAIN p = 1..Len(p)
  BY <1>2
<1>4. ASSUME NEW i \in 1..Len(z) PROVE z[i] \in Range(q) \cup Range(p)
  <2>1. CASE i <= Len(q)
    <3>1. i \in 1..Len(q)
      BY <1>1, <2>1
    <3> QED
      BY <1>2, <1>3, <3>1 DEF Range
  <2>2. CASE ~(i <= Len(q))
    <3>1. i - Len(q) \in 1..Len(p) /\ Len(q) + (i - Len(q)) = i
      BY <1>1, <1>2, <2>2
    <3>2. z[Len(q) + (i - Len(q))] = p[i - Len(q)]
      BY <1>2, <3>1
    <3> QED
      BY <1>3, <3>1, <3>2 DEF Range
  <2> QED
    BY <2>1, <2>2
<1>5. ASSUME NEW i \in 1..Len(q) PROVE q[i] \in Range(z)
  <2>1. i \in 1..Len(z)
    BY <1>1, <1>2
  <2> QED
    BY <1>2, <1>3, <2>1 DEF Range
<1>6. ASSUME NEW i \in 1..Len(p) PROVE p[i] \in Range(z)
  <2>1. Len(q) + i \in 1..Len(z)
    BY <1>1, <1>2
  <2> QED
    BY <1>2, <1>3, <2>1 DEF Range
<1>7. Range(z) = Range(q) \cup Range(p)
  BY <1>3, <1>4, <1>5, <1>6 DEF Range
<1> QED
  BY <1>2, <1>7 DEF z

(* A digest that is extended by a cut of the page behind it is exact. *)
Merged(c, t, items, cut, n) ==
  LET d == Rolled(c.digest, t, items, cut)
      s == [rev |-> n, covered |-> Max(Range(SubSeq(items, 1, cut))), digest |-> d]
  IN  /\ s.covered = c.covered + cut /\ Exact(s)
      /\ d.turn = t /\ d.items = c.digest.items \o SubSeq(items, 1, cut)
      /\ d = [turn |-> t, items |-> d.items, updates |-> d.updates, evidence |-> d.evidence]

LEMMA MergeIsExact ==
  ASSUME journal \in Seq(Items), NEW t \in Runs, NEW c, Exact(c), c.digest.items \in Seq(Nat),
         c.digest = NoDigest \/ c.digest.turn = t,
         c.digest = [turn |-> c.digest.turn, items |-> c.digest.items,
                     updates |-> c.digest.updates, evidence |-> c.digest.evidence],
         NEW items, PageOf(items, c.covered), c.covered + Len(items) <= Len(journal),
         NEW cut \in Ends(items), NEW n
  PROVE  Merged(c, t, items, cut, n)
<1> DEFINE a == c.covered
           p == SubSeq(items, 1, cut)
           e == SumUpTo(t, items, a, cut)
           d == Rolled(c.digest, t, items, cut)
           m == Max(Range(p))
           s == [rev |-> n, covered |-> m, digest |-> d]
<1>1. /\ a \in Nat /\ items \in Seq(Nat) /\ Len(items) \in Nat /\ Len(journal) \in Nat
      /\ cut \in 1..Len(items) /\ cut \in Nat
  BY DEF PageOf, Ends
<1>2. a + cut \in 0..Len(journal) /\ a <= a + cut /\ a + cut \in Nat
  BY <1>1
<1>3. Range(p) = a + 1..a + cut /\ p \in Seq(Nat) /\ Len(p) = cut
  <2>1. 1 \in 1..Len(items) + 1 /\ cut \in 0..Len(items) /\ 1 <= cut + 1 /\ cut - 1 + 1 = cut
    BY <1>1
  <2>2. p \in Seq(Nat) /\ Len(p) = cut - 1 + 1 /\ Range(p) = {items[i] : i \in 1..cut}
    <3>1. p \in Seq(Nat) /\ IsPart(p, items, 1, cut)
      BY <1>1, <2>1, RangeOfPart
    <3> HIDE DEF p
    <3> QED
      BY <3>1 DEF IsPart
  <2>3. First(items, cut) = a + 1..a + cut
    BY DEF PageOf, Cuts
  <2> QED
    BY <2>1, <2>2, <2>3 DEF First
<1>4. m = a + cut
  <2> HIDE DEF p
  <2>1. Range(p) \in SUBSET (0..a + cut) /\ Range(p) # {} /\ a + cut \in Range(p)
    <3>1. Range(p) = a + 1..a + cut /\ a \in Nat /\ cut \in Nat /\ cut # 0
      BY <1>1, <1>3
    <3> HIDE DEF a
    <3>2. a + cut \in a + 1..a + cut /\ a + 1..a + cut \subseteq 0..a + cut
      BY <3>1
    <3> QED
      BY <3>1, <3>2
  <2>2. m \in Range(p) /\ m >= a + cut
    BY <1>2, <2>1, MaxOf
  <2>3. m \in a + 1..a + cut
    BY <1>3, <2>2
  <2>4. m \in Int /\ m <= a + cut /\ a + cut \in Int
    <3> HIDE DEF m, a
    <3> QED
      BY <1>1, <2>3
  <2> HIDE DEF m, a
  <2> QED
    BY <2>2, <2>4
<1>5. d = Merge(c.digest, e)
  BY RollsUp
<1>6. /\ e.turn = t /\ e.items = p
      /\ e.updates = {i \in a + 1..a + cut : Human(i) /\ journal[i].turn = t}
      /\ e.evidence = ValidIn(a + 1..a + cut)
      /\ e = [turn |-> e.turn, items |-> e.items, updates |-> e.updates, evidence |-> e.evidence]
  BY DEF SumUpTo
<1>7. /\ Len(c.digest.items) = a /\ Range(c.digest.items) = 1..a
      /\ c.digest.evidence = ValidIn(1..a) /\ c.digest.updates = Updates(c.digest.turn, a)
      /\ \A b \in BatchesIn(1, a) : IsComplete(b, a)
  BY DEF Exact
<1> HIDE DEF d, e, p
<1>8. 1..a + cut = (1..a) \cup (a + 1..a + cut)
  BY <1>1
<1>9. /\ d.turn = t /\ d.items = c.digest.items \o p
      /\ d.updates = Updates(t, a + cut)
      /\ d.evidence = ValidIn(1..a + cut)
      /\ d = [turn |-> d.turn, items |-> d.items, updates |-> d.updates, evidence |-> d.evidence]
  <2>1. CASE c.digest = NoDigest
    <3>1. d = e /\ c.digest.items = <<>>
      BY <1>5, <2>1 DEF Merge, NoDigest
    <3>2. a = 0
      BY <1>7, <3>1
    <3>3. c.digest.items \o p = p
      BY <1>3, <3>1
    <3>4. a + 1..a + cut = 1..a + cut
      BY <1>1, <3>2
    <3> QED
      BY <1>6, <3>1, <3>3, <3>4 DEF Updates
  <2>2. CASE c.digest # NoDigest
    <3>1. d = [turn |-> c.digest.turn,
               items |-> c.digest.items \o e.items,
               updates |-> c.digest.updates \cup e.updates,
               evidence |-> IF e.evidence # 0 \/ Writes(Range(e.items)) # {}
                            THEN e.evidence ELSE c.digest.evidence]
      BY <1>5, <2>2 DEF Merge
    <3>2. c.digest.turn = t
      BY <2>2
    <3>3. c.digest.updates \cup e.updates = Updates(t, a + cut)
      BY <1>6, <1>7, <1>8, <3>2 DEF Updates
    <3>4. ValidIn(1..a + cut) = IF e.evidence # 0 \/ Writes(Range(e.items)) # {}
                                THEN e.evidence ELSE c.digest.evidence
      <4>1. ValidIn(0 + 1..a + cut)
              = IF ValidIn(a + 1..a + cut) # 0 \/ Writes(a + 1..a + cut) # {}
                THEN ValidIn(a + 1..a + cut) ELSE ValidIn(0 + 1..a)
        <5>1. 0 \in Nat /\ a \in Nat /\ a + cut \in Nat /\ 0 <= a /\ a <= a + cut
          BY <1>1, <1>2
        <5> DEFINE f == a + cut
        <5>2. f \in Nat /\ a <= f
          BY <5>1
        <5>3. ValidIn(0 + 1..f)
                = IF ValidIn(a + 1..f) # 0 \/ Writes(a + 1..f) # {}
                  THEN ValidIn(a + 1..f) ELSE ValidIn(0 + 1..a)
          <6> HIDE DEF f, a
          <6>1. JoinsAt(0, a, f)
            BY <5>1, <5>2, ValidMerge
          <6> QED
            BY <6>1 DEF JoinsAt
        <5> QED
          BY <5>3
      <4>2. 0 + 1 = 1
        OBVIOUS
      <4> QED
        BY <1>3, <1>6, <1>7, <4>1, <4>2
    <3> QED
      BY <1>6, <3>1, <3>2, <3>3, <3>4
  <2> QED
    BY <2>1, <2>2
<1>10. Len(d.items) = a + cut /\ Range(d.items) = 1..a + cut
  <2>1. c.digest.items \in Seq(Nat) /\ p \in Seq(Nat)
    BY <1>3
  <2>2. d.items = c.digest.items \o p
    BY <1>9
  <2> QED
    BY <1>3, <1>7, <1>8, <2>1, <2>2, ConcatOf
<1>11. ASSUME NEW b \in BatchesIn(1, a + cut) PROVE IsComplete(b, a + cut)
  <2>1. b \in 1..a + cut /\ journal[b].kind = "batch"
    BY DEF BatchesIn
  <2>2. CASE b \in 1..a
    <3>1. b \in BatchesIn(1, a)
      BY <2>1, <2>2 DEF BatchesIn
    <3>2. IsComplete(b, a)
      BY <1>7, <3>1
    <3>3. \A x \in b + 1..a : x \in b + 1..a + cut
      BY <1>1, <2>2
    <3> QED
      BY <3>2, <3>3, CompleteIff
  <2>3. CASE b \in a + 1..a + cut
    <3>1. b \in BatchesIn(a + 1, a + cut)
      BY <2>1, <2>3 DEF BatchesIn
    <3>2. ~Open(a, a + cut)
      BY DEF PageOf, Cuts
    <3> QED
      BY <3>1, <3>2 DEF Open
  <2> QED
    BY <1>8, <2>1, <2>2, <2>3
<1>12. s.covered = a + cut /\ s.digest = d
  BY <1>4
<1> HIDE DEF s, a
<1>13. Exact(s)
  BY <1>2, <1>9, <1>10, <1>11, <1>12 DEF Exact
<1> QED
  BY <1>9, <1>12, <1>13 DEF s, d, p, a, Merged

----------------------------------------------------------------------------
(* The inductive invariant.                                                *)

(* What the Runs, the Turns and the journal have to do with each other: a  *)
(* Run that has not started a Turn is in nobody's way.                     *)
TurnsOK ==
  /\ active # 0 => owner[active] # 0
  /\ \A r \in Runs :
       /\ turn[r] = 0 <=> pc[r] = "new"
       /\ pc[r] = "planned" => turn[r] = r
       /\ pc[r] \in {"new", "planned"} =>
            /\ active # r /\ \A q \in Runs \ {r} : turn[q] # r
            /\ \A i \in 1..Len(journal) : journal[i].turn # r

(* The items behind the covered ones, each once, in model order. *)
Behind(items, after) ==
  /\ \A i, j \in 1..Len(items) : items[i] = items[j] => i = j
  /\ Range(items) = after + 1..after + Len(items)
  /\ after + Len(items) <= Len(journal)

(* What a Run holds: a state that is the stored one as long as no other    *)
(* was saved, the page behind it, and whether the journal goes on.         *)
ViewOK(r) ==
  /\ base[r].rev <= context.rev
  /\ pc[r] \in {"page", "tail", "window"} /\ base[r].rev = context.rev => base[r] = context
  /\ pc[r] \in {"tail", "window", "mark", "model"} => Behind(page[r], base[r].covered)
  /\ pc[r] \in {"tail", "window"} => Cuts(page[r], base[r].covered)
  /\ pc[r] \in {"window", "mark", "model"} /\ MayAppend(r) =>
       more[r] = (Len(journal) > base[r].covered + Len(page[r]))
  /\ pc[r] = "model" => ~more[r]
  /\ pc[r] \in {"mark", "model"} => OwnDigest(r)

Types == TypeOK /\ rev \in [Runs -> Nat] /\ ckpt \in [Runs -> Nat]

CInv ==
  /\ Types /\ JournalOK /\ TurnsOK /\ Exact(context)
  /\ \A r \in Runs : Exact(base[r]) /\ ViewOK(r)

LEMMA RunFacts ==
  /\ Runs \subseteq Nat \ {0} /\ 0 \notin Runs /\ MaxRuns \in Nat /\ MaxItems \in Nat
  /\ \A x \in 0..MaxRuns : x # 0 => x \in Runs
  /\ Runs \subseteq 0..MaxRuns
BY ContextAssumption DEF Runs

LEMMA SeqIn ==
  ASSUME NEW s \in Seq(Nat), NEW S, Range(s) \subseteq S
  PROVE  s \in Seq(S)
<1>1. Len(s) \in Nat /\ DOMAIN s = 1..Len(s) /\ s = [i \in 1..Len(s) |-> s[i]]
  OBVIOUS
<1>2. \A i \in 1..Len(s) : s[i] \in S
  BY <1>1 DEF Range
<1>3. [i \in 1..Len(s) |-> s[i]] \in Seq(S)
  BY <1>1, <1>2
<1> QED
  BY <1>1, <1>3

LEMMA SeqOver ==
  ASSUME NEW n \in Nat, NEW s \in Seq(1..n)
  PROVE  s \in Seq(Nat) /\ Len(s) \in Nat /\ \A i \in 1..Len(s) : s[i] \in 1..n
<1> DEFINE S == 1..n
<1>1. S \subseteq Nat /\ s \in Seq(S)
  OBVIOUS
<1> HIDE DEF S
<1>2. Len(s) \in Nat /\ \A i \in 1..Len(s) : s[i] \in S
  BY <1>1
<1>3. s = [i \in 1..Len(s) |-> s[i]]
  BY <1>1
<1>4. [i \in 1..Len(s) |-> s[i]] \in Seq(Nat)
  BY <1>1, <1>2
<1> QED
  BY <1>2, <1>3, <1>4 DEF S

LEMMA TypeFacts ==
  ASSUME Types
  PROVE  /\ journal \in Seq(Items) /\ Len(journal) \in 0..MaxItems
         /\ context.rev \in Nat /\ active \in 0..MaxRuns
         /\ \A r \in Runs : /\ base[r].rev \in Nat /\ page[r] \in Seq(Nat) /\ Len(page[r]) \in Nat
                            /\ turn[r] \in 0..MaxRuns /\ base[r] \in Contexts
<1>1. journal \in Seq(Items) /\ Len(journal) \in Nat /\ Len(journal) <= MaxItems
  BY DEF Types, TypeOK, Items
<1>2. \A c \in Contexts : c.rev \in Nat
  BY DEF Contexts
<1>3. ASSUME NEW r \in Runs PROVE page[r] \in Seq(Nat) /\ Len(page[r]) \in Nat
  <2>1. page[r] \in Seq(1..MaxItems)
    BY DEF Types, TypeOK
  <2> QED
    BY <2>1, RunFacts, SeqOver
<1> QED
  BY <1>1, <1>2, <1>3, RunFacts DEF Types, TypeOK

LEMMA BehindStays ==
  ASSUME Grown, NEW items, NEW after \in Nat, Len(items) \in Nat, Behind(items, after)
  PROVE  Behind(items, after)'
<1>1. Len(journal) \in Nat /\ Len(journal') \in Nat /\ Len(journal) <= Len(journal')
  BY DEF Grown
<1>2. after + Len(items) <= Len(journal')
  BY <1>1 DEF Behind
<1> QED
  BY <1>2 DEF Behind

(* The items of a page are items of the journal. *)
LEMMA BehindFacts ==
  ASSUME journal \in Seq(Items), NEW items \in Seq(Nat), NEW after \in Nat, Behind(items, after)
  PROVE  /\ \A i \in 1..Len(items) : items[i] \in 1..Len(journal)
         /\ after + Len(items) <= Len(journal)
         /\ Cuts(items, after) => PageOf(items, after)
<1>1. DOMAIN items = 1..Len(items) /\ Len(items) \in Nat /\ Len(journal) \in Nat
  OBVIOUS
<1>2. after + Len(items) <= Len(journal) /\ Range(items) = after + 1..after + Len(items)
  BY DEF Behind
<1>3. ASSUME NEW i \in 1..Len(items) PROVE items[i] \in 1..Len(journal)
  <2>1. items[i] \in after + 1..after + Len(items)
    BY <1>1, <1>2 DEF Range
  <2> QED
    BY <1>1, <1>2, <2>1
<1> QED
  BY <1>2, <1>3 DEF Behind, PageOf

(* A Run that does nothing keeps its view, whatever the others append and  *)
(* save, if they may not append while it may.                              *)
Idle(q) == /\ pc'[q] = pc[q] /\ turn'[q] = turn[q]
           /\ base'[q] = base[q] /\ page'[q] = page[q] /\ more'[q] = more[q]

LEMMA ViewStays ==
  ASSUME CInv, Grown, NEW q \in Runs, Idle(q),
         context' = context \/ context'.rev = context.rev + 1,
         pc[q] \in {"window", "mark", "model"} /\ MayAppend(q)' =>
           MayAppend(q) /\ Len(journal') = Len(journal)
  PROVE  Exact(base[q])' /\ ViewOK(q)'
<1>1. /\ base[q].rev \in Nat /\ context.rev \in Nat /\ page[q] \in Seq(Nat)
      /\ Len(page[q]) \in Nat /\ journal \in Seq(Items) /\ Len(journal) \in Nat
  BY TypeFacts DEF CInv
<1>2. Exact(base[q]) /\ ViewOK(q)
  BY DEF CInv
<1>3. base[q].covered \in Nat /\ base[q].covered \in 0..Len(journal)
  BY <1>1, <1>2 DEF Exact
<1>4. Exact(base[q])'
  BY <1>2, ExactStays DEF Idle
<1>5. Behind(page[q], base[q].covered) => Behind(page[q], base[q].covered)'
  BY <1>1, <1>3, BehindStays DEF Idle
<1>6. Behind(page[q], base[q].covered) /\ Cuts(page[q], base[q].covered)
        => Cuts(page[q], base[q].covered)'
  <2>1. ASSUME Behind(page[q], base[q].covered), Cuts(page[q], base[q].covered)
        PROVE  Cuts(page[q], base[q].covered)'
    <3>1. /\ \A i \in 1..Len(page[q]) : page[q][i] \in 1..Len(journal)
          /\ base[q].covered + Len(page[q]) <= Len(journal)
      BY <1>1, <1>3, <2>1, BehindFacts
    <3> QED
      BY <1>1, <1>3, <2>1, <3>1, CutsStay DEF Idle
  <2> QED
    BY <2>1
<1>7. OwnDigest(q)' <=> OwnDigest(q)
  BY DEF OwnDigest, Idle
<1>8. /\ base[q].rev <= context'.rev
      /\ base[q].rev = context'.rev => context' = context
  BY <1>1, <1>2 DEF ViewOK
<1> QED
  BY <1>2, <1>4, <1>5, <1>6, <1>7, <1>8 DEF ViewOK, Idle

(* A Run that is over, or that holds nothing, has no view. *)
LEMMA NoView ==
  ASSUME Types, Grown, NEW q \in Runs, base'[q] = EmptyContext, context'.rev \in Nat,
         pc'[q] \notin {"page", "tail", "window", "mark", "model"}
  PROVE  Exact(base[q])' /\ ViewOK(q)'
<1>1. Len(journal) \in Nat /\ \A i \in 1..Len(journal) : journal[i].turn \in Runs
  BY TypeFacts, ItemFacts
<1>2. Exact(EmptyContext)
  BY <1>1, EmptyIsExact
<1>3. Exact(base[q])'
  BY <1>2, ExactStays
<1>4. EmptyContext.rev = 0
  BY DEF EmptyContext
<1> QED
  BY <1>3, <1>4 DEF ViewOK
----------------------------------------------------------------------------
(* Steps that append nothing.                                              *)
LEMMA EmptyType == EmptyContext \in Contexts /\ EmptyContext.rev = 0 /\ NoDigest \in Digests
<1>1. NoDigest \in Digests
  BY RunFacts DEF NoDigest, Digests
<1> QED
  BY <1>1, RunFacts DEF EmptyContext, Contexts

LEMMA SameJournal ==
  ASSUME Types, JournalOK, journal' = journal
  PROVE  Grown /\ JournalOK'
<1>1. journal \in Seq(Items) /\ Len(journal) \in Nat
  BY TypeFacts
<1>2. Grown
  BY <1>1 DEF Grown
<1>3. \A i \in 1..Len(journal), b \in 1..Len(journal) : InBatch(i, b) => InBatch(i, b)'
  BY <1>2, InBatchStays
<1>4. JournalOK'
  BY <1>3 DEF JournalOK
<1> QED
  BY <1>2, <1>4

(* Nobody else may append because r does something. *)
NoNewOwner(r) ==
  \A q \in Runs \ {r} :
    pc[q] \in {"window", "mark", "model"} /\ MayAppend(q)' => MayAppend(q)

(* A step of r that leaves the journal as it is. *)
LEMMA StepOf ==
  ASSUME CInv, NEW r \in Runs, \A q \in Runs \ {r} : Idle(q), NoNewOwner(r), journal' = journal,
         context' = context \/ (context'.rev = context.rev + 1 /\ Exact(context)'),
         Types', TurnsOK', Exact(base[r])', ViewOK(r)'
  PROVE  CInv'
<1>1. Grown /\ JournalOK'
  BY SameJournal DEF CInv
<1>2. Exact(context)'
  BY <1>1, ExactStays DEF CInv
<1>3. ASSUME NEW q \in Runs \ {r} PROVE Exact(base[q])' /\ ViewOK(q)'
  BY <1>1, ViewStays DEF NoNewOwner
<1>4. \A q \in Runs : Exact(base[q])' /\ ViewOK(q)'
  BY <1>3
<1> QED
  BY <1>1, <1>2, <1>4 DEF CInv

(* The end of a Run, and of its Turn if that is over. *)
LEMMA RunEnds ==
  ASSUME CInv, NEW r \in Runs, pc[r] # "new", End(r), journal' = journal,
         UNCHANGED <<owner, ckpt, turn>>, active' \in {active, 0},
         \/ context' = context
         \/ /\ context' \in Contexts /\ context'.covered = context.covered
            /\ context'.rev = context.rev + 1 /\ Exact(context)'
  PROVE  CInv'
<1>1. /\ Types /\ context.rev \in Nat /\ TurnsOK
      /\ context' \in Contexts /\ context'.rev \in Nat /\ context.rev <= context'.rev
      /\ context'.covered <= Len(journal)
  <2>1. Types /\ TurnsOK /\ context.rev \in Nat
    BY TypeFacts DEF CInv
  <2>2. context \in Contexts /\ context.covered <= Len(journal)
    BY <2>1 DEF Types, TypeOK
  <2> QED
    BY <2>1, <2>2
<1>2. Grown
  BY SameJournal DEF CInv
<1>3. \A q \in Runs \ {r} : Idle(q)
  BY DEF End, Goto, Idle, Types, TypeOK, CInv
<1>4. NoNewOwner(r)
  BY <1>1, RunFacts DEF NoNewOwner, MayAppend, TurnsOK
<1>5. Types'
  <2>1. /\ pc' \in [Runs -> Points] /\ base' \in [Runs -> Contexts]
        /\ page' \in [Runs -> Seq(1..MaxItems)] /\ more' \in [Runs -> BOOLEAN]
    <3>1. <<>> \in Seq(1..MaxItems)
      OBVIOUS
    <3> QED
      BY <1>1, <3>1, EmptyType DEF End, Goto, Types, TypeOK, Points
  <2>2. rev' \in [Runs -> Nat] /\ \A q \in Runs : rev'[q] = rev[q] \/ rev'[q] = 0
    BY <1>1 DEF End, Types
  <2>3. \A q \in Runs : rev'[q] \in 0..context'.rev /\ ckpt'[q] \in 0..context'.rev
    <3>1. \A q \in Runs : rev[q] \in 0..context.rev /\ ckpt[q] \in 0..context.rev
      BY <1>1 DEF Types, TypeOK
    <3> QED
      BY <1>1, <2>2, <3>1
  <2>4. active' \in 0..MaxRuns
    <3>1. active \in 0..MaxRuns /\ 0 \in 0..MaxRuns
      BY <1>1, ContextAssumption DEF Types, TypeOK
    <3> QED
      BY <3>1
  <2> QED
    BY <1>1, <2>1, <2>2, <2>3, <2>4 DEF Types, TypeOK
<1>6. TurnsOK'
  <2>1. pc' = [pc EXCEPT ![r] = "ended"] /\ pc \in [Runs -> Points]
    BY <1>1 DEF End, Goto, Types, TypeOK
  <2> QED
    BY <1>1, <2>1, RunFacts DEF TurnsOK
<1>7. Exact(base[r])' /\ ViewOK(r)'
  <2>1. base'[r] = EmptyContext /\ pc'[r] = "ended"
    BY <1>1 DEF End, Goto, Types, TypeOK
  <2> QED
    BY <1>1, <1>2, <2>1, NoView
<1> QED
  BY <1>3, <1>4, <1>5, <1>6, <1>7, StepOf
----------------------------------------------------------------------------
(* One lemma per action that appends nothing.                              *)
Looking == {"page", "tail", "window", "mark", "model"}

LEMMA NotLooking ==
  ASSUME CInv, NEW r \in Runs, Grown, context' = context \/ context'.rev = context.rev + 1,
         base'[r] = base[r], pc'[r] \notin Looking
  PROVE  Exact(base[r])' /\ ViewOK(r)'
<1>1. /\ Exact(base[r]) /\ base[r].rev <= context.rev
      /\ base[r].rev \in Nat /\ context.rev \in Nat
  BY TypeFacts DEF CInv, ViewOK
<1>2. Exact(base[r])'
  BY <1>1, ExactStays
<1>3. base'[r].rev <= context'.rev
  BY <1>1
<1> QED
  BY <1>2, <1>3 DEF ViewOK, Looking

(* A step of r before it loads anything, with the context as it is. *)
LEMMA EarlyStep ==
  ASSUME CInv, NEW r \in Runs, NEW next \in Points \ (Looking \cup {"new", "planned"}), Goto(r, next),
         pc[r] # "new", NoNewOwner(r), UNCHANGED <<journal, context, active, owner, turn, base, page, more>>,
         rev' \in [Runs -> Nat], ckpt' \in [Runs -> Nat],
         \A q \in Runs : rev'[q] \in 0..context.rev /\ ckpt'[q] \in 0..context.rev
  PROVE  CInv'
<1>1. Types /\ TurnsOK /\ pc \in [Runs -> Points]
  BY DEF CInv, Types, TypeOK
<1>2. Grown
  BY SameJournal DEF CInv
<1>3. pc' = [pc EXCEPT ![r] = next] /\ pc'[r] = next /\ \A q \in Runs \ {r} : pc'[q] = pc[q]
  BY <1>1 DEF Goto
<1>4. \A q \in Runs \ {r} : Idle(q)
  BY <1>3 DEF Idle
<1>5. Types'
  BY <1>1, <1>3 DEF Types, TypeOK
<1>6. TurnsOK'
  BY <1>1, <1>3 DEF TurnsOK
<1>7. Exact(base[r])' /\ ViewOK(r)'
  BY <1>2, <1>3, NotLooking
<1> QED
  BY <1>4, <1>5, <1>6, <1>7, StepOf

LEMMA PlanStep ==
  ASSUME CInv, NEW r \in Runs, Plan(r)
  PROVE  CInv'
<1>1. /\ Types /\ TurnsOK /\ pc \in [Runs -> Points] /\ turn \in [Runs -> 0..MaxRuns]
      /\ context.rev \in Nat /\ rev \in [Runs -> Nat]
  BY TypeFacts DEF CInv, Types, TypeOK
<1>2. Grown
  BY SameJournal DEF CInv, Plan
<1>3. /\ pc[r] = "new" /\ pc' = [pc EXCEPT ![r] = "planned"] /\ turn' = [turn EXCEPT ![r] = r]
      /\ rev' = [rev EXCEPT ![r] = context.rev]
      /\ UNCHANGED <<journal, context, active, owner, ckpt, base, page, more>>
  BY DEF Plan, NextRun, At, Goto, threadVars
<1>4. \A q \in Runs \ {r} : Idle(q)
  BY <1>1, <1>3 DEF Idle
<1>5. NoNewOwner(r)
  BY <1>1, <1>3 DEF NoNewOwner, MayAppend
<1>6. Types'
  <2>1. turn' \in [Runs -> 0..MaxRuns] /\ pc' \in [Runs -> Points]
    BY <1>1, <1>3, RunFacts DEF Points
  <2>2. rev' \in [Runs -> Nat] /\ \A q \in Runs : rev'[q] \in 0..context.rev
    <3>1. context.rev \in 0..context.rev /\ \A q \in Runs : rev[q] \in 0..context.rev
      BY <1>1 DEF Types, TypeOK
    <3> QED
      BY <1>1, <1>3, <3>1
  <2> QED
    BY <1>1, <1>3, <2>1, <2>2 DEF Types, TypeOK
<1>7. TurnsOK'
  BY <1>1, <1>3, RunFacts DEF TurnsOK
<1>8. Exact(base[r])' /\ ViewOK(r)'
  BY <1>1, <1>2, <1>3, NotLooking DEF Looking
<1> QED
  BY <1>3, <1>4, <1>5, <1>6, <1>7, <1>8, StepOf

LEMMA ResumeStep ==
  ASSUME CInv, NEW r \in Runs, Resume(r)
  PROVE  CInv'
<1>1. /\ Types /\ TurnsOK /\ pc \in [Runs -> Points] /\ turn \in [Runs -> 0..MaxRuns]
      /\ owner \in [Runs -> 0..MaxRuns] /\ rev \in [Runs -> Nat] /\ ckpt \in [Runs -> Nat]
      /\ active \in 0..MaxRuns
  BY DEF CInv, Types, TypeOK
<1>2. Grown
  BY SameJournal DEF CInv, Resume
<1>3. /\ pc[r] = "new" /\ active # 0 /\ pc' = [pc EXCEPT ![r] = "claimed"]
      /\ turn' = [turn EXCEPT ![r] = active] /\ owner' = [owner EXCEPT ![active] = r]
      /\ rev' = [rev EXCEPT ![r] = ckpt[owner[active]]]
      /\ ckpt' = [ckpt EXCEPT ![r] = ckpt[owner[active]]]
      /\ UNCHANGED <<journal, context, active, base, page, more>>
  BY DEF Resume, NextRun, At, Goto
<1>4. active \in Runs /\ owner[active] \in Runs
  BY <1>1, <1>3, RunFacts DEF TurnsOK
<1>5. \A q \in Runs \ {r} : Idle(q)
  BY <1>1, <1>3 DEF Idle
<1>6. NoNewOwner(r)
  BY <1>1, <1>3, <1>4, RunFacts DEF NoNewOwner, MayAppend
<1>7. Types'
  <2>1. turn' \in [Runs -> 0..MaxRuns] /\ pc' \in [Runs -> Points]
    BY <1>1, <1>3 DEF Points
  <2>2. owner' \in [Runs -> 0..MaxRuns]
    BY <1>1, <1>3, RunFacts
  <2>3. \A q \in Runs : rev[q] \in 0..context.rev /\ ckpt[q] \in 0..context.rev
    BY <1>1 DEF Types, TypeOK
  <2>4. /\ rev' \in [Runs -> Nat] /\ ckpt' \in [Runs -> Nat]
        /\ \A q \in Runs : rev'[q] \in 0..context.rev /\ ckpt'[q] \in 0..context.rev
    BY <1>1, <1>3, <1>4, <2>3
  <2> QED
    BY <1>1, <1>3, <2>1, <2>2, <2>4 DEF Types, TypeOK
<1>8. TurnsOK'
  BY <1>1, <1>3, <1>4, RunFacts DEF TurnsOK
<1>9. Exact(base[r])' /\ ViewOK(r)'
  BY <1>1, <1>2, <1>3, NotLooking DEF Looking
<1> QED
  BY <1>3, <1>5, <1>6, <1>7, <1>8, <1>9, StepOf

LEMMA EarlySteps ==
  ASSUME CInv, NEW r \in Runs, CreateSession(r) \/ Cancel(r) \/ RefreshView(r) \/ Refused(r) \/ Crash(r)
  PROVE  CInv'
<1>1. /\ Types /\ rev \in [Runs -> Nat] /\ ckpt \in [Runs -> Nat] /\ context.rev \in Nat
      /\ \A q \in Runs : rev[q] \in 0..context.rev /\ ckpt[q] \in 0..context.rev
  BY TypeFacts DEF CInv, Types, TypeOK
<1>2. context.rev \in 0..context.rev
  BY <1>1
<1>3. CASE CreateSession(r) /\ MayAppend(r) /\ rev[r] <= context.rev
  <2>1. /\ pc[r] = "claimed" /\ Goto(r, "session")
        /\ rev' = [rev EXCEPT ![r] = context.rev] /\ ckpt' = [ckpt EXCEPT ![r] = context.rev]
        /\ UNCHANGED <<journal, context, active, owner, turn, base, page, more>>
    BY <1>3 DEF CreateSession, At, threadVars
  <2>2. NoNewOwner(r)
    BY <2>1 DEF NoNewOwner, MayAppend
  <2>3. /\ rev' \in [Runs -> Nat] /\ ckpt' \in [Runs -> Nat]
        /\ \A q \in Runs : rev'[q] \in 0..context.rev /\ ckpt'[q] \in 0..context.rev
    BY <1>1, <1>2, <2>1
  <2>4. "session" \in Points \ (Looking \cup {"new", "planned"})
    BY DEF Points, Looking
  <2> QED
    BY <2>1, <2>2, <2>3, <2>4, EarlyStep
<1>4. CASE CreateSession(r) /\ ~(MayAppend(r) /\ rev[r] <= context.rev)
  BY <1>4, RunEnds DEF CreateSession, At, threadVars
<1>5. CASE Cancel(r)
  BY <1>5, RunEnds DEF Cancel, At
<1>6. CASE RefreshView(r)
  <2>1. PICK next \in {"batch", "load"} : Goto(r, next)
    BY <1>6 DEF RefreshView
  <2>2. /\ pc[r] = "session" /\ rev' = [rev EXCEPT ![r] = context.rev]
        /\ UNCHANGED <<journal, context, active, owner, ckpt, turn, base, page, more>>
    BY <1>6 DEF RefreshView, At, threadVars
  <2>3. NoNewOwner(r)
    BY <2>2 DEF NoNewOwner, MayAppend
  <2>4. /\ rev' \in [Runs -> Nat] /\ ckpt' \in [Runs -> Nat]
        /\ \A q \in Runs : rev'[q] \in 0..context.rev /\ ckpt'[q] \in 0..context.rev
    BY <1>1, <1>2, <2>2
  <2>5. next \in Points \ (Looking \cup {"new", "planned"})
    BY DEF Points, Looking
  <2> QED
    BY <2>1, <2>2, <2>3, <2>4, <2>5, EarlyStep
<1>7. CASE Refused(r)
  BY <1>7, RunEnds DEF Refused, At, threadVars
<1>8. CASE Crash(r)
  BY <1>8, RunEnds DEF Crash, threadVars
<1> QED
  BY <1>3, <1>4, <1>5, <1>6, <1>7, <1>8
----------------------------------------------------------------------------
(* The steps that load and look at the view.                               *)
(* The view of a Run while the journal grows behind it. *)
LEMMA SameView ==
  ASSUME journal \in Seq(Items), Grown, NEW items \in Seq(Nat), NEW after \in Nat,
         Behind(items, after)
  PROVE  Behind(items, after)' /\ (Cuts(items, after) => Cuts(items, after)')
<1>1. Len(items) \in Nat
  OBVIOUS
<1> QED
  BY <1>1, BehindStays, BehindFacts, CutsStay

(* A step of r from one point to another that changes only its view. *)
LEMMA ViewStep ==
  ASSUME CInv, NEW r \in Runs, NEW next \in Points \ {"new", "planned"}, Goto(r, next),
         pc[r] # "new", UNCHANGED <<journal, context, active, owner, turn>>, Types',
         \A q \in Runs \ {r} : base'[q] = base[q] /\ page'[q] = page[q] /\ more'[q] = more[q],
         Exact(base[r])', ViewOK(r)'
  PROVE  CInv'
<1>1. Types /\ TurnsOK /\ pc \in [Runs -> Points]
  BY DEF CInv, Types, TypeOK
<1>2. pc' = [pc EXCEPT ![r] = next] /\ pc'[r] = next /\ \A q \in Runs \ {r} : pc'[q] = pc[q]
  BY <1>1 DEF Goto
<1>3. \A q \in Runs \ {r} : Idle(q)
  BY <1>2 DEF Idle
<1>4. NoNewOwner(r)
  BY DEF NoNewOwner, MayAppend
<1>5. TurnsOK'
  BY <1>1, <1>2 DEF TurnsOK
<1> QED
  BY <1>3, <1>4, <1>5, StepOf

LEMMA LoadStateStep ==
  ASSUME CInv, NEW r \in Runs, LoadState(r)
  PROVE  CInv'
<1>1. CASE context.rev # rev[r]
  BY <1>1, RunEnds DEF LoadState, At, threadVars
<1>2. CASE context.rev = rev[r]
  <2>1. /\ pc[r] = "load" /\ Goto(r, "page") /\ base' = [base EXCEPT ![r] = context]
        /\ UNCHANGED <<journal, context, active, owner, ckpt, turn, rev, page, more>>
    BY <1>2 DEF LoadState, At, threadVars
  <2>2. /\ Types /\ Exact(context) /\ context \in Contexts /\ base \in [Runs -> Contexts]
        /\ pc \in [Runs -> Points] /\ context.rev \in Nat
    BY TypeFacts DEF CInv, Types, TypeOK
  <2>3. Grown
    BY <2>1, SameJournal DEF CInv
  <2>4. base'[r] = context' /\ pc'[r] = "page" /\ \A q \in Runs \ {r} : base'[q] = base[q]
    BY <2>1, <2>2 DEF Goto
  <2>5. Types'
    BY <2>1, <2>2 DEF Goto, Types, TypeOK, Points
  <2>6. Exact(base[r])'
    BY <2>1, <2>2, <2>3, <2>4, ExactStays
  <2>7. ViewOK(r)'
    BY <2>1, <2>2, <2>4 DEF ViewOK
  <2> QED
    BY <2>1, <2>4, <2>5, <2>6, <2>7, ViewStep DEF Points
<1> QED
  BY <1>1, <1>2

LEMMA LoadPageStep ==
  ASSUME CInv, NEW r \in Runs, LoadPage(r)
  PROVE  CInv'
<1> DEFINE after == base[r].covered
           last == PageEnd(after)
           items == Normalized(after, last)
<1>1. CASE last = 0
  BY <1>1, RunEnds DEF LoadPage, At, threadVars
<1>2. CASE last # 0
  <2>1. /\ pc[r] = "page" /\ Goto(r, "tail") /\ page' = [page EXCEPT ![r] = items]
        /\ UNCHANGED <<journal, context, active, owner, ckpt, turn, rev, base, more>>
    BY <1>2 DEF LoadPage, At, threadVars
  <2>2. /\ Types /\ Exact(base[r]) /\ ViewOK(r) /\ journal \in Seq(Items) /\ JournalOK
        /\ page \in [Runs -> Seq(1..MaxItems)] /\ pc \in [Runs -> Points]
        /\ Len(journal) \in 0..MaxItems /\ MaxItems \in Nat
    BY TypeFacts, RunFacts DEF CInv, Types, TypeOK
  <2>3. Grown
    BY <2>1, SameJournal DEF CInv
  <2>4. after \in 0..Len(journal) /\ \A b \in BatchesIn(1, after) : IsComplete(b, after)
    BY <2>2 DEF Exact
  <2>5. Readable(after, last)
    BY <1>2, <2>2, <2>4, PageIsReadable
  <2>6. last \in after..Len(journal) /\ after \in Nat /\ last \in Nat
    BY <2>5 DEF Readable
  <2> HIDE DEF items, last
  <2>7. /\ items \in Seq(Nat) /\ Len(items) = last - after
        /\ \A i, j \in 1..Len(items) : items[i] = items[j] => i = j
        /\ Range(items) = after + 1..last
        /\ Cuts(items, after)
    BY <2>2, <2>5, PagesCanBeCut DEF items
  <2>8. after + Len(items) = last /\ last <= Len(journal) /\ Len(items) \in Nat
    BY <2>6, <2>7
  <2>9. Behind(items, after)
    BY <2>7, <2>8 DEF Behind
  <2>10. \A p, a : p = items /\ a = after => Behind(p, a)' /\ Cuts(p, a)'
    BY <2>2, <2>3, <2>6, <2>7, <2>9, SameView
  <2>11. /\ pc' = [pc EXCEPT ![r] = "tail"] /\ pc'[r] = "tail" /\ page'[r] = items
         /\ \A q \in Runs \ {r} : page'[q] = page[q]
    BY <2>1, <2>2 DEF Goto
  <2>12. Types'
    <3>1. items \in Seq(1..MaxItems)
      <4>1. Range(items) \subseteq 1..MaxItems
        BY <2>2, <2>6, <2>7
      <4> QED
        BY <2>7, <4>1, SeqIn
    <3> QED
      BY <2>1, <2>2, <2>11, <3>1 DEF Types, TypeOK, Points
  <2>13. Exact(base[r])'
    BY <2>1, <2>2, <2>3, ExactStays
  <2>14. ViewOK(r)'
    BY <2>1, <2>2, <2>10, <2>11 DEF ViewOK
  <2> QED
    BY <2>1, <2>11, <2>12, <2>13, <2>14, ViewStep DEF Points
<1> QED
  BY <1>1, <1>2

(* What a Run that looks at its page has. *)
LEMMA LookFacts ==
  ASSUME CInv, NEW r \in Runs, pc[r] \in {"tail", "window", "mark", "model"}
  PROVE  /\ base[r].covered \in 0..Len(journal) /\ base[r].covered \in Nat
         /\ page[r] \in Seq(Nat) /\ Len(page[r]) \in Nat /\ Len(journal) \in Nat
         /\ Behind(page[r], base[r].covered) /\ Exact(base[r]) /\ ViewOK(r)
         /\ journal \in Seq(Items) /\ turn[r] \in Runs
<1>1. Exact(base[r]) /\ ViewOK(r) /\ Types /\ turn[r] # 0
  BY DEF CInv, TurnsOK
<1> QED
  BY <1>1, TypeFacts, RunFacts DEF Exact, ViewOK

LEMMA LastLoadedIs ==
  ASSUME CInv, NEW r \in Runs, pc[r] = "tail"
  PROVE  LastLoaded(r) = base[r].covered + Len(page[r])
<1> DEFINE a == base[r].covered
           p == page[r]
           m == Max(Range(p))
<1>1. /\ a \in Nat /\ p \in Seq(Nat) /\ Len(p) \in Nat /\ Range(p) = a + 1..a + Len(p)
  BY LookFacts DEF Behind
<1>2. CASE p = <<>>
  BY <1>1, <1>2 DEF LastLoaded
<1>3. CASE p # <<>>
  <2> HIDE DEF a, p
  <2>1. Len(p) # 0
    BY <1>1, <1>3
  <2>2. /\ a + Len(p) \in Nat /\ Range(p) \in SUBSET (0..a + Len(p))
        /\ a + Len(p) \in Range(p)
    BY <1>1, <2>1
  <2>3. m \in Range(p) /\ m >= a + Len(p)
    BY <2>2, MaxOf
  <2>4. m \in a + 1..a + Len(p)
    BY <1>1, <2>3
  <2>5. m = a + Len(p)
    <3> HIDE DEF m
    <3> QED
      BY <1>1, <2>3, <2>4
  <2> QED
    BY <1>3, <2>5 DEF LastLoaded, a, p
<1> QED
  BY <1>2, <1>3

(* A look at the page, which stays as it is. *)
LEMMA LookOn ==
  ASSUME CInv, NEW r \in Runs, pc[r] \in {"tail", "window", "mark", "model"},
         journal' = journal, base'[r] = base[r], page'[r] = page[r]
  PROVE  /\ Grown /\ Exact(base[r])' /\ Behind(page[r], base[r].covered)'
         /\ Cuts(page[r], base[r].covered) => Cuts(page[r], base[r].covered)'
<1>1. Grown
  BY SameJournal DEF CInv
<1> QED
  BY <1>1, LookFacts, SameView, ExactStays

LEMMA ReadTailStep ==
  ASSUME CInv, NEW r \in Runs, ReadTail(r)
  PROVE  CInv'
<1>1. /\ pc[r] = "tail" /\ Goto(r, "window")
      /\ more' = [more EXCEPT ![r] = Len(journal) > LastLoaded(r)]
      /\ UNCHANGED <<journal, context, active, owner, ckpt, turn, rev, base, page>>
  BY DEF ReadTail, At, threadVars
<1>2. Types /\ more \in [Runs -> BOOLEAN] /\ pc \in [Runs -> Points]
  BY DEF CInv, Types, TypeOK
<1>3. /\ pc'[r] = "window" /\ more'[r] = (Len(journal) > base[r].covered + Len(page[r]))
      /\ \A q \in Runs \ {r} : more'[q] = more[q]
  BY <1>1, <1>2, LastLoadedIs DEF Goto
<1>4. Types'
  <2>1. (Len(journal) > LastLoaded(r)) \in BOOLEAN
    OBVIOUS
  <2>2. more' \in [Runs -> BOOLEAN]
    BY <1>1, <1>2, <2>1
  <2>3. pc' \in [Runs -> Points]
    BY <1>1, <1>2 DEF Goto, Points
  <2> QED
    BY <1>1, <1>2, <2>2, <2>3 DEF Types, TypeOK
<1>5. /\ Exact(base[r])' /\ Behind(page[r], base[r].covered)'
      /\ Cuts(page[r], base[r].covered)'
  BY <1>1, LookOn, LookFacts DEF ViewOK
<1>6. ViewOK(r)'
  BY <1>1, <1>3, <1>5, LookFacts DEF ViewOK
<1> QED
  BY <1>1, <1>3, <1>4, <1>5, <1>6, ViewStep DEF Points

LEMMA KeepPageStep ==
  ASSUME CInv, NEW r \in Runs, KeepPage(r)
  PROVE  CInv'
<1>1. CASE ~(OwnDigest(r) /\ ~more[r])
  BY <1>1, RunEnds DEF KeepPage, At, threadVars
<1>2. CASE OwnDigest(r) /\ ~more[r]
  <2>1. /\ pc[r] = "window" /\ Goto(r, "model")
        /\ UNCHANGED <<journal, context, active, owner, ckpt, turn, rev, base, page, more>>
    BY <1>2 DEF KeepPage, At, threadVars, localVars
  <2>2. Types /\ pc \in [Runs -> Points]
    BY DEF CInv, Types, TypeOK
  <2>3. pc'[r] = "model" /\ pc' \in [Runs -> Points]
    BY <2>1, <2>2 DEF Goto, Points
  <2>4. Types'
    BY <2>1, <2>2, <2>3 DEF Types, TypeOK
  <2>5. Exact(base[r])' /\ Behind(page[r], base[r].covered)'
    BY <2>1, LookOn
  <2>6. OwnDigest(r)' /\ (MayAppend(r)' <=> MayAppend(r))
    BY <1>2, <2>1 DEF OwnDigest, MayAppend
  <2>7. ViewOK(r)'
    BY <1>2, <2>1, <2>3, <2>5, <2>6, LookFacts DEF ViewOK
  <2> QED
    BY <2>1, <2>4, <2>5, <2>7, ViewStep DEF Points
<1> QED
  BY <1>1, <1>2

LEMMA MarkStep ==
  ASSUME CInv, NEW r \in Runs, Mark(r)
  PROVE  CInv'
<1>1. /\ pc[r] = "mark" /\ ckpt' = [ckpt EXCEPT ![r] = rev[r]]
      /\ UNCHANGED <<journal, context, active, owner, turn, rev, base, page, more>>
  BY DEF Mark, At, threadVars, localVars
<1>2. PICK next \in {"load", "model"} : Goto(r, next) /\ next = IF more[r] THEN "load" ELSE "model"
  BY DEF Mark
<1>3. /\ Types /\ pc \in [Runs -> Points] /\ ckpt \in [Runs -> Nat] /\ rev \in [Runs -> Nat]
      /\ more \in [Runs -> BOOLEAN]
      /\ \A q \in Runs : rev[q] \in 0..context.rev /\ ckpt[q] \in 0..context.rev
  BY DEF CInv, Types, TypeOK
<1>4. pc'[r] = next /\ pc' \in [Runs -> Points]
  BY <1>2, <1>3 DEF Goto, Points
<1>5. Types'
  <2>1. ckpt' \in [Runs -> Nat] /\ \A q \in Runs : ckpt'[q] \in 0..context.rev
    BY <1>1, <1>3
  <2> QED
    BY <1>1, <1>3, <1>4, <2>1 DEF Types, TypeOK
<1>6. Exact(base[r])' /\ Behind(page[r], base[r].covered)'
  BY <1>1, LookOn
<1>7. (OwnDigest(r)' <=> OwnDigest(r)) /\ (MayAppend(r)' <=> MayAppend(r))
  BY <1>1 DEF OwnDigest, MayAppend
<1>8. ViewOK(r)'
  BY <1>1, <1>2, <1>3, <1>4, <1>6, <1>7, LookFacts DEF ViewOK
<1> QED
  BY <1>1, <1>2, <1>5, <1>6, <1>8, ViewStep DEF Points
----------------------------------------------------------------------------
(* The compaction of a page.                                               *)
LEMMA ExactType ==
  ASSUME journal \in Seq(Items), Len(journal) <= MaxItems, NEW c, Exact(c),
         NEW d, d = c.digest, d.items \in Seq(Nat), d.turn \in 0..MaxRuns,
         d = [turn |-> d.turn, items |-> d.items, updates |-> d.updates, evidence |-> d.evidence]
  PROVE  d \in Digests /\ c.covered \in 0..MaxItems
<1>1. /\ c.covered \in 0..Len(journal) /\ Range(d.items) = 1..c.covered
      /\ d.evidence = ValidIn(1..c.covered) /\ d.updates = Updates(d.turn, c.covered)
  BY DEF Exact
<1>2. Len(journal) \in Nat /\ MaxItems \in Nat
  BY RunFacts
<1>3. c.covered \in Nat /\ c.covered <= MaxItems /\ 1..c.covered \subseteq 1..MaxItems
  BY <1>1, <1>2
<1>4. d.items \in Seq(1..MaxItems)
  BY <1>1, <1>3, SeqIn
<1>5. d.updates \in SUBSET (1..MaxItems)
  BY <1>1, <1>3 DEF Updates
<1>6. d.evidence \in 0..MaxItems
  <2>1. \A m \in Nat : ValidIn(m + 1..c.covered) \in 0..c.covered
    BY <1>3, ValidType
  <2>2. 0 \in Nat /\ 0 + 1 = 1
    OBVIOUS
  <2>3. ValidIn(1..c.covered) \in 0..c.covered
    BY <2>1, <2>2, Zenon
  <2>4. \A x \in 0..c.covered : x \in 0..MaxItems
    BY <1>2, <1>3
  <2> QED
    BY <1>1, <2>3, <2>4
<1> QED
  BY <1>2, <1>3, <1>4, <1>5, <1>6 DEF Digests

(* What is left of a page behind a cut. *)
LEMMA RestIsBehind ==
  ASSUME journal \in Seq(Items), NEW items \in Seq(Nat), NEW after \in Nat, Behind(items, after),
         Cuts(items, after), NEW cut \in Ends(items) \ {Len(items)}
  PROVE  LET rest == SubSeq(items, cut + 1, Len(items))
         IN  /\ rest \in Seq(Nat) /\ Behind(rest, after + cut)
             /\ after + cut + Len(rest) = after + Len(items)
<1> DEFINE rest == SubSeq(items, cut + 1, Len(items))
           n == Len(items)
<1>1. n \in Nat /\ cut \in 1..n /\ cut # n /\ cut \in Nat /\ DOMAIN items = 1..n
  BY DEF Ends
<1>2. n \in Ends(items)
  <2>1. n \in 1..n
    <3> HIDE DEF n
    <3> QED
      BY <1>1
  <2> QED
    BY <1>1, <2>1 DEF Ends
<1>3. PageOf(items, after)
  BY DEF PageOf, Behind
<1>4. cut + 1 \in 1..n + 1 /\ n \in 0..n /\ cut + 1 <= n + 1 /\ cut \in 0..n - 1
  <2> HIDE DEF n
  <2> QED
    BY <1>1
<1>5. Range(rest) = after + cut + 1..after + n
  BY <1>1, <1>2, <1>3, <1>4, SegmentOf
<1>6. /\ rest \in Seq(Nat) /\ Len(rest) = n - (cut + 1) + 1
      /\ \A i \in 1..(n - (cut + 1) + 1) : rest[i] = items[cut + 1 + i - 1]
  <2> DEFINE m == cut + 1
  <2>1. m \in 1..Len(items) + 1 /\ n \in 0..Len(items) /\ m <= n + 1
    BY <1>4
  <2> HIDE DEF m, n
  <2>2. SubSeq(items, m, n) \in Seq(Nat) /\ IsPart(SubSeq(items, m, n), items, m, n)
    BY <2>1, RangeOfPart
  <2> QED
    BY <2>2 DEF IsPart, m, n
<1> HIDE DEF rest, n
<1>7. Len(rest) = n - cut /\ after + cut + Len(rest) = after + n
  BY <1>1, <1>6
<1>8. \A i \in 1..Len(rest) : cut + i \in 1..n /\ rest[i] = items[cut + i]
  <2>1. ASSUME NEW i \in 1..Len(rest) PROVE cut + i \in 1..n /\ rest[i] = items[cut + i]
    <3>1. cut + i \in 1..n /\ cut + 1 + i - 1 = cut + i /\ i \in 1..(n - (cut + 1) + 1)
      BY <1>1, <1>7
    <3> QED
      BY <1>6, <3>1
  <2> QED
    BY <2>1
<1>9. ASSUME NEW i \in 1..Len(rest), NEW j \in 1..Len(rest), rest[i] = rest[j] PROVE i = j
  <2>1. cut + i = cut + j
    BY <1>8, <1>9 DEF Behind, n
  <2> QED
    BY <1>1, <2>1
<1>10. after + n <= Len(journal)
  BY DEF Behind, n
<1>11. Behind(rest, after + cut)
  BY <1>5, <1>7, <1>9, <1>10 DEF Behind
<1> QED
  BY <1>6, <1>7, <1>11 DEF rest, n

LEMMA SavedIsExact ==
  ASSUME CInv, NEW r \in Runs, pc[r] = "window", OwnDigest(r), context.rev = base[r].rev,
         NEW cut \in Ends(page[r])
  PROVE  LET s == Saved(r, cut)
         IN  /\ s.rev = context.rev + 1 /\ s.covered = context.covered + cut
             /\ s.digest.turn = turn[r]
             /\ s.digest.items = context.digest.items \o SubSeq(page[r], 1, cut)
             /\ Exact(s) /\ s \in Contexts
<1> DEFINE s == Saved(r, cut)
           d == Rolled(context.digest, turn[r], page[r], cut)
           c == context
           p == page[r]
           q == c.digest.items
<1>1. /\ Types /\ ViewOK(r) /\ journal \in Seq(Items) /\ turn[r] \in Runs /\ p \in Seq(Nat)
      /\ Behind(p, base[r].covered) /\ base[r].covered \in Nat
      /\ Exact(base[r]) /\ Len(journal) \in Nat
  BY LookFacts DEF CInv
<1>2. base[r] = context
  BY <1>1 DEF ViewOK
<1>3. c.digest \in Digests /\ Len(journal) <= MaxItems
  BY <1>1 DEF Types, TypeOK, Contexts
<1>4. /\ c.digest = [turn |-> c.digest.turn, items |-> c.digest.items,
                     updates |-> c.digest.updates, evidence |-> c.digest.evidence]
      /\ c.digest.items \in Seq(1..MaxItems)
  BY <1>3 DEF Digests
<1>5. q \in Seq(Nat)
  BY <1>4, RunFacts, SeqOver
<1>6. PageOf(p, c.covered) /\ c.covered + Len(p) <= Len(journal)
  BY <1>1, <1>2, BehindFacts DEF ViewOK
<1>7. c.digest = NoDigest \/ c.digest.turn = turn[r]
  BY <1>2 DEF OwnDigest
<1>8. s = [rev |-> context.rev + 1, covered |-> Max(Range(SubSeq(p, 1, cut))), digest |-> d]
  BY <1>2 DEF Saved
<1>9. /\ s.covered = c.covered + cut /\ Exact(s)
      /\ d.turn = turn[r] /\ d.items = c.digest.items \o SubSeq(p, 1, cut)
      /\ d = [turn |-> turn[r], items |-> d.items, updates |-> d.updates, evidence |-> d.evidence]
  <2>1. Exact(c) /\ journal \in Seq(Items) /\ turn[r] \in Runs /\ cut \in Ends(p)
    BY <1>1, <1>2
  <2> HIDE DEF s
  <2>2. Merged(c, turn[r], p, cut, context.rev + 1)
    <3> HIDE DEF p, c
    <3> QED
      BY <2>1, <1>4, <1>5, <1>6, <1>7, MergeIsExact
  <2> QED
    BY <1>8, <2>2 DEF Merged
<1> HIDE DEF d, s
<1>10. d.items \in Seq(Nat)
  <2>1. cut \in 1..Len(p)
    BY <1>1 DEF Ends
  <2>2. SubSeq(p, 1, cut) \in Seq(Nat)
    BY <1>1, <2>1, RangeOfPart
  <2> QED
    BY <1>5, <1>9, <2>2, ConcatOf
<1>11. s.digest = d /\ s.rev = context.rev + 1
  BY <1>8
<1>12. d \in Digests /\ s.covered \in 0..MaxItems
  BY <1>1, <1>3, <1>9, <1>10, <1>11, RunFacts, ExactType
<1>13. s \in Contexts
  <2>1. context.rev + 1 \in Nat
    BY <1>1, TypeFacts
  <2>2. s = [rev |-> s.rev, covered |-> s.covered, digest |-> s.digest]
    BY <1>8
  <2> QED
    BY <1>11, <1>12, <2>1, <2>2 DEF Contexts
<1> QED
  BY <1>9, <1>11, <1>13 DEF s
LEMMA CompactStep ==
  ASSUME CInv, NEW r \in Runs, Compact(r)
  PROVE  CInv'
<1>1. /\ pc[r] = "window" /\ OwnDigest(r)
      /\ UNCHANGED <<journal, active, owner, ckpt, turn>>
  BY DEF Compact, At, threadVars
<1>2. PICK cut \in Ends(page[r]) \ {Len(page[r])} :
        IF context.rev = base[r].rev THEN Adopt(r, cut) ELSE End(r) /\ UNCHANGED context
  BY DEF Compact
<1>3. CASE context.rev # base[r].rev
  BY <1>1, <1>2, <1>3, RunEnds
<1>4. CASE context.rev = base[r].rev
  <2> DEFINE s == Saved(r, cut)
             rest == SubSeq(page[r], cut + 1, Len(page[r]))
  <2>1. /\ context' = s /\ base' = [base EXCEPT ![r] = s] /\ page' = [page EXCEPT ![r] = rest]
        /\ rev' = [rev EXCEPT ![r] = context.rev + 1] /\ Goto(r, "mark") /\ more' = more
    BY <1>2, <1>4 DEF Adopt
  <2>2. /\ s.rev = context.rev + 1 /\ s.covered = context.covered + cut
        /\ s.digest.turn = turn[r] /\ Exact(s) /\ s \in Contexts
    BY <1>1, <1>4, SavedIsExact
  <2>3. /\ Types /\ TurnsOK /\ pc \in [Runs -> Points] /\ base \in [Runs -> Contexts]
        /\ page \in [Runs -> Seq(1..MaxItems)] /\ rev \in [Runs -> Nat] /\ ckpt \in [Runs -> Nat]
        /\ context.rev \in Nat /\ MaxItems \in Nat /\ Len(journal) \in 0..MaxItems
        /\ \A q \in Runs : rev[q] \in 0..context.rev /\ ckpt[q] \in 0..context.rev
    BY TypeFacts, RunFacts DEF CInv, Types, TypeOK
  <2>4. /\ journal \in Seq(Items) /\ page[r] \in Seq(Nat) /\ Len(page[r]) \in Nat
        /\ base[r].covered \in Nat /\ Behind(page[r], base[r].covered) /\ ViewOK(r)
        /\ Cuts(page[r], base[r].covered) /\ base[r] = context
    BY <1>1, <1>4, LookFacts DEF ViewOK
  <2>5. /\ rest \in Seq(Nat) /\ Behind(rest, base[r].covered + cut)
        /\ base[r].covered + cut + Len(rest) = base[r].covered + Len(page[r])
    BY <2>4, RestIsBehind
  <2> HIDE DEF s, rest
  <2>6. /\ base'[r] = s /\ page'[r] = rest /\ pc'[r] = "mark" /\ more'[r] = more[r]
        /\ \A q \in Runs \ {r} : Idle(q)
    BY <1>1, <2>1, <2>3 DEF Goto, Idle
  <2>7. Grown
    BY <1>1, SameJournal DEF CInv
  <2>8. Types'
    <3>1. pc' \in [Runs -> Points] /\ base' \in [Runs -> Contexts] /\ context' \in Contexts
      BY <2>1, <2>2, <2>3 DEF Goto, Points
    <3>2. rest \in Seq(1..MaxItems)
      <4>1. Range(rest) \subseteq 1..Len(journal)
        <5>1. /\ Range(rest) = base[r].covered + cut + 1..base[r].covered + cut + Len(rest)
              /\ base[r].covered + cut + Len(rest) <= Len(journal)
          BY <2>5 DEF Behind
        <5>2. cut \in Nat /\ Len(rest) \in Nat
          <6>1. cut \in 1..Len(page[r])
            BY <2>4 DEF Ends
          <6> QED
            BY <2>5, <6>1
        <5> QED
          BY <2>3, <2>4, <5>1, <5>2
      <4>2. 1..Len(journal) \subseteq 1..MaxItems
        BY <2>3
      <4> QED
        BY <2>5, <4>1, <4>2, SeqIn
    <3>3. page' \in [Runs -> Seq(1..MaxItems)]
      BY <2>1, <2>3, <3>2
    <3>4. /\ rev' \in [Runs -> Nat]
          /\ \A q \in Runs : rev'[q] \in 0..context'.rev /\ ckpt[q] \in 0..context'.rev
      BY <2>1, <2>2, <2>3
    <3>5. s.covered <= Len(journal)
      BY <2>2, <2>3 DEF Exact
    <3> QED
      BY <1>1, <2>1, <2>3, <3>1, <3>3, <3>4, <3>5 DEF Types, TypeOK
  <2>9. TurnsOK'
    BY <1>1, <2>1, <2>3 DEF TurnsOK, Goto
  <2>10. Exact(base[r])' /\ Exact(context)'
    BY <2>1, <2>2, <2>6, <2>7, ExactStays
  <2>11. \A p, a : p = rest /\ a = base[r].covered + cut => Behind(p, a)'
    <3>1. base[r].covered + cut \in Nat
      BY <2>4 DEF Ends
    <3> QED
      BY <2>4, <2>5, <2>7, <3>1, SameView
  <2>12. ViewOK(r)'
    <3>1. Behind(page[r], base[r].covered)'
      BY <2>2, <2>4, <2>6, <2>11
    <3>2. OwnDigest(r)'
      BY <1>1, <2>2, <2>6 DEF OwnDigest
    <3>3. /\ MayAppend(r)' <=> MayAppend(r)
          /\ base'[r].covered + Len(page'[r]) = base[r].covered + Len(page[r])
      BY <1>1, <2>2, <2>4, <2>5, <2>6 DEF MayAppend
    <3>4. base'[r].rev <= context'.rev
      BY <2>1, <2>2, <2>3, <2>6
    <3> QED
      BY <1>1, <2>4, <2>6, <3>1, <3>2, <3>3, <3>4 DEF ViewOK
  <2>13. NoNewOwner(r) /\ context'.rev = context.rev + 1
    BY <1>1, <2>1, <2>2 DEF NoNewOwner, MayAppend
  <2> QED
    BY <1>1, <2>6, <2>8, <2>9, <2>10, <2>12, <2>13, StepOf
<1> QED
  BY <1>3, <1>4

----------------------------------------------------------------------------
(* The steps that append an item.                                          *)
LEMMA Appended ==
  ASSUME journal \in Seq(Items), NEW x \in Items, journal' = Append(journal, x)
  PROVE  /\ Grown /\ Len(journal') = Len(journal) + 1 /\ Len(journal) \in Nat
         /\ journal'[Len(journal) + 1] = x
         /\ \A i \in 1..Len(journal) : journal'[i] = journal[i]
BY DEF Grown

(* The new item is neither a result nor an answer, or it is one of a batch. *)
LEMMA JournalGrows ==
  ASSUME journal \in Seq(Items), JournalOK, NEW x \in Items, journal' = Append(journal, x),
         x.kind \in {"tool", "answer"} =>
           \E b \in 1..Len(journal) : InBatch(Len(journal), b)',
         x.kind = "batch" => x.calls # <<>>
  PROVE  JournalOK'
<1>0. PICK n : n = Len(journal) + 1
  OBVIOUS
<1>1. /\ Grown /\ Len(journal') = n /\ Len(journal) \in Nat /\ journal'[n] = x
      /\ \A i \in 1..Len(journal) : journal'[i] = journal[i]
  BY <1>0, Appended
<1>2. 1..n = (1..Len(journal)) \cup {n} /\ 1..Len(journal) \subseteq 1..n
  BY <1>0, <1>1
<1>3. \A i \in 1..Len(journal), b \in 1..Len(journal) : InBatch(i, b) => InBatch(i, b)'
  BY <1>1, InBatchStays
<1>4. ASSUME NEW i \in 1..n
      PROVE  /\ journal'[i].kind \in {"tool", "answer"} => \E b \in 1..n : InBatch(i, b)'
             /\ journal'[i].kind = "batch" => journal'[i].calls # <<>>
  <2>1. CASE i \in 1..Len(journal)
    BY <1>1, <1>2, <1>3, <2>1 DEF JournalOK
  <2>2. CASE i = n
    <3>1. x.kind \in {"tool", "answer"} => \E b \in 1..Len(journal) : InBatch(n, b)'
      BY <1>1
    <3> QED
      BY <1>1, <1>2, <2>2, <3>1
  <2> QED
    BY <1>2, <2>1, <2>2
<1> QED
  BY <1>1, <1>4 DEF JournalOK
(* A step of r that appends x. *)
LEMMA GrowingStep ==
  ASSUME CInv, NEW r \in Runs, NEW x \in Items, journal' = Append(journal, x), JournalOK',
         \A q \in Runs \ {r} : Idle(q),
         \A q \in Runs \ {r} : ~(pc[q] \in {"window", "mark", "model"} /\ MayAppend(q)'),
         context' = context \/ (context'.rev = context.rev + 1 /\ Exact(context)'),
         Types', TurnsOK', Exact(base[r])', ViewOK(r)'
  PROVE  CInv'
<1>1. Grown
  BY Appended, TypeFacts DEF CInv
<1>2. Exact(context)'
  BY <1>1, ExactStays DEF CInv
<1>3. ASSUME NEW q \in Runs \ {r} PROVE Exact(base[q])' /\ ViewOK(q)'
  BY <1>1, ViewStays
<1>4. \A q \in Runs : Exact(base[q])' /\ ViewOK(q)'
  BY <1>3
<1> QED
  BY <1>2, <1>4 DEF CInv

(* An item that r may append to its Turn. *)
LEMMA AppendStep ==
  ASSUME CInv, NEW r \in Runs, MayAppend(r), pc[r] \notin {"new", "planned"},
         NEW x \in Items, x.turn = turn[r], journal' = Append(journal, x),
         Len(journal) + 1 <= MaxItems, JournalOK',
         NEW next \in Points \ (Looking \cup {"new", "planned"}), Goto(r, next),
         active' \in {active, 0}, UNCHANGED <<context, owner, ckpt, turn, rev>>,
         UNCHANGED <<base, page, more>> \/ DropView(r)
  PROVE  CInv'
<1>1. /\ Types /\ TurnsOK /\ pc \in [Runs -> Points] /\ base \in [Runs -> Contexts]
      /\ page \in [Runs -> Seq(1..MaxItems)] /\ more \in [Runs -> BOOLEAN]
      /\ journal \in Seq(Items) /\ active \in 0..MaxRuns
  BY TypeFacts DEF CInv, Types, TypeOK
<1>2. /\ Grown /\ Len(journal') = Len(journal) + 1 /\ Len(journal) \in Nat
      /\ journal'[Len(journal) + 1] = x
      /\ \A i \in 1..Len(journal) : journal'[i] = journal[i]
  BY <1>1, Appended
<1>3. /\ pc'[r] = next /\ pc' \in [Runs -> Points]
      /\ \A q \in Runs \ {r} : pc'[q] = pc[q]
  BY <1>1 DEF Goto
<1>4. /\ base' \in [Runs -> Contexts] /\ base'[r] \in {base[r], EmptyContext}
      /\ page' \in [Runs -> Seq(1..MaxItems)] /\ more' \in [Runs -> BOOLEAN]
      /\ \A q \in Runs \ {r} : base'[q] = base[q] /\ page'[q] = page[q] /\ more'[q] = more[q]
  <2>1. CASE UNCHANGED <<base, page, more>>
    BY <1>1, <2>1
  <2>2. CASE DropView(r)
    <3>1. <<>> \in Seq(1..MaxItems)
      OBVIOUS
    <3> QED
      BY <1>1, <2>2, <3>1, EmptyType DEF DropView
  <2> QED
    BY <2>1, <2>2
<1>5. \A q \in Runs \ {r} : Idle(q)
  BY <1>3, <1>4 DEF Idle
<1>6. ASSUME NEW q \in Runs \ {r}
      PROVE  ~(pc[q] \in {"window", "mark", "model"} /\ MayAppend(q)')
  BY <1>1 DEF MayAppend, TurnsOK
<1>7. Types'
  <2>1. /\ journal' \in Seq(Items) /\ Len(journal') <= MaxItems
        /\ context.covered <= Len(journal')
    <3>1. context.covered <= Len(journal) /\ context.covered \in Nat
      BY <1>1, <1>2 DEF CInv, Exact
    <3> QED
      BY <1>1, <1>2, <3>1
  <2>2. active' \in 0..MaxRuns
    <3>1. 0 \in 0..MaxRuns
      BY RunFacts
    <3> QED
      BY <1>1, <3>1
  <2>3. /\ context' \in Contexts /\ context'.covered <= Len(journal')
        /\ owner' \in [Runs -> 0..MaxRuns] /\ turn' \in [Runs -> 0..MaxRuns]
        /\ rev' \in [Runs -> Nat] /\ ckpt' \in [Runs -> Nat]
    BY <1>1, <2>1 DEF Types, TypeOK
  <2>4. \A q \in Runs : rev'[q] \in 0..context'.rev /\ ckpt'[q] \in 0..context'.rev
    BY <1>1 DEF Types, TypeOK
  <2>5. journal' \in Seq([kind : Kinds, turn : Runs, calls : Seq(Results)])
    BY <2>1 DEF Items
  <2> QED
    BY <1>3, <1>4, <2>1, <2>2, <2>3, <2>4, <2>5 DEF Types, TypeOK
<1>8. TurnsOK'
  <2>1. ASSUME NEW q \in Runs, pc'[q] \in {"new", "planned"}
        PROVE  /\ active' # q /\ \A o \in Runs \ {q} : turn'[o] # q
               /\ \A i \in 1..Len(journal') : journal'[i].turn # q
    <3>1. q # r /\ pc[q] \in {"new", "planned"}
      BY <1>3, <2>1
    <3>2. /\ active # q /\ q # 0 /\ \A o \in Runs \ {q} : turn[o] # q
          /\ \A i \in 1..Len(journal) : journal[i].turn # q
      BY <1>1, <3>1, RunFacts DEF TurnsOK
    <3>3. ASSUME NEW i \in 1..Len(journal') PROVE journal'[i].turn # q
      <4>1. i \in 1..Len(journal) \/ i = Len(journal) + 1
        BY <1>2
      <4> QED
        BY <1>2, <3>1, <3>2, <4>1
    <3> QED
      BY <3>2, <3>3
  <2>2. \A q \in Runs : (turn'[q] = 0 <=> pc'[q] = "new") /\ (pc'[q] = "planned" => turn'[q] = q)
    BY <1>1, <1>3 DEF TurnsOK
  <2>3. active' # 0 => owner'[active'] # 0
    BY <1>1 DEF TurnsOK
  <2> QED
    BY <2>1, <2>2, <2>3 DEF TurnsOK
<1>9. Exact(base[r])' /\ ViewOK(r)'
  <2>1. CASE base'[r] = base[r]
    BY <1>2, <1>3, <2>1, NotLooking
  <2>2. CASE base'[r] = EmptyContext
    <3>1. context'.rev \in Nat
      BY <1>1, TypeFacts
    <3> QED
      BY <1>1, <1>2, <1>3, <2>2, <3>1, NoView DEF Looking
  <2> QED
    BY <1>4, <2>1, <2>2
<1> QED
  BY <1>5, <1>6, <1>7, <1>8, <1>9, GrowingStep

LEMMA ItemType ==
  ASSUME NEW kind \in Kinds, NEW t \in Runs, NEW calls \in Seq(Results)
  PROVE  Item(kind, t, calls) \in Items
BY DEF Item, Items

LEMMA SaySteps ==
  ASSUME CInv, NEW r \in Runs, Steer(r) \/ Propose(r) \/ Finish(r)
  PROVE  CInv'
<1>1. Types /\ journal \in Seq(Items) /\ JournalOK /\ Len(journal) \in Nat /\ MaxItems \in Nat
  BY TypeFacts, RunFacts DEF CInv
<1>2. ASSUME NEW kind \in {"steer", "batch", "final"}, NEW calls \in Seq(Results),
             kind = "batch" => calls # <<>>, NEW next \in {"load", "batch", "ended"},
             Say(r, Item(kind, turn[r], calls), next), active' \in {active, 0}
      PROVE  CInv'
  <2> DEFINE x == Item(kind, turn[r], calls)
  <2>1. /\ pc[r] = "model" /\ MayAppend(r) /\ Len(journal) + 1 <= MaxItems
        /\ journal' = Append(journal, x) /\ DropView(r) /\ Goto(r, next)
        /\ UNCHANGED <<context, owner, ckpt, turn, rev>>
    BY <1>2 DEF Say, At, Rest, DropView
  <2>2. turn[r] \in Runs
    BY <2>1, LookFacts
  <2>3. x \in Items /\ x.turn = turn[r] /\ x.kind = kind /\ x.calls = calls
    BY <2>2, ItemType DEF Item, Kinds
  <2>4. next \in Points \ (Looking \cup {"new", "planned"})
    BY DEF Points, Looking
  <2> HIDE DEF x
  <2>5. JournalOK'
    BY <1>1, <1>2, <2>1, <2>3, JournalGrows
  <2> QED
    BY <1>2, <2>1, <2>3, <2>4, <2>5, AppendStep
<1>3. CASE Steer(r)
  <2>1. <<>> \in Seq(Results) /\ Say(r, Item("steer", turn[r], <<>>), "load") /\ active' = active
    BY <1>3 DEF Steer
  <2> QED
    BY <1>2, <2>1
<1>4. CASE Finish(r)
  <2>1. <<>> \in Seq(Results) /\ Say(r, Item("final", turn[r], <<>>), "ended") /\ active' = 0
    BY <1>4 DEF Finish
  <2> QED
    BY <1>2, <2>1
<1>5. CASE Propose(r)
  <2>1. PICK b \in Batches : Say(r, Item("batch", turn[r], b), "batch") /\ UNCHANGED active
    BY <1>5 DEF Propose
  <2>2. b \in Seq({"ask", "write", "check"}) /\ b # <<>>
    BY ContextAssumption
  <2>3. b \in Seq(Results)
    BY <2>2 DEF Results
  <2> QED
    BY <1>2, <2>1, <2>2, <2>3
<1> QED
  BY <1>3, <1>4, <1>5
(* The digest of the last Turn, for a Turn that has said nothing yet. *)
LEMMA RetargetedIsExact ==
  ASSUME CInv, NEW r \in Runs, pc[r] = "planned"
  PROVE  LET c == Retargeted(r)
         IN  /\ c.rev = context.rev + 1 /\ c.covered = context.covered /\ Exact(c)
             /\ c \in Contexts /\ c.digest.items = context.digest.items
<1> DEFINE c == Retargeted(r)
<1>1. /\ context \in Contexts /\ Exact(context) /\ TurnsOK /\ r \in 0..MaxRuns
      /\ Len(journal) \in Nat
  BY TypeFacts, RunFacts DEF CInv, Types, TypeOK
<1>2. context.digest \in Digests /\ context.rev \in Nat /\ context.covered \in 0..MaxItems
  BY <1>1 DEF Contexts
<1>3. Updates(r, context.covered) = {}
  <2>1. \A i \in 1..context.covered : i \in 1..Len(journal)
    BY <1>1 DEF Exact
  <2> QED
    BY <1>1, <2>1 DEF TurnsOK, Updates
<1>4. CASE context.digest = NoDigest
  <2>1. c = [context EXCEPT !.rev = context.rev + 1, !.digest = NoDigest]
    BY <1>4 DEF Retargeted
  <2>2. c = [rev |-> context.rev + 1, covered |-> context.covered, digest |-> context.digest]
    BY <1>1, <1>4, <2>1 DEF Contexts
  <2>3. c \in Contexts
    BY <1>2, <2>2 DEF Contexts
  <2> HIDE DEF c
  <2>4. Exact(c)
    BY <1>1, <2>2 DEF Exact
  <2> QED
    BY <2>2, <2>3, <2>4 DEF c
<1>5. CASE context.digest # NoDigest
  <2> DEFINE d == [context.digest EXCEPT !.turn = r, !.updates = {}]
  <2>1. c = [context EXCEPT !.rev = context.rev + 1, !.digest = d]
    BY <1>5 DEF Retargeted
  <2>2. c = [rev |-> context.rev + 1, covered |-> context.covered, digest |-> d]
    BY <1>1, <2>1 DEF Contexts
  <2>3. d = [turn |-> r, items |-> context.digest.items, updates |-> {},
             evidence |-> context.digest.evidence]
    <3> DEFINE e == context.digest
    <3>1. e = [turn |-> e.turn, items |-> e.items, updates |-> e.updates, evidence |-> e.evidence]
      BY <1>2 DEF Digests
    <3> HIDE DEF e
    <3> DEFINE f == [e EXCEPT !.turn = r]
    <3>2. f = [turn |-> r, items |-> e.items, updates |-> e.updates, evidence |-> e.evidence]
      BY <3>1
    <3> HIDE DEF f
    <3>3. [f EXCEPT !.updates = {}]
            = [turn |-> r, items |-> e.items, updates |-> {}, evidence |-> e.evidence]
      BY <3>2
    <3> QED
      BY <3>3 DEF e, f
  <2>4. d \in Digests
    BY <1>1, <1>2, <2>3 DEF Digests
  <2> HIDE DEF d
  <2>5. c \in Contexts
    BY <1>2, <2>2, <2>4 DEF Contexts
  <2> HIDE DEF c
  <2>6. Exact(c)
    BY <1>1, <1>3, <2>2, <2>3 DEF Exact
  <2> QED
    BY <2>2, <2>3, <2>5, <2>6 DEF c
<1> QED
  BY <1>4, <1>5

LEMMA StartStep ==
  ASSUME CInv, NEW r \in Runs, Start(r)
  PROVE  CInv'
<1>1. /\ pc[r] = "planned" /\ turn' = turn /\ Types /\ TurnsOK /\ JournalOK
      /\ journal \in Seq(Items) /\ Len(journal) \in Nat /\ MaxItems \in Nat
      /\ context.rev \in Nat
  BY TypeFacts, RunFacts DEF Start, At, CInv
<1>2. CASE active # 0 \/ context.rev # rev[r]
  BY <1>1, <1>2, RunEnds DEF Start, threadVars
<1>3. CASE ~(active # 0 \/ context.rev # rev[r])
  <2> DEFINE c == Retargeted(r)
  <2>1. /\ c.rev = context.rev + 1 /\ c.covered = context.covered /\ Exact(c) /\ c \in Contexts
    BY <1>1, RetargetedIsExact
  <2>2. context' = c /\ Len(journal) + 1 <= MaxItems /\ active = 0
    BY <1>3 DEF Start, Rest
  <2> HIDE DEF c
  <2>3. CASE End(r) /\ UNCHANGED <<journal, threadVars, ckpt>>
    <3>1. Grown
      BY <2>3, SameJournal DEF CInv
    <3>2. Exact(context)'
      BY <2>1, <2>2, <3>1, ExactStays
    <3>3. /\ pc[r] # "new" /\ End(r) /\ journal' = journal /\ UNCHANGED <<owner, ckpt, turn>>
          /\ active' \in {active, 0}
      BY <1>1, <2>3 DEF threadVars
    <3> QED
      BY <2>1, <2>2, <3>2, <3>3, RunEnds
  <2>4. CASE ~(End(r) /\ UNCHANGED <<journal, threadVars, ckpt>>)
    <3> DEFINE x == Item("input", r, <<>>)
    <3>1. /\ journal' = Append(journal, x) /\ active' = r /\ owner' = [owner EXCEPT ![r] = r]
          /\ ckpt' = [ckpt EXCEPT ![r] = rev[r]] /\ Goto(r, "claimed")
          /\ UNCHANGED <<rev, base, page, more>>
      BY <1>3, <2>4 DEF Start, localVars
    <3>2. x \in Items /\ x.kind = "input" /\ x.turn = r
      <4>1. <<>> \in Seq(Results) /\ "input" \in Kinds
        BY DEF Kinds
      <4> QED
        BY <4>1, ItemType DEF Item
    <3> HIDE DEF x
    <3>3. /\ Grown /\ Len(journal') = Len(journal) + 1
          /\ journal'[Len(journal) + 1] = x
          /\ \A i \in 1..Len(journal) : journal'[i] = journal[i]
      BY <1>1, <3>1, <3>2, Appended
    <3>4. JournalOK'
      BY <1>1, <3>1, <3>2, JournalGrows
    <3>5. /\ pc \in [Runs -> Points] /\ owner \in [Runs -> 0..MaxRuns]
          /\ ckpt \in [Runs -> Nat] /\ rev \in [Runs -> Nat]
          /\ \A q \in Runs : rev[q] \in 0..context.rev /\ ckpt[q] \in 0..context.rev
      BY <1>1 DEF Types, TypeOK
    <3>6. /\ pc'[r] = "claimed" /\ pc' \in [Runs -> Points]
          /\ \A q \in Runs \ {r} : pc'[q] = pc[q]
      BY <3>1, <3>5 DEF Goto, Points
    <3>7. \A q \in Runs \ {r} : Idle(q)
      BY <1>1, <3>1, <3>6 DEF Idle
    <3>8. ASSUME NEW q \in Runs \ {r}
          PROVE  ~(pc[q] \in {"window", "mark", "model"} /\ MayAppend(q)')
      BY <1>1, <3>1 DEF MayAppend, TurnsOK
    <3>9. Exact(context)'
      BY <2>1, <2>2, <3>3, ExactStays
    <3>10. Types'
      <4>1. journal' \in Seq([kind : Kinds, turn : Runs, calls : Seq(Results)])
            /\ Len(journal') <= MaxItems
        <5>1. journal' \in Seq(Items) /\ Len(journal') <= MaxItems
          BY <1>1, <2>2, <3>1, <3>2, <3>3
        <5> QED
          BY <5>1 DEF Items
      <4>2. context' \in Contexts /\ context'.covered <= Len(journal')
        <5>1. context.covered <= Len(journal) /\ context.covered \in Nat
          BY <1>1 DEF CInv, Exact
        <5> QED
          BY <1>1, <2>1, <2>2, <3>3, <5>1
      <4>3. active' \in 0..MaxRuns /\ owner' \in [Runs -> 0..MaxRuns]
        BY <3>1, <3>5, RunFacts
      <4>4. ckpt' \in [Runs -> Nat]
            /\ \A q \in Runs : rev'[q] \in 0..context'.rev /\ ckpt'[q] \in 0..context'.rev
        <5>1. \A q \in Runs : ckpt'[q] \in {rev[q], ckpt[q]}
          BY <3>1, <3>5
        <5>2. \A q \in Runs : rev'[q] \in 0..context'.rev /\ ckpt'[q] \in 0..context'.rev
          BY <1>1, <2>1, <2>2, <3>1, <3>5, <5>1
        <5> QED
          BY <3>1, <3>5, <5>2
      <4> QED
        BY <1>1, <3>1, <3>5, <3>6, <4>1, <4>2, <4>3, <4>4 DEF Types, TypeOK
    <3>11. TurnsOK'
      <4>1. ASSUME NEW q \in Runs, pc'[q] \in {"new", "planned"}
            PROVE  /\ active' # q /\ \A o \in Runs \ {q} : turn'[o] # q
                   /\ \A i \in 1..Len(journal') : journal'[i].turn # q
        <5>1. q # r /\ pc[q] \in {"new", "planned"}
          BY <3>6, <4>1
        <5>2. /\ \A o \in Runs \ {q} : turn[o] # q
              /\ \A i \in 1..Len(journal) : journal[i].turn # q
          BY <1>1, <5>1 DEF TurnsOK
        <5>3. ASSUME NEW i \in 1..Len(journal') PROVE journal'[i].turn # q
          <6>1. i \in 1..Len(journal) \/ i = Len(journal) + 1
            BY <1>1, <3>3
          <6> QED
            BY <3>2, <3>3, <5>1, <5>2, <6>1
        <5> QED
          BY <1>1, <3>1, <5>1, <5>2, <5>3
      <4>2. \A q \in Runs : (turn'[q] = 0 <=> pc'[q] = "new") /\ (pc'[q] = "planned" => turn'[q] = q)
        BY <1>1, <3>6 DEF TurnsOK
      <4>3. active' # 0 => owner'[active'] # 0
        BY <3>1, <3>5, RunFacts
      <4> QED
        BY <4>1, <4>2, <4>3 DEF TurnsOK
    <3>12. Exact(base[r])' /\ ViewOK(r)'
      BY <2>1, <2>2, <3>1, <3>3, <3>6, NotLooking DEF Looking
    <3> QED
      BY <2>1, <2>2, <3>1, <3>2, <3>4, <3>7, <3>8, <3>9, <3>10, <3>11, <3>12, GrowingStep
  <2> QED
    BY <2>3, <2>4
<1> QED
  BY <1>2, <1>3
(* The batch that a step left open: nothing but its own results and its    *)
(* answer is behind it, and it waits for one more result.                  *)
LEMMA OpenBatchFacts ==
  ASSUME journal \in Seq(Items), JournalOK, OpenBatch # 0
  PROVE  /\ OpenBatch \in 1..Len(journal) /\ journal[OpenBatch].kind = "batch"
         /\ Quiet(OpenBatch + 1, Len(journal))
         /\ Count(OpenBatch, Len(journal)) \in Nat
         /\ Count(OpenBatch, Len(journal)) < Len(journal[OpenBatch].calls)
<1> DEFINE N == Len(journal)
           open == {b \in BatchesIn(1, N) : ~IsComplete(b, N) /\ ~IsBroken(b, N)}
           b == OpenBatch
<1>1. N \in Nat
  OBVIOUS
<1>2. b \in open
  <2>1. open # {} /\ b = Max(open)
    BY DEF OpenBatch
  <2>2. open \in SUBSET (0..N)
    BY <1>1 DEF BatchesIn
  <2> HIDE DEF open, b
  <2> QED
    BY <1>1, <2>1, <2>2, MaxOf
<1> HIDE DEF b
<1>3. b \in 1..N /\ journal[b].kind = "batch" /\ ~IsComplete(b, N) /\ ~IsBroken(b, N)
  BY <1>2 DEF BatchesIn
<1>4. Quiet(b + 1, N)
  BY <1>3 DEF IsBroken, Quiet
<1>5. Count(b, N) \in Nat /\ Len(journal[b].calls) \in Nat
  <2>1. b \in Nat
    BY <1>3
  <2> QED
    BY <1>1, <1>3, <2>1, CountOf, ItemFacts
<1>6. CASE b = N
  <2>1. Count(b, N) = 0
    BY <1>1, <1>6, CountNone
  <2>2. journal[b].calls # <<>> /\ journal[b].calls \in Seq(Results)
    BY <1>3, ItemFacts DEF JournalOK
  <2>3. Len(journal[b].calls) # 0
    BY <2>2
  <2> QED
    BY <1>3, <1>4, <1>5, <2>1, <2>3 DEF b
<1>7. CASE b # N
  <2>1. b < N /\ N \in 1..N /\ N \in b + 1..N /\ b \in Nat /\ b \in BatchesIn(1, N)
    BY <1>1, <1>2, <1>3, <1>7
  <2>2. journal[N].kind \in {"tool", "answer"}
    BY <1>4, <2>1 DEF Quiet
  <2>3. PICK c \in 1..N : InBatch(N, c)
    BY <2>1, <2>2 DEF JournalOK
  <2>4. c \in BatchesIn(1, N) /\ Quiet(c + 1, N) /\ Count(c, N - 1) < Len(journal[c].calls)
    BY <2>3 DEF InBatch, BatchesIn
  <2>5. c = b
    BY <1>1, <1>4, <2>1, <2>4, OneQuietBatch
  <2>6. Count(b, N) # Len(journal[b].calls)
    BY <1>3, <1>4, <2>1, CompleteIff
  <2>7. Count(b, N) \in {Count(b, N - 1) + 1, Count(b, N - 1)}
    BY <1>1, <2>1, CountNext
  <2>8. Count(b, N - 1) \in Nat
    <3>1. N - 1 \in Nat
      BY <1>1, <2>1
    <3> QED
      BY <2>1, <3>1, CountOf
  <2> QED
    BY <1>3, <1>4, <1>5, <2>4, <2>5, <2>6, <2>7, <2>8 DEF b
<1> QED
  BY <1>6, <1>7

LEMMA ObserveStep ==
  ASSUME CInv, NEW r \in Runs, Observe(r)
  PROVE  CInv'
<1> DEFINE b == OpenBatch
           N == Len(journal)
           n == Cardinality(ResultsAt(b, N)) + 1
           call == journal[b].calls[n]
           answered == \E i \in b..N : journal[i].kind = "answer"
<1>1. /\ Types /\ TurnsOK /\ JournalOK /\ journal \in Seq(Items) /\ N \in Nat /\ pc[r] = "batch"
      /\ turn[r] \in Runs /\ MaxItems \in Nat
  <2>1. pc[r] = "batch" /\ Types /\ TurnsOK /\ JournalOK
    BY DEF CInv, Observe, At
  <2> QED
    BY <2>1, TypeFacts, RunFacts DEF TurnsOK
<1>2. CASE ~MayAppend(r) \/ b = 0
  BY <1>1, <1>2, RunEnds DEF Observe, threadVars
<1>3. CASE MayAppend(r) /\ b # 0
  <2>1. PICK x : /\ journal' = Append(journal, x)
                 /\ \/ /\ call = "ask" /\ ~answered /\ x = Item("answer", turn[r], <<>>)
                    \/ \E o \in {"fail", "write", call} : x = Item("tool", turn[r], <<o>>)
    <3>1. CASE call = "ask" /\ ~answered
      BY <1>3, <3>1 DEF Observe
    <3>2. CASE ~(call = "ask" /\ ~answered)
      <4> DEFINE barred == call # "ask" /\ "ask" \in Range(journal[b].calls)
                 outcomes == CASE barred -> {"fail"}
                               [] call = "write" -> {"write", "fail"}
                               [] OTHER -> {call}
      <4>1. PICK o \in outcomes : journal' = Append(journal, Item("tool", turn[r], <<o>>))
        BY <1>3, <3>2 DEF Observe
      <4>2. outcomes \subseteq {"fail", "write", call}
        OBVIOUS
      <4> HIDE DEF outcomes, call
      <4> QED
        BY <4>1, <4>2
    <3> QED
      BY <3>1, <3>2
  <2>2. PICK next \in {"load", "batch"} : Goto(r, next)
    BY <1>3 DEF Observe
  <2>3. /\ N + 1 <= MaxItems /\ UNCHANGED <<context, active, owner, ckpt, turn, rev, base, page, more>>
    BY <1>3 DEF Observe, Rest, threadVars, localVars
  <2>4. /\ b \in 1..N /\ journal[b].kind = "batch" /\ Quiet(b + 1, N)
        /\ Count(b, N) \in Nat /\ Count(b, N) < Len(journal[b].calls)
    BY <1>1, <1>3, OpenBatchFacts
  <2>5. n = Count(b, N) + 1
    BY DEF Count
  <2>6. /\ journal[b].calls \in Seq(Results) /\ Len(journal[b].calls) \in Nat
        /\ DOMAIN journal[b].calls = 1..Len(journal[b].calls)
    BY <1>1, <2>4, ItemFacts
  <2>7. n \in 1..Len(journal[b].calls)
    BY <2>4, <2>5, <2>6
  <2>8. call \in Results /\ call \in Range(journal[b].calls)
    BY <2>6, <2>7 DEF Range
  <2> HIDE DEF n, call, b
  <2>9. /\ x \in Items /\ x.turn = turn[r] /\ x.kind \in {"tool", "answer"}
        /\ x.kind = "answer" => call = "ask" /\ ~answered
    <3>1. \A o \in {"fail", "write", call} : o \in Results
      BY <2>8 DEF Results
    <3>2. <<>> \in Seq(Results) /\ \A o \in Results : <<o>> \in Seq(Results)
      OBVIOUS
    <3>3. "tool" \in Kinds /\ "answer" \in Kinds
      BY DEF Kinds
    <3>4. CASE x = Item("answer", turn[r], <<>>) /\ call = "ask" /\ ~answered
      BY <1>1, <3>2, <3>3, <3>4, ItemType DEF Item
    <3>5. ASSUME NEW o \in {"fail", "write", call}, x = Item("tool", turn[r], <<o>>)
          PROVE  x \in Items /\ x.turn = turn[r] /\ x.kind = "tool"
      <4>1. <<o>> \in Seq(Results)
        BY <3>1, <3>2
      <4> QED
        BY <1>1, <3>3, <3>5, <4>1, ItemType DEF Item
    <3> QED
      BY <2>1, <3>4, <3>5
  <2>10. PICK m : m = N + 1
    OBVIOUS
  <2>11. /\ Grown /\ Len(journal') = m /\ journal'[m] = x
         /\ \A i \in 1..N : journal'[i] = journal[i]
    BY <1>1, <2>1, <2>9, <2>10, Appended
  <2>12. PICK c : c = b
    OBVIOUS
  <2>13. InBatch(m, c)'
    <3>1. c \in 1..m - 1 /\ m - 1 = N /\ c \in Nat /\ N \in 0..N
      BY <1>1, <2>4, <2>10, <2>12
    <3>2. journal'[c] = journal[b]
      BY <2>4, <2>11, <2>12
    <3>3. Quiet(c + 1, m)'
      <4>1. \A i \in c + 1..m : i \in c + 1..N \/ i = m
        BY <2>10, <3>1
      <4>2. \A i \in c + 1..N : i \in 1..N
        BY <3>1
      <4> QED
        BY <2>4, <2>9, <2>11, <2>12, <4>1, <4>2 DEF Quiet
    <3>4. Count(c, m - 1)' < Len(journal'[c].calls)
      <4>1. \A e : e = N => Count(c, e)' = Count(c, e)
        BY <1>1, <2>11, <3>1, CountStays
      <4>2. Count(c, m - 1)' = Count(c, m - 1)
        BY <3>1, <4>1
      <4> QED
        BY <2>4, <2>12, <3>1, <3>2, <4>2
    <3>5. ASSUME journal'[m].kind = "answer"
          PROVE  /\ "ask" \in Range(journal'[c].calls)
                 /\ \A j \in c + 1..m - 1 : journal'[j].kind # "answer"
      <4>1. call = "ask" /\ ~answered
        BY <2>9, <2>11, <3>5
      <4>2. \A j \in c + 1..m - 1 : j \in b..N /\ j \in 1..N
        BY <2>12, <3>1
      <4> QED
        BY <2>8, <2>11, <3>2, <4>1, <4>2
    <3> QED
      BY <2>4, <3>1, <3>2, <3>3, <3>4, <3>5 DEF InBatch
  <2>14. JournalOK'
    <3>1. \E d \in 1..N : InBatch(Len(journal), d)'
      BY <2>4, <2>11, <2>12, <2>13
    <3>2. x.kind # "batch"
      BY <2>9
    <3> QED
      BY <1>1, <2>1, <2>9, <3>1, <3>2, JournalGrows
  <2>15. next \in Points \ (Looking \cup {"new", "planned"})
    BY DEF Points, Looking
  <2> QED
    BY <1>1, <1>3, <2>1, <2>2, <2>3, <2>9, <2>14, <2>15, AppendStep
<1> QED
  BY <1>2, <1>3
----------------------------------------------------------------------------
(* The invariant is inductive.                                             *)
LEMMA CInvInit == Init => CInv
<1> SUFFICES ASSUME Init PROVE CInv
  OBVIOUS
<1>1. journal = <<>> /\ Len(journal) = 0 /\ context = EmptyContext /\ 0 \in 0..MaxRuns
  BY RunFacts DEF Init
<1>2. Types
  <2>1. journal \in Seq([kind : Kinds, turn : Runs, calls : Seq(Results)]) /\ Len(journal) <= MaxItems
    BY <1>1, RunFacts
  <2>2. context \in Contexts /\ context.covered <= Len(journal) /\ context.rev = 0
    BY <1>1, EmptyType DEF EmptyContext
  <2>3. page \in [Runs -> Seq(1..MaxItems)]
    <3>1. <<>> \in Seq(1..MaxItems)
      OBVIOUS
    <3> QED
      BY <3>1 DEF Init
  <2>4. base \in [Runs -> Contexts]
    BY EmptyType DEF Init
  <2>5. \A r \in Runs : rev[r] \in 0..context.rev /\ ckpt[r] \in 0..context.rev
    BY <2>2 DEF Init
  <2> QED
    BY <1>1, <2>1, <2>2, <2>3, <2>4, <2>5 DEF Init, Types, TypeOK, Points
<1>3. Exact(EmptyContext)
  BY <1>1, EmptyIsExact
<1>4. TurnsOK /\ JournalOK
  BY <1>1, RunFacts DEF Init, TurnsOK, JournalOK
<1>5. ASSUME NEW r \in Runs PROVE ViewOK(r)
  <2>1. pc[r] = "new" /\ base[r] = EmptyContext /\ EmptyContext.rev = 0
    BY EmptyType DEF Init
  <2> QED
    BY <1>1, <2>1 DEF ViewOK
<1> QED
  BY <1>1, <1>2, <1>3, <1>4, <1>5 DEF Init, CInv

LEMMA CInvNext == CInv /\ [Next]_vars => CInv'
<1> SUFFICES ASSUME CInv, [Next]_vars PROVE CInv'
  OBVIOUS
<1>1. CASE UNCHANGED vars
  <2>1. /\ journal' = journal /\ context' = context
        /\ UNCHANGED <<active, owner, ckpt, turn, pc, rev, base, page, more>>
    BY <1>1 DEF vars, threadVars, localVars
  <2>2. Types' /\ TurnsOK'
    BY <2>1 DEF CInv, Types, TypeOK, TurnsOK
  <2>3. Grown /\ JournalOK' /\ Exact(context)'
    BY <2>1, SameJournal, ExactStays DEF CInv
  <2>4. ASSUME NEW q \in Runs PROVE Exact(base[q])' /\ ViewOK(q)'
    BY <2>1, <2>3, ViewStays DEF Idle, MayAppend
  <2> QED
    BY <2>2, <2>3, <2>4 DEF CInv
<1>2. CASE Next
  <2>1. PICK r \in Runs : Plan(r) \/ Resume(r) \/ Work(r) \/ Crash(r)
    BY <1>2 DEF Next
  <2> QED
    BY <2>1, PlanStep, ResumeStep, StartStep, EarlySteps, ObserveStep, LoadStateStep, LoadPageStep,
       ReadTailStep, KeepPageStep, CompactStep, MarkStep, SaySteps DEF Work, Prepare
<1> QED
  BY <1>1, <1>2

LEMMA CInvHolds == Spec => []CInv
BY CInvInit, CInvNext, PTL DEF Spec

(* Types: a Run and a checkpoint hold no revision that is not durable, and *)
(* the digest covers nothing that is not in the journal, whoever dies      *)
(* between the snapshot and the first item of its Turn.                    *)
THEOREM TypesAreCorrect == Spec => []TypeOK
<1>1. CInv => TypeOK
  BY DEF CInv, Types
<1> QED
  BY <1>1, CInvHolds, PTL

(* When the Run that owns the Turn calls the model, the digest and the     *)
(* window together are the whole journal, every item once, for a page, a   *)
(* lookahead and a journal of any length.                                  *)
THEOREM RequestsAreComplete == Spec => []CompleteRequest
<1>1. CInv => CompleteRequest
  <2> SUFFICES ASSUME CInv, NEW r \in Runs, At(r, "model"), MayAppend(r)
               PROVE  LET told == base[r].digest.items \o page[r]
                      IN  Range(told) = 1..Len(journal) /\ Len(told) = Len(journal)
    BY DEF CompleteRequest
  <2> DEFINE d == base[r].digest.items
             p == page[r]
             a == base[r].covered
  <2>1. /\ a \in 0..Len(journal) /\ a \in Nat /\ p \in Seq(Nat) /\ Len(p) \in Nat
        /\ Len(journal) \in Nat /\ Behind(p, a) /\ Exact(base[r]) /\ ViewOK(r)
    BY LookFacts DEF At
  <2>2. ~(Len(journal) > a + Len(p)) /\ a + Len(p) <= Len(journal)
    BY <2>1 DEF ViewOK, Behind, At
  <2>3. Len(d) = a /\ Range(d) = 1..a /\ Range(p) = a + 1..a + Len(p)
    BY <2>1 DEF Exact, Behind
  <2>4. d \in Seq(Nat)
    <3>1. base[r] \in Contexts
      BY TypeFacts DEF CInv
    <3>2. d \in Seq(1..MaxItems)
      BY <3>1 DEF Contexts, Digests
    <3> QED
      BY <3>2, RunFacts, SeqOver
  <2> HIDE DEF d, p, a
  <2>5. Len(d \o p) = Len(d) + Len(p) /\ Range(d \o p) = Range(d) \cup Range(p)
    BY <2>1, <2>4, ConcatOf
  <2>6. (1..a) \cup (a + 1..a + Len(p)) = 1..a + Len(p) /\ a + Len(p) = Len(journal)
    BY <2>1, <2>2
  <2>7. Range(d \o p) = 1..Len(journal) /\ Len(d \o p) = Len(journal)
    BY <2>3, <2>5, <2>6
  <2> QED
    BY <2>7 DEF d, p
<1> QED
  BY <1>1, CInvHolds, PTL

(* Whoever saved it, the stored digest stands for the items up to the      *)
(* covered sequence, each once, never for half a batch, and its validation *)
(* is the last one with no write after it: _normalize_conversation_        *)
(* transactions, _group_history_segments and _merge_digest agree.          *)
THEOREM DigestsAreExact == Spec => []DigestIsExact
<1>1. CInv => DigestIsExact
  BY DEF CInv, Exact, DigestIsExact
<1> QED
  BY <1>1, CInvHolds, PTL

(* What the humans of a Turn said in it reaches every model call of that   *)
(* Turn, and the updates of other Turns do not, although the digest is     *)
(* handed from Turn to Turn and every compaction merges into it.           *)
THEOREM AuthorityIsKept == Spec => []AuthorityKept
<1>1. CInv => AuthorityKept
  <2> SUFFICES ASSUME CInv, NEW r \in Runs, At(r, "model")
               PROVE  base[r].digest.updates
                        = {i \in Range(base[r].digest.items) : Human(i) /\ journal[i].turn = turn[r]}
    BY DEF AuthorityKept
  <2>1. Exact(base[r]) /\ OwnDigest(r)
    BY LookFacts DEF ViewOK, At
  <2>2. /\ Range(base[r].digest.items) = 1..base[r].covered
        /\ base[r].digest.updates = Updates(base[r].digest.turn, base[r].covered)
    BY <2>1 DEF Exact
  <2>3. CASE base[r].digest = NoDigest
    <3>1. Range(base[r].digest.items) = {} /\ base[r].digest.updates = {}
      BY <2>3 DEF NoDigest, Range
    <3> QED
      BY <3>1
  <2>4. CASE base[r].digest.turn = turn[r]
    BY <2>2, <2>4 DEF Updates
  <2> QED
    BY <2>1, <2>3, <2>4 DEF OwnDigest
<1> QED
  BY <1>1, CInvHolds, PTL

LEMMA PrefixOf ==
  ASSUME NEW s \in Seq(Nat), NEW t \in Seq(Nat)
  PROVE  IsPrefix(s, s \o t)
<1> DEFINE z == s \o t
<1>1. Len(s) \in Nat /\ Len(t) \in Nat
  OBVIOUS
<1>2. z \in Seq(Nat) /\ Len(z) = Len(s) + Len(t) /\ \A i \in 1..Len(s) : z[i] = s[i]
  BY <1>1
<1> HIDE DEF z
<1>3. Len(s) <= Len(z) /\ \A i \in 1..Len(s) : z[i] = s[i]
  BY <1>1, <1>2
<1>4. SubSeq(z, 1, Len(s)) = SubSeq(s, 1, Len(s))
  <2>1. /\ SubSeq(z, 1, Len(s)) = [i \in 1..Len(s) |-> z[i]]
        /\ SubSeq(s, 1, Len(s)) = [i \in 1..Len(s) |-> s[i]]
    BY <1>1, <1>2, <1>3
  <2> QED
    BY <1>3, <2>1
<1> QED
  BY <1>3, <1>4 DEF IsPrefix, z

(* No save undoes another: every version of the context state is made from *)
(* the one before it, whose digest it contains, although a superseded Run  *)
(* saves what it loaded long ago (_save_thread_digest compares revisions). *)
THEOREM DigestsOnlyGrow == Spec => DigestOnlyGrows
<1> DEFINE Grows == /\ context' # context => context'.rev = context.rev + 1
                    /\ context'.covered >= context.covered
                    /\ IsPrefix(context.digest.items, context'.digest.items)
<1>1. CInv /\ [Next]_vars => [Grows]_vars
  <2> SUFFICES ASSUME CInv, Next PROVE Grows
    OBVIOUS
  <2>1. PICK r \in Runs : Plan(r) \/ Resume(r) \/ Work(r) \/ Crash(r)
    BY DEF Next
  <2>2. /\ context.digest.items \in Seq(Nat) /\ context.covered \in Nat
        /\ context.digest.items \o <<>> = context.digest.items
    <3>1. context.digest.items \in Seq(1..MaxItems) /\ context.covered \in Nat
      BY DEF CInv, Types, TypeOK, Contexts, Digests
    <3>2. context.digest.items \in Seq(Nat)
      BY <3>1, RunFacts, SeqOver
    <3> QED
      BY <3>1, <3>2
  <2>3. IsPrefix(context.digest.items, context.digest.items)
    <3>1. <<>> \in Seq(Nat)
      OBVIOUS
    <3> QED
      BY <2>2, <3>1, PrefixOf
  <2>4. CASE UNCHANGED context
    BY <2>2, <2>3, <2>4
  <2>5. CASE Start(r) /\ context' # context
    <3>1. pc[r] = "planned" /\ context' = Retargeted(r)
      BY <2>5 DEF Start, At
    <3> QED
      BY <2>2, <2>3, <3>1, RetargetedIsExact
  <2>6. CASE Compact(r) /\ context' # context
    <3>1. PICK cut \in Ends(page[r]) \ {Len(page[r])} : context.rev = base[r].rev /\ Adopt(r, cut)
      BY <2>6 DEF Compact
    <3>2. /\ context' = Saved(r, cut) /\ pc[r] = "window" /\ OwnDigest(r)
          /\ page[r] \in Seq(Nat) /\ cut \in 1..Len(page[r]) /\ cut \in Nat
      BY <2>6, <3>1, LookFacts DEF Compact, Adopt, At, Ends
    <3>3. /\ context'.rev = context.rev + 1 /\ context'.covered = context.covered + cut
          /\ context'.digest.items = context.digest.items \o SubSeq(page[r], 1, cut)
      BY <3>1, <3>2, SavedIsExact
    <3>4. SubSeq(page[r], 1, cut) \in Seq(Nat)
      BY <3>2, RangeOfPart
    <3>5. IsPrefix(context.digest.items, context'.digest.items)
      BY <2>2, <3>3, <3>4, PrefixOf
    <3>6. context'.covered >= context.covered
      BY <2>2, <3>2, <3>3
    <3> QED
      BY <3>3, <3>5, <3>6
  <2> QED
    BY <2>1, <2>4, <2>5, <2>6
       DEF Plan, Resume, Work, Crash, CreateSession, Cancel, RefreshView, Observe, Prepare, LoadState,
           LoadPage, ReadTail, KeepPage, Mark, Steer, Propose, Finish, Refused, Say
<1> QED
  BY <1>1, CInvHolds, PTL DEF Spec, DigestOnlyGrows
=============================================================================
