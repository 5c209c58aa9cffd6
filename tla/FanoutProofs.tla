---------------------------- MODULE FanoutProofs ----------------------------
(***************************************************************************)
(* Proofs about the fanout, for any plans, any number of workers, any      *)
(* outcomes of their attempts in any order, and any number of crashes and  *)
(* resumes of the coordinator.  Four invariants, each on top of the ones   *)
(* before it:                                                              *)
(*                                                                         *)
(*   IInv       what is merged and saved, enough for the refinement of     *)
(*              in-order integration                                       *)
(*   FanoutInv  where every task is, what is recorded of its attempts,     *)
(*              what the integration workspace and the checkpoint hold     *)
(*   HandoffInv what a producer offers is seen by its consumer or waits    *)
(*              for it, and what is merged has seen the last of it         *)
(*   BlameInv   which tasks have a result, and why the frontier is stuck   *)
(***************************************************************************)
EXTENDS Fanout, FiniteSetTheorems, WellFoundedInduction, TLAPS

----------------------------------------------------------------------------
(* Kept sequences, by induction over their length.                         *)

(* Induction over 0..N, on the set of the numbers for which a claim holds. *)
LEMMA Climb ==
  ASSUME NEW N \in Nat, NEW T, 0 \in T, \A n \in 1..N : n - 1 \in T => n \in T
  PROVE  0..N \subseteq T
<1> SUFFICES ASSUME ~(0..N \subseteq T) PROVE FALSE
  OBVIOUS
<1> DEFINE R == {ss \in Nat \X Nat : ss[1] < ss[2]}
           missing == {n \in 0..N : n \notin T}
<1>1. IsWellFoundedOn(R, Nat)
  BY NatLessThanWellFounded DEF OpToRel
<1>2. missing \subseteq Nat /\ missing # {}
  OBVIOUS
<1>3. PICK m \in missing : \A n \in missing : ~(<<n, m>> \in R)
  <2> HIDE DEF R, missing
  <2> QED
    BY <1>1, <1>2, WFMin
<1>4. m \in 1..N /\ m - 1 \in 0..N
  BY <1>3
<1>5. <<m - 1, m>> \in R
  BY <1>4
<1> QED
  BY <1>3, <1>4, <1>5

(* f starts with first and goes on step by step.  Such a function exists. *)
StepsFrom(N, first, step, f) == f[0] = first /\ \A n \in 1..N : f[n] = step[n][f[n - 1]]

LEMMA Recursion ==
  ASSUME NEW N \in Nat, NEW V, NEW first \in V, NEW step \in [1..N -> [V -> V]]
  PROVE  \E f \in [0..N -> V] : StepsFrom(N, first, step, f)
<1> DEFINE Upto(m, f) == f[0] = first /\ \A n \in 1..m : f[n] = step[n][f[n - 1]]
           done == {m \in 0..N : \E f \in [0..m -> V] : Upto(m, f)}
<1>1. 0 \in done
  <2> DEFINE f == [n \in 0..0 |-> first]
  <2>1. f \in [0..0 -> V] /\ Upto(0, f) /\ 0 \in 0..N
    OBVIOUS
  <2> QED
    BY <2>1
<1>2. ASSUME NEW m \in 1..N, m - 1 \in done PROVE m \in done
  <2>1. PICK f \in [0..(m - 1) -> V] : Upto(m - 1, f)
    BY <1>2
  <2> DEFINE new == step[m][f[m - 1]]
             g == [n \in 0..m |-> IF n = m THEN new ELSE f[n]]
  <2>2. m - 1 \in 0..(m - 1) /\ m \in 0..N /\ m \in Nat
    OBVIOUS
  <2>3. new \in V
    BY <2>2
  <2> HIDE DEF new
  <2>4. g \in [0..m -> V]
    <3>1. ASSUME NEW n \in 0..m, n # m PROVE f[n] \in V
      <4>1. n \in 0..(m - 1)
        BY <3>1
      <4> QED
        BY <4>1
    <3> QED
      BY <2>3, <3>1
  <2>5. g[m] = new /\ \A n \in 0..(m - 1) : g[n] = f[n]
    OBVIOUS
  <2>6. ASSUME NEW n \in 1..m PROVE g[n] = step[n][g[n - 1]]
    <3> HIDE DEF g
    <3>1. n - 1 \in 0..(m - 1) /\ g[n - 1] = f[n - 1]
      BY <2>5
    <3>2. CASE n = m
      BY <2>5, <3>1, <3>2 DEF new
    <3>3. CASE n # m
      <4>1. n \in 0..(m - 1) /\ n \in 1..(m - 1)
        BY <3>3
      <4> QED
        BY <2>1, <2>5, <3>1, <4>1
    <3> QED
      BY <3>2, <3>3
  <2>7. g[0] = first
    <3>1. 0 \in 0..(m - 1)
      OBVIOUS
    <3> HIDE DEF g
    <3> QED
      BY <2>1, <2>5, <3>1
  <2>8. \E h \in [0..m -> V] : Upto(m, h)
    <3> HIDE DEF g
    <3> QED
      BY <2>4, <2>6, <2>7
  <2> QED
    BY <2>2, <2>8
<1>3. 0..N \subseteq done
  <2> HIDE DEF done
  <2> QED
    BY <1>1, <1>2, Climb
<1>4. N \in done
  <2> HIDE DEF done
  <2> QED
    BY <1>3
<1> QED
  BY <1>4 DEF StepsFrom

----------------------------------------------------------------------------
(* The prefixes of a kept sequence. *)
Keeping(s, keep, k) ==
  k = [n \in 0..Len(s) |->
        IF n = 0 THEN <<>> ELSE IF s[n] \in keep THEN Append(k[n - 1], s[n]) ELSE k[n - 1]]

LEMMA KeepingSteps ==
  ASSUME NEW s, Len(s) \in Nat, NEW keep, NEW k, Keeping(s, keep, k)
  PROVE  /\ k[0] = <<>>
         /\ \A n \in 1..Len(s) : k[n] = IF s[n] \in keep THEN Append(k[n - 1], s[n]) ELSE k[n - 1]
<1> DEFINE value(n) == IF n = 0 THEN <<>>
                       ELSE IF s[n] \in keep THEN Append(k[n - 1], s[n]) ELSE k[n - 1]
<1>1. k = [n \in 0..Len(s) |-> value(n)]
  BY DEF Keeping
<1> HIDE DEF value
<1>2. \A n \in 0..Len(s) : k[n] = value(n)
  BY <1>1
<1>3. 0 \in 0..Len(s) /\ \A n \in 1..Len(s) : n \in 0..Len(s) /\ n # 0
  OBVIOUS
<1> QED
  BY <1>2, <1>3 DEF value

LEMMA KeepingType ==
  ASSUME NEW S, NEW s \in Seq(S), NEW keep, NEW k, Keeping(s, keep, k)
  PROVE  k \in [0..Len(s) -> Seq(S)]
<1> DEFINE typed == {n \in 0..Len(s) : k[n] \in Seq(S)}
<1>1. Len(s) \in Nat /\ <<>> \in Seq(S)
  OBVIOUS
<1>2. 0 \in typed
  <2>1. k[0] \in Seq(S)
    <3>1. k[0] = <<>>
      BY <1>1, KeepingSteps
    <3> QED
      BY <1>1, <3>1, Zenon
  <2> QED
    BY <1>1, <2>1
<1>3. ASSUME NEW n \in 1..Len(s), n - 1 \in typed PROVE n \in typed
  <2>1. s[n] \in S /\ n \in 0..Len(s) /\ k[n - 1] \in Seq(S)
    BY <1>3
  <2>2. k[n] = IF s[n] \in keep THEN Append(k[n - 1], s[n]) ELSE k[n - 1]
    BY <1>1, KeepingSteps
  <2>3. Append(k[n - 1], s[n]) \in Seq(S)
    BY <2>1
  <2>4. k[n] \in Seq(S)
    BY <2>1, <2>2, <2>3, Zenon
  <2> QED
    BY <2>1, <2>4
<1>4. 0..Len(s) \subseteq typed
  <2> HIDE DEF typed
  <2> QED
    BY <1>1, <1>2, <1>3, Climb
<1>5. \A n \in 0..Len(s) : k[n] \in Seq(S)
  BY <1>4
<1>6. k = [n \in 0..Len(s) |-> k[n]]
  BY DEF Keeping
<1> HIDE DEF typed
<1> QED
  BY <1>5, <1>6

LEMMA KeptFunction ==
  ASSUME NEW S, NEW s \in Seq(S), NEW keep
  PROVE  \E k : Keeping(s, keep, k) /\ k \in [0..Len(s) -> Seq(S)] /\ Kept(s, keep) = k[Len(s)]
<1> DEFINE step == [n \in 1..Len(s) |-> [q \in Seq(S) |->
                      IF s[n] \in keep THEN Append(q, s[n]) ELSE q]]
<1>1. Len(s) \in Nat /\ <<>> \in Seq(S)
  OBVIOUS
<1>2. step \in [1..Len(s) -> [Seq(S) -> Seq(S)]]
  OBVIOUS
<1>3. \A n \in 1..Len(s), q \in Seq(S) :
        step[n][q] = IF s[n] \in keep THEN Append(q, s[n]) ELSE q
  OBVIOUS
<1> HIDE DEF step
<1>4. PICK f \in [0..Len(s) -> Seq(S)] :
        f[0] = <<>> /\ \A n \in 1..Len(s) : f[n] = step[n][f[n - 1]]
  <2> DEFINE N == Len(s)
             V == Seq(S)
             first == <<>>
  <2>1. N \in Nat /\ first \in V /\ step \in [1..N -> [V -> V]]
    BY <1>1, <1>2
  <2> HIDE DEF N, V, first
  <2>2. \E f \in [0..N -> V] : StepsFrom(N, first, step, f)
    BY <2>1, Recursion
  <2> QED
    BY <2>2 DEF N, V, first, StepsFrom
<1>5. Keeping(s, keep, f)
  <2> DEFINE value(n) == IF n = 0 THEN <<>>
                         ELSE IF s[n] \in keep THEN Append(f[n - 1], s[n]) ELSE f[n - 1]
  <2>1. ASSUME NEW n \in 0..Len(s) PROVE f[n] = value(n)
    <3>1. CASE n = 0
      BY <1>4, <3>1
    <3>2. CASE n # 0
      <4>1. n \in 1..Len(s) /\ n - 1 \in 0..Len(s)
        BY <1>1, <3>2
      <4> QED
        BY <1>3, <1>4, <3>2, <4>1
    <3> QED
      BY <3>1, <3>2
  <2> HIDE DEF value
  <2>2. f = [n \in 0..Len(s) |-> value(n)]
    BY <2>1
  <2> QED
    BY <2>2 DEF Keeping, value
<1> DEFINE k == CHOOSE k : Keeping(s, keep, k)
<1>6. Keeping(s, keep, k)
  BY <1>5
<1>7. Kept(s, keep) = k[Len(s)]
  BY Zenon DEF Kept, Keeping
<1> HIDE DEF k
<1> QED
  BY <1>6, <1>7, KeepingType

(* Nothing of nothing, and the last element is kept last or dropped. *)
LEMMA KeptEmpty == ASSUME NEW keep PROVE Kept(<<>>, keep) = <<>>
<1>1. PICK k : Keeping(<<>>, keep, k) /\ Kept(<<>>, keep) = k[Len(<<>>)]
  <2>1. <<>> \in Seq(Nat)
    OBVIOUS
  <2> QED
    BY <2>1, KeptFunction
<1>2. Len(<<>>) = 0
  OBVIOUS
<1> QED
  BY <1>1, <1>2, KeepingSteps

LEMMA KeptAppend ==
  ASSUME NEW S, NEW s \in Seq(S), NEW x \in S, NEW keep
  PROVE  Kept(Append(s, x), keep) = IF x \in keep THEN Append(Kept(s, keep), x) ELSE Kept(s, keep)
<1> DEFINE sx == Append(s, x)
<1>1. /\ sx \in Seq(S) /\ Len(sx) = Len(s) + 1 /\ sx[Len(s) + 1] = x /\ Len(s) \in Nat
      /\ \A n \in 1..Len(s) : sx[n] = s[n]
  OBVIOUS
<1>2. PICK k : Keeping(s, keep, k) /\ k \in [0..Len(s) -> Seq(S)] /\ Kept(s, keep) = k[Len(s)]
  BY KeptFunction
<1>3. PICK j : Keeping(sx, keep, j) /\ Kept(sx, keep) = j[Len(sx)]
  <2> HIDE DEF sx
  <2> QED
    BY <1>1, KeptFunction
<1> HIDE DEF sx
<1> DEFINE same == {n \in 0..Len(s) : j[n] = k[n]}
<1>4. 0 \in same
  BY <1>1, <1>2, <1>3, KeepingSteps
<1>5. ASSUME NEW n \in 1..Len(s), n - 1 \in same PROVE n \in same
  <2>1. k[n] = IF s[n] \in keep THEN Append(k[n - 1], s[n]) ELSE k[n - 1]
    BY <1>1, <1>2, KeepingSteps
  <2>2. j[n] = IF s[n] \in keep THEN Append(j[n - 1], s[n]) ELSE j[n - 1]
    <3>1. n \in 1..Len(sx) /\ Len(sx) \in Nat /\ sx[n] = s[n]
      BY <1>1
    <3> QED
      BY <1>3, <3>1, KeepingSteps
  <2>3. n \in 0..Len(s)
    BY <1>1
  <2> QED
    BY <1>5, <2>1, <2>2, <2>3
<1>6. 0..Len(s) \subseteq same
  <2> HIDE DEF same
  <2> QED
    BY <1>1, <1>4, <1>5, Climb
<1>7. j[Len(s)] = k[Len(s)]
  BY <1>1, <1>6
<1>8. j[Len(s) + 1] = IF x \in keep THEN Append(j[Len(s)], x) ELSE j[Len(s)]
  <2>1. Len(s) + 1 \in 1..Len(sx) /\ Len(sx) \in Nat /\ (Len(s) + 1) - 1 = Len(s)
    BY <1>1
  <2> QED
    BY <1>1, <1>3, <2>1, KeepingSteps
<1> QED
  BY <1>1, <1>2, <1>3, <1>7, <1>8 DEF sx

(* q holds the kept ones of the first n elements of s: f tells from where. *)
PicksOf(s, n, keep, q, f) ==
  /\ f \in [1..Len(q) -> 1..n]
  /\ \A i \in 1..Len(q) : q[i] = s[f[i]] /\ s[f[i]] \in keep
  /\ \A i, j \in 1..Len(q) : i < j => f[i] < f[j]
  /\ \A m \in 1..n : s[m] \in keep => \E i \in 1..Len(q) : f[i] = m

LEMMA PicksNext ==
  ASSUME NEW S, NEW s \in Seq(S), NEW keep, NEW n \in 1..Len(s), NEW q \in Seq(S), NEW f,
         PicksOf(s, n - 1, keep, q, f)
  PROVE  \E g : PicksOf(s, n, keep, IF s[n] \in keep THEN Append(q, s[n]) ELSE q, g)
<1>1. Len(q) \in Nat /\ n \in Nat /\ s[n] \in S /\ \A i \in 1..Len(q) : f[i] \in 1..(n - 1)
  BY DEF PicksOf
<1>2. CASE s[n] \notin keep
  <2>1. PicksOf(s, n, keep, q, f)
    <3>1. f \in [1..Len(q) -> 1..n]
      BY <1>1 DEF PicksOf
    <3>2. \A m \in 1..n : s[m] \in keep => m \in 1..(n - 1)
      BY <1>1, <1>2
    <3> QED
      BY <3>1, <3>2 DEF PicksOf
  <2> QED
    BY <1>2, <2>1
<1>3. CASE s[n] \in keep
  <2> DEFINE r == Append(q, s[n])
             g == [i \in 1..(Len(q) + 1) |-> IF i = Len(q) + 1 THEN n ELSE f[i]]
  <2>1. Len(r) = Len(q) + 1 /\ r[Len(q) + 1] = s[n] /\ \A i \in 1..Len(q) : r[i] = q[i]
    BY <1>1
  <2>2. /\ g \in [1..(Len(q) + 1) -> 1..n] /\ g[Len(q) + 1] = n
        /\ \A i \in 1..Len(q) : g[i] = f[i]
    BY <1>1
  <2>3. \A i \in 1..(Len(q) + 1) : i \in 1..Len(q) \/ i = Len(q) + 1
    BY <1>1
  <2> HIDE DEF r, g
  <2>4. \A i \in 1..Len(r) : r[i] = s[g[i]] /\ s[g[i]] \in keep
    BY <1>3, <2>1, <2>2, <2>3 DEF PicksOf
  <2>5. ASSUME NEW i \in 1..Len(r), NEW j \in 1..Len(r), i < j PROVE g[i] < g[j]
    <3>1. i \in 1..Len(q)
      BY <1>1, <2>1, <2>5
    <3>2. CASE j \in 1..Len(q)
      BY <2>2, <2>5, <3>1, <3>2 DEF PicksOf
    <3>3. CASE j = Len(q) + 1
      BY <1>1, <2>2, <3>1, <3>3
    <3> QED
      BY <2>1, <2>3, <3>2, <3>3
  <2>6. ASSUME NEW m \in 1..n, s[m] \in keep PROVE \E i \in 1..Len(r) : g[i] = m
    <3>1. CASE m = n
      BY <1>1, <2>1, <2>2, <3>1
    <3>2. CASE m # n
      <4>1. m \in 1..(n - 1)
        BY <1>1, <3>2
      <4>2. PICK i \in 1..Len(q) : f[i] = m
        BY <2>6, <4>1 DEF PicksOf
      <4> QED
        BY <1>1, <2>1, <2>2, <4>2
    <3> QED
      BY <3>1, <3>2
  <2>7. PicksOf(s, n, keep, r, g)
    BY <2>1, <2>2, <2>4, <2>5, <2>6 DEF PicksOf
  <2> QED
    BY <1>3, <2>7 DEF r
<1> QED
  BY <1>2, <1>3

LEMMA KeptPicks ==
  ASSUME NEW S, NEW s \in Seq(S), NEW keep
  PROVE  /\ Kept(s, keep) \in Seq(S)
         /\ \E f : PicksOf(s, Len(s), keep, Kept(s, keep), f)
<1>1. PICK k : Keeping(s, keep, k) /\ k \in [0..Len(s) -> Seq(S)] /\ Kept(s, keep) = k[Len(s)]
  BY KeptFunction
<1>2. Len(s) \in Nat /\ k[0] = <<>> /\ k[Len(s)] \in Seq(S)
  BY <1>1, KeepingSteps
<1> DEFINE picked == {n \in 0..Len(s) : \E f : PicksOf(s, n, keep, k[n], f)}
<1>3. 0 \in picked
  <2>1. PicksOf(s, 0, keep, <<>>, <<>>)
    BY DEF PicksOf
  <2>2. \E f : PicksOf(s, 0, keep, k[0], f)
    BY <1>2, <2>1, Zenon
  <2> QED
    BY <1>2, <2>2
<1>4. ASSUME NEW n \in 1..Len(s), n - 1 \in picked PROVE n \in picked
  <2>1. PICK f : PicksOf(s, n - 1, keep, k[n - 1], f)
    BY <1>4
  <2>2. k[n] = IF s[n] \in keep THEN Append(k[n - 1], s[n]) ELSE k[n - 1]
    BY <1>1, <1>2, KeepingSteps
  <2>3. n \in 0..Len(s) /\ n - 1 \in 0..Len(s) /\ k[n - 1] \in Seq(S)
    BY <1>1, <1>2
  <2>4. \E g : PicksOf(s, n, keep, k[n], g)
    BY <2>1, <2>2, <2>3, PicksNext
  <2> QED
    BY <2>3, <2>4
<1>5. Len(s) \in picked
  <2> HIDE DEF picked
  <2>1. 0..Len(s) \subseteq picked
    BY <1>2, <1>3, <1>4, Climb
  <2> QED
    BY <1>2, <2>1
<1> QED
  BY <1>1, <1>2, <1>5

(* What is kept, that it is kept once, and which element is kept last. *)
LEMMA KeptElements ==
  ASSUME NEW S, NEW s \in Seq(S), NEW keep
  PROVE  /\ Kept(s, keep) \in Seq(S)
         /\ ToSet(Kept(s, keep)) = ToSet(s) \cap keep
         /\ IsInjective(s) => IsInjective(Kept(s, keep))
<1>1. Kept(s, keep) \in Seq(S)
  BY KeptPicks
<1> DEFINE q == Kept(s, keep)
<1>2. PICK f : PicksOf(s, Len(s), keep, q, f)
  BY KeptPicks
<1>3. DOMAIN q = 1..Len(q) /\ DOMAIN s = 1..Len(s) /\ Len(q) \in Nat /\ Len(s) \in Nat
  BY <1>1
<1> HIDE DEF q
<1>4. ToSet(q) = ToSet(s) \cap keep
  <2>1. ASSUME NEW x \in ToSet(q) PROVE x \in ToSet(s) \cap keep
    <3>1. PICK i \in 1..Len(q) : x = q[i]
      BY <1>3 DEF ToSet
    <3>2. q[i] = s[f[i]] /\ s[f[i]] \in keep /\ f[i] \in DOMAIN s
      BY <1>2, <1>3 DEF PicksOf
    <3> QED
      BY <3>1, <3>2 DEF ToSet
  <2>2. ASSUME NEW x \in ToSet(s) \cap keep PROVE x \in ToSet(q)
    <3>1. PICK m \in 1..Len(s) : x = s[m]
      BY <1>3 DEF ToSet
    <3>2. PICK i \in 1..Len(q) : f[i] = m
      BY <1>2, <3>1 DEF PicksOf
    <3>3. q[i] = x
      BY <1>2, <3>1, <3>2 DEF PicksOf
    <3> QED
      BY <1>3, <3>3 DEF ToSet
  <2> QED
    BY <2>1, <2>2
<1>5. ASSUME IsInjective(s) PROVE IsInjective(q)
  <2> SUFFICES ASSUME NEW i \in 1..Len(q), NEW j \in 1..Len(q), q[i] = q[j] PROVE i = j
    BY <1>3 DEF IsInjective
  <2>1. f[i] = f[j] /\ f[i] \in Nat
    BY <1>2, <1>3, <1>5 DEF PicksOf, IsInjective
  <2>2. ~(i < j) /\ ~(j < i)
    BY <1>2, <2>1 DEF PicksOf
  <2> QED
    BY <1>3, <2>2
<1> QED
  BY <1>1, <1>4, <1>5 DEF q

LEMMA KeptLast ==
  ASSUME NEW S, NEW s \in Seq(S), NEW keep
  PROVE  \/ Kept(s, keep) = <<>> /\ \A i \in 1..Len(s) : s[i] \notin keep
         \/ /\ Kept(s, keep) # <<>>
            /\ \E i \in 1..Len(s) : /\ Last(Kept(s, keep)) = s[i] /\ s[i] \in keep
                                    /\ \A j \in 1..Len(s) : j > i => s[j] \notin keep
<1>1. Kept(s, keep) \in Seq(S)
  BY KeptPicks
<1> DEFINE q == Kept(s, keep)
<1>2. PICK f : PicksOf(s, Len(s), keep, q, f)
  BY KeptPicks
<1>3. Len(q) \in Nat /\ Len(s) \in Nat /\ (q = <<>> <=> Len(q) = 0)
  BY <1>1
<1> HIDE DEF q
<1>4. CASE q = <<>>
  BY <1>2, <1>3, <1>4 DEF PicksOf, q
<1>5. CASE q # <<>>
  <2>1. Len(q) \in 1..Len(q)
    BY <1>3, <1>5
  <2>2. /\ f[Len(q)] \in 1..Len(s) /\ Last(q) = s[f[Len(q)]] /\ s[f[Len(q)]] \in keep
    BY <1>2, <2>1 DEF PicksOf, Last
  <2>3. ASSUME NEW j \in 1..Len(s), j > f[Len(q)] PROVE s[j] \notin keep
    <3> SUFFICES ASSUME s[j] \in keep PROVE FALSE
      OBVIOUS
    <3>1. PICK i \in 1..Len(q) : f[i] = j
      BY <1>2 DEF PicksOf
    <3>2. i = Len(q) \/ i < Len(q)
      BY <1>3
    <3>3. f[i] = f[Len(q)] \/ f[i] < f[Len(q)]
      BY <1>2, <2>1, <3>2 DEF PicksOf
    <3>4. f[Len(q)] \in Nat /\ j \in Nat
      BY <2>2
    <3> QED
      BY <2>3, <3>1, <3>3, <3>4
  <2> QED
    BY <1>5, <2>2, <2>3 DEF q
<1> QED
  BY <1>4, <1>5

----------------------------------------------------------------------------
(* The integration order of a plan.                                        *)

(* What can be placed after the tasks already there. *)
Layer(p, edges, before) ==
  {t \in Members(p) \ before : Upstream(edges, t) \cap Members(p) \subseteq before}

Placing(p, edges, placed) ==
  placed = [n \in 0..Len(p.tasks) |->
             IF n = 0 THEN <<>>
             ELSE placed[n - 1] \o Kept(p.tasks, Layer(p, edges, ToSet(placed[n - 1])))]

(* Every task at most once, and after all its upstream. *)
InTurn(p, edges, q) ==
  /\ q \in Seq(Members(p)) /\ IsInjective(q)
  /\ \A i \in 1..Len(q) : Upstream(edges, q[i]) \cap Members(p) \subseteq {q[j] : j \in 1..(i - 1)}

LEMMA LayerInTurn ==
  ASSUME NEW p, Len(p.tasks) \in Nat, p.tasks \in Seq(Members(p)), IsInjective(p.tasks),
         NEW edges, NEW q, InTurn(p, edges, q)
  PROVE  InTurn(p, edges, q \o Kept(p.tasks, Layer(p, edges, ToSet(q))))
<1> DEFINE layer == Layer(p, edges, ToSet(q))
           more == Kept(p.tasks, layer)
           all == q \o more
<1>1. more \in Seq(Members(p)) /\ ToSet(more) \subseteq layer /\ IsInjective(more)
  BY KeptElements
<1>2. q \in Seq(Members(p)) /\ IsInjective(q)
  BY DEF InTurn
<1>3. layer \cap ToSet(q) = {}
  BY DEF Layer
<1>4. \A t \in layer : Upstream(edges, t) \cap Members(p) \subseteq ToSet(q)
  BY DEF Layer
<1> HIDE DEF layer, more
<1>5. /\ all \in Seq(Members(p)) /\ Len(all) = Len(q) + Len(more)
      /\ Len(q) \in Nat /\ Len(more) \in Nat /\ DOMAIN q = 1..Len(q) /\ DOMAIN more = 1..Len(more)
      /\ \A i \in 1..Len(q) : all[i] = q[i]
      /\ \A i \in 1..Len(more) : all[Len(q) + i] = more[i]
  BY <1>1, <1>2
<1>6. DOMAIN all = 1..Len(all)
  BY <1>5
<1> HIDE DEF all
<1>7. ASSUME NEW i \in 1..Len(all)
      PROVE  \/ i \in 1..Len(q) /\ all[i] = q[i]
             \/ i - Len(q) \in 1..Len(more) /\ all[i] = more[i - Len(q)] /\ i > Len(q)
  <2>1. CASE i <= Len(q)
    BY <1>5, <2>1
  <2>2. CASE i > Len(q)
    <3>1. i - Len(q) \in 1..Len(more) /\ Len(q) + (i - Len(q)) = i
      BY <1>5, <2>2
    <3> QED
      BY <1>5, <2>2, <3>1
  <2> QED
    BY <1>5, <2>1, <2>2
<1>8. \A i \in 1..Len(more) : more[i] \in layer /\ more[i] \notin ToSet(q)
  BY <1>1, <1>3, <1>5 DEF ToSet
<1>9. \A i \in 1..Len(q) : q[i] \in ToSet(q)
  BY <1>5 DEF ToSet
<1>10. ASSUME NEW i \in 1..Len(all), NEW j \in 1..Len(all), all[i] = all[j] PROVE i = j
  <2>1. CASE i \in 1..Len(q) /\ j \in 1..Len(q)
    BY <1>2, <1>5, <1>10, <2>1 DEF IsInjective
  <2>2. CASE i > Len(q) /\ j > Len(q)
    <3>1. /\ i - Len(q) \in 1..Len(more) /\ j - Len(q) \in 1..Len(more)
          /\ more[i - Len(q)] = more[j - Len(q)]
      BY <1>5, <1>7, <1>10, <2>2
    <3>2. i - Len(q) = j - Len(q)
      BY <1>1, <1>5, <3>1 DEF IsInjective
    <3> QED
      BY <1>5, <3>2
  <2>3. CASE i \in 1..Len(q) /\ j > Len(q)
    BY <1>5, <1>7, <1>8, <1>9, <1>10, <2>3
  <2>4. CASE i > Len(q) /\ j \in 1..Len(q)
    BY <1>5, <1>7, <1>8, <1>9, <1>10, <2>4
  <2> QED
    BY <1>7, <2>1, <2>2, <2>3, <2>4
<1>11. ASSUME NEW i \in 1..Len(all)
       PROVE  Upstream(edges, all[i]) \cap Members(p) \subseteq {all[j] : j \in 1..(i - 1)}
  <2>1. CASE i \in 1..Len(q) /\ all[i] = q[i]
    <3>1. \A j \in 1..(i - 1) : all[j] = q[j]
      BY <1>5, <2>1
    <3> QED
      BY <2>1, <3>1 DEF InTurn
  <2>2. CASE i - Len(q) \in 1..Len(more) /\ all[i] = more[i - Len(q)] /\ i > Len(q)
    <3>1. Upstream(edges, all[i]) \cap Members(p) \subseteq ToSet(q)
      BY <1>4, <1>8, <2>2
    <3>2. \A j \in 1..Len(q) : j \in 1..(i - 1) /\ all[j] = q[j]
      BY <1>5, <2>2
    <3> QED
      BY <1>5, <3>1, <3>2 DEF ToSet
  <2> QED
    BY <1>7, <2>1, <2>2
<1> QED
  BY <1>5, <1>6, <1>10, <1>11 DEF InTurn, IsInjective, all, more, layer

LEMMA LayeredInTurn ==
  ASSUME NEW p, NEW T, p.tasks \in Seq(T), IsInjective(p.tasks), NEW edges
  PROVE  InTurn(p, edges, Layered(p, edges))
<1> DEFINE N == Len(p.tasks)
           step == [n \in 1..N |-> [q \in Seq(Members(p)) |->
                      q \o Kept(p.tasks, Layer(p, edges, ToSet(q)))]]
<1>1. N \in Nat /\ <<>> \in Seq(Members(p)) /\ DOMAIN p.tasks = 1..N
  OBVIOUS
<1>2. p.tasks \in Seq(Members(p))
  BY <1>1 DEF Members
<1>3. ASSUME NEW q \in Seq(Members(p))
      PROVE  q \o Kept(p.tasks, Layer(p, edges, ToSet(q))) \in Seq(Members(p))
  <2>1. Kept(p.tasks, Layer(p, edges, ToSet(q))) \in Seq(Members(p))
    BY <1>2, KeptElements
  <2> QED
    BY <2>1
<1>4. /\ step \in [1..N -> [Seq(Members(p)) -> Seq(Members(p))]]
      /\ \A n \in 1..N, q \in Seq(Members(p)) :
           step[n][q] = q \o Kept(p.tasks, Layer(p, edges, ToSet(q)))
  BY <1>3
<1> HIDE DEF step
<1>5. PICK f \in [0..N -> Seq(Members(p))] : StepsFrom(N, <<>>, step, f)
  <2> DEFINE V == Seq(Members(p))
             first == <<>>
  <2>1. N \in Nat /\ first \in V /\ step \in [1..N -> [V -> V]]
    BY <1>1, <1>4
  <2> HIDE DEF N, V, first
  <2>2. \E f \in [0..N -> V] : StepsFrom(N, first, step, f)
    BY <2>1, Recursion
  <2> QED
    BY <2>2 DEF N, V, first
<1>6. Placing(p, edges, f)
  <2> DEFINE value(n) == IF n = 0 THEN <<>>
                         ELSE f[n - 1] \o Kept(p.tasks, Layer(p, edges, ToSet(f[n - 1])))
  <2>1. ASSUME NEW n \in 0..N PROVE f[n] = value(n)
    <3>1. CASE n = 0
      BY <1>5, <3>1 DEF StepsFrom
    <3>2. CASE n # 0
      <4>1. n \in 1..N /\ n - 1 \in 0..N
        BY <1>1, <3>2
      <4> QED
        BY <1>4, <1>5, <3>2, <4>1 DEF StepsFrom
    <3> QED
      BY <3>1, <3>2
  <2> HIDE DEF value
  <2>2. f = [n \in 0..N |-> value(n)]
    BY <2>1
  <2> QED
    BY <2>2 DEF Placing, value
<1> DEFINE placed == CHOOSE placed : Placing(p, edges, placed)
<1>7. Placing(p, edges, placed)
  BY <1>6
<1>8. Layered(p, edges) = placed[N]
  BY Zenon DEF Layered, Placing, Layer
<1> HIDE DEF placed
<1>9. /\ placed[0] = <<>>
      /\ \A n \in 1..N : placed[n] =
           placed[n - 1] \o Kept(p.tasks, Layer(p, edges, ToSet(placed[n - 1])))
  <2> DEFINE value(n) == IF n = 0 THEN <<>>
                ELSE placed[n - 1] \o Kept(p.tasks, Layer(p, edges, ToSet(placed[n - 1])))
  <2>1. placed = [n \in 0..N |-> value(n)]
    BY <1>7 DEF Placing
  <2> HIDE DEF value
  <2>2. \A n \in 0..N : placed[n] = value(n)
    BY <2>1
  <2>3. 0 \in 0..N /\ \A n \in 1..N : n \in 0..N /\ n # 0
    BY <1>1
  <2> QED
    BY <2>2, <2>3 DEF value
<1> DEFINE good == {n \in 0..N : InTurn(p, edges, placed[n])}
<1>10. 0 \in good
  <2>1. InTurn(p, edges, <<>>)
    BY DEF InTurn, IsInjective
  <2>2. InTurn(p, edges, placed[0])
    BY <1>9, <2>1, Zenon
  <2> QED
    BY <1>1, <2>2
<1>11. ASSUME NEW n \in 1..N, n - 1 \in good PROVE n \in good
  <2>1. InTurn(p, edges, placed[n - 1]) /\ n \in 0..N
    BY <1>1, <1>11
  <2>2. InTurn(p, edges, placed[n])
    BY <1>1, <1>2, <1>9, <2>1, LayerInTurn
  <2> QED
    BY <2>1, <2>2
<1>12. N \in good
  <2> HIDE DEF good
  <2>1. 0..N \subseteq good
    <3> HIDE DEF N
    <3> QED
      BY <1>1, <1>10, <1>11, Climb
  <2> QED
    BY <1>1, <2>1
<1> QED
  BY <1>8, <1>12

(* A sequence has as many elements as its length when they all differ. *)
LEMMA Counted ==
  ASSUME NEW S, NEW q \in Seq(S)
  PROVE  /\ IsFiniteSet(ToSet(q)) /\ Cardinality(ToSet(q)) <= Len(q)
         /\ Cardinality(ToSet(q)) = Len(q) <=> IsInjective(q)
<1>1. Len(q) \in Nat /\ DOMAIN q = 1..Len(q)
  OBVIOUS
<1>2. q \in Surjection(1..Len(q), ToSet(q))
  BY <1>1 DEF ToSet, Surjection
<1>3. IsFiniteSet(1..Len(q)) /\ Cardinality(1..Len(q)) = Len(q)
  BY <1>1, FS_Interval
<1>4. q \in Injection(1..Len(q), ToSet(q)) <=> IsInjective(q)
  BY <1>1, <1>2 DEF Injection, Surjection
<1> QED
  BY <1>2, <1>3, <1>4, FS_Surjection

(* The integration order has every task of the plan once, after all those  *)
(* it depends on.                                                          *)
LEMMA OrderInTurn ==
  ASSUME NEW p, NEW T, p.tasks \in Seq(T), ValidPlan(p)
  PROVE  /\ InTurn(p, p.hard \cup p.live, IntegrationOrder(p))
         /\ ToSet(IntegrationOrder(p)) = Members(p) /\ IsFiniteSet(Members(p))
         /\ Len(IntegrationOrder(p)) = Cardinality(Members(p)) /\ IsInjective(p.tasks)
<1>1. Members(p) = ToSet(p.tasks) /\ Len(p.tasks) \in Nat
  BY DEF Members, ToSet
<1>2. IsInjective(p.tasks) /\ IsFiniteSet(Members(p)) /\ Cardinality(Members(p)) = Len(p.tasks)
  BY <1>1, Counted DEF ValidPlan
<1> DEFINE q == IntegrationOrder(p)
<1>3. InTurn(p, p.hard \cup p.live, q)
  BY <1>2, LayeredInTurn DEF IntegrationOrder
<1>4. Len(q) = Len(p.tasks)
  BY DEF ValidPlan, Acyclic, IntegrationOrder
<1> HIDE DEF q
<1>5. q \in Seq(Members(p)) /\ IsInjective(q) /\ ToSet(q) \subseteq Members(p)
  BY <1>3 DEF InTurn, ToSet
<1>6. Cardinality(ToSet(q)) = Len(q)
  BY <1>5, Counted
<1>7. ToSet(q) = Members(p)
  BY <1>2, <1>4, <1>5, <1>6, FS_Subset
<1> QED
  BY <1>2, <1>3, <1>4, <1>7 DEF q

----------------------------------------------------------------------------
(* The tasks selected in a round.                                          *)

(* The selection of a round, task after task. *)
Selecting(s) ==
  s = [n \in 0..Len(plan.tasks) |->
        IF n = 0 THEN <<>>
        ELSE IF Launchable(plan.tasks[n], s[n - 1]) THEN Append(s[n - 1], plan.tasks[n])
             ELSE s[n - 1]]

(* What the tasks selected among the first n are. *)
SelectedOf(n, q) ==
  /\ q \in Seq(Members(plan)) /\ IsInjective(q)
  /\ ToSet(q) \subseteq {plan.tasks[j] : j \in 1..n}
  /\ \A t \in ToSet(q) : t \in pending \ candidates /\ results[t] = NoResult /\ HardReady(t)
  /\ ~Collide(running \cup ToSet(q))
  /\ q = <<>> \/ Cardinality(running) + Len(q) <= MaxWorkers
  /\ q = <<>> => \A j \in 1..n : ~Launchable(plan.tasks[j], <<>>)

LEMMA AppendSet ==
  ASSUME NEW S, NEW q \in Seq(S), NEW x \in S
  PROVE  /\ Append(q, x) \in Seq(S) /\ Append(q, x) # <<>>
         /\ ToSet(Append(q, x)) = ToSet(q) \cup {x}
         /\ IsInjective(q) /\ x \notin ToSet(q) => IsInjective(Append(q, x))
<1> DEFINE r == Append(q, x)
<1>1. /\ r \in Seq(S) /\ Len(r) = Len(q) + 1 /\ r[Len(q) + 1] = x /\ Len(q) \in Nat
      /\ DOMAIN q = 1..Len(q) /\ DOMAIN r = 1..(Len(q) + 1)
      /\ \A i \in 1..Len(q) : r[i] = q[i]
  OBVIOUS
<1> HIDE DEF r
<1>2. \A i \in 1..(Len(q) + 1) : i \in 1..Len(q) \/ i = Len(q) + 1
  BY <1>1
<1>3. ToSet(r) = ToSet(q) \cup {x}
  <2>1. ASSUME NEW y \in ToSet(r) PROVE y \in ToSet(q) \cup {x}
    BY <1>1, <1>2, <2>1 DEF ToSet
  <2>2. ASSUME NEW y \in ToSet(q) \cup {x} PROVE y \in ToSet(r)
    <3>1. CASE y \in ToSet(q)
      <4>1. PICK i \in 1..Len(q) : y = q[i]
        BY <1>1, <3>1 DEF ToSet
      <4>2. i \in DOMAIN r /\ r[i] = y
        BY <1>1, <4>1
      <4> QED
        BY <4>2 DEF ToSet
    <3>2. CASE y = x
      BY <1>1, <3>2 DEF ToSet
    <3> QED
      BY <2>2, <3>1, <3>2
  <2> QED
    BY <2>1, <2>2
<1>4. ASSUME IsInjective(q), x \notin ToSet(q) PROVE IsInjective(r)
  <2>1. \A i \in 1..Len(q) : r[i] # x
    BY <1>1, <1>4 DEF ToSet
  <2>2. \A i, j \in 1..Len(q) : r[i] = r[j] => i = j
    BY <1>1, <1>4 DEF IsInjective
  <2> QED
    BY <1>1, <1>2, <2>1, <2>2 DEF IsInjective
<1>5. r # <<>>
  BY <1>1
<1> QED
  BY <1>1, <1>3, <1>4, <1>5 DEF r

LEMMA SelectNext ==
  ASSUME plan.tasks \in Seq(Members(plan)), IsInjective(plan.tasks),
         NEW n \in 1..Len(plan.tasks), NEW q, SelectedOf(n - 1, q),
         Cardinality(running) \in Nat, MaxWorkers \in Nat
  PROVE  SelectedOf(n, IF Launchable(plan.tasks[n], q) THEN Append(q, plan.tasks[n]) ELSE q)
<1> DEFINE t == plan.tasks[n]
<1>1. /\ Len(plan.tasks) \in Nat /\ n \in Nat /\ t \in Members(plan)
      /\ DOMAIN plan.tasks = 1..Len(plan.tasks)
      /\ \A j \in 1..(n - 1) : j \in 1..Len(plan.tasks) /\ j \in 1..n /\ j # n
      /\ \A j \in 1..n : j = n \/ j \in 1..(n - 1)
  OBVIOUS
<1>2. q \in Seq(Members(plan)) /\ IsInjective(q) /\ Len(q) \in Nat
  BY DEF SelectedOf
<1>3. CASE ~Launchable(t, q)
  <2>1. q = <<>> => \A j \in 1..n : ~Launchable(plan.tasks[j], <<>>)
    BY <1>1, <1>3 DEF SelectedOf
  <2>2. ToSet(q) \subseteq {plan.tasks[j] : j \in 1..n}
    BY <1>1 DEF SelectedOf
  <2> QED
    BY <1>3, <2>1, <2>2 DEF SelectedOf
<1>4. CASE Launchable(t, q)
  <2>1. t \notin ToSet(q)
    <3>1. \A j \in 1..(n - 1) : plan.tasks[j] # t
      BY <1>1 DEF IsInjective
    <3> QED
      BY <3>1 DEF SelectedOf
  <2>2. /\ Append(q, t) \in Seq(Members(plan)) /\ Append(q, t) # <<>>
        /\ ToSet(Append(q, t)) = ToSet(q) \cup {t} /\ IsInjective(Append(q, t))
    BY <1>1, <1>2, <2>1, AppendSet
  <2>3. Len(Append(q, t)) = Len(q) + 1
    BY <1>1, <1>2
  <2>4. ToSet(q) \cup {t} \subseteq {plan.tasks[j] : j \in 1..n}
    BY <1>1 DEF SelectedOf
  <2>5. \A u \in ToSet(q) \cup {t} :
          u \in pending \ candidates /\ results[u] = NoResult /\ HardReady(u)
    BY <1>4 DEF SelectedOf, Launchable
  <2>6. ~Collide(running \cup (ToSet(q) \cup {t}))
    <3>1. running \cup (ToSet(q) \cup {t}) = {t} \cup running \cup ToSet(q)
      OBVIOUS
    <3> QED
      BY <1>4, <3>1 DEF Launchable
  <2>7. Cardinality(running) + (Len(q) + 1) <= MaxWorkers
    <3>1. Len(q) < MaxWorkers - Cardinality(running)
      BY <1>4 DEF Launchable
    <3> QED
      BY <1>2, <3>1
  <2> HIDE DEF t
  <2>8. SelectedOf(n, Append(q, t))
    BY <2>2, <2>3, <2>4, <2>5, <2>6, <2>7 DEF SelectedOf
  <2> QED
    BY <1>4, <2>8 DEF t
<1> QED
  BY <1>3, <1>4

(* A selection holds tasks that may run together, and is empty only when   *)
(* no task may be launched.                                                *)
LEMMA SelectionIsFit ==
  ASSUME plan.tasks \in Seq(Members(plan)), IsInjective(plan.tasks), ~Collide(running),
         Cardinality(running) \in Nat, MaxWorkers \in Nat
  PROVE  SelectedOf(Len(plan.tasks), Selection)
<1> DEFINE N == Len(plan.tasks)
           V == Seq(Members(plan))
           step == [n \in 1..N |-> [q \in V |->
                     IF Launchable(plan.tasks[n], q) THEN Append(q, plan.tasks[n]) ELSE q]]
<1>1. N \in Nat /\ <<>> \in V /\ \A n \in 1..N : plan.tasks[n] \in Members(plan)
  OBVIOUS
<1>2. ASSUME NEW n \in 1..N, NEW q \in V
      PROVE  (IF Launchable(plan.tasks[n], q) THEN Append(q, plan.tasks[n]) ELSE q) \in V
  <2>1. Append(q, plan.tasks[n]) \in V
    BY <1>1
  <2> QED
    BY <2>1
<1>3. /\ step \in [1..N -> [V -> V]]
      /\ \A n \in 1..N, q \in V :
           step[n][q] = IF Launchable(plan.tasks[n], q) THEN Append(q, plan.tasks[n]) ELSE q
  <2> HIDE DEF V
  <2> QED
    BY <1>2
<1> HIDE DEF step
<1>4. PICK f \in [0..N -> V] : StepsFrom(N, <<>>, step, f)
  <2> DEFINE first == <<>>
  <2>1. N \in Nat /\ first \in V /\ step \in [1..N -> [V -> V]]
    BY <1>1, <1>3
  <2> HIDE DEF N, V, first
  <2>2. \E f \in [0..N -> V] : StepsFrom(N, first, step, f)
    BY <2>1, Recursion
  <2> QED
    BY <2>2 DEF first
<1>5. Selecting(f)
  <2> DEFINE value(n) == IF n = 0 THEN <<>>
                 ELSE IF Launchable(plan.tasks[n], f[n - 1])
                      THEN Append(f[n - 1], plan.tasks[n]) ELSE f[n - 1]
  <2>1. ASSUME NEW n \in 0..N PROVE f[n] = value(n)
    <3>1. CASE n = 0
      BY <1>4, <3>1 DEF StepsFrom
    <3>2. CASE n # 0
      <4>1. n \in 1..N /\ n - 1 \in 0..N
        BY <1>1, <3>2
      <4>2. f[n - 1] \in V
        BY <4>1
      <4>3. f[n] = step[n][f[n - 1]]
        BY <1>4, <4>1 DEF StepsFrom
      <4>4. f[n] = IF Launchable(plan.tasks[n], f[n - 1])
                   THEN Append(f[n - 1], plan.tasks[n]) ELSE f[n - 1]
        <5> HIDE DEF V, N
        <5> QED
          BY <1>3, <4>1, <4>2, <4>3
      <4> QED
        BY <3>2, <4>4
    <3> QED
      BY <3>1, <3>2
  <2> HIDE DEF value
  <2>2. f = [n \in 0..N |-> value(n)]
    BY <2>1
  <2> QED
    BY <2>2 DEF Selecting, value
<1> DEFINE s == CHOOSE s : Selecting(s)
<1>6. Selecting(s)
  BY <1>5
<1>7. Selection = s[N]
  BY Zenon DEF Selection, Selecting
<1> HIDE DEF s
<1>8. /\ s[0] = <<>>
      /\ \A n \in 1..N : s[n] = IF Launchable(plan.tasks[n], s[n - 1])
                               THEN Append(s[n - 1], plan.tasks[n]) ELSE s[n - 1]
  <2> DEFINE value(n) == IF n = 0 THEN <<>>
                 ELSE IF Launchable(plan.tasks[n], s[n - 1])
                      THEN Append(s[n - 1], plan.tasks[n]) ELSE s[n - 1]
  <2>1. s = [n \in 0..N |-> value(n)]
    BY <1>6 DEF Selecting
  <2> HIDE DEF value
  <2>2. \A n \in 0..N : s[n] = value(n)
    BY <2>1
  <2>3. 0 \in 0..N /\ \A n \in 1..N : n \in 0..N /\ n # 0
    BY <1>1
  <2> QED
    BY <2>2, <2>3 DEF value
<1> DEFINE good == {n \in 0..N : SelectedOf(n, s[n])}
<1>9. 0 \in good
  <2>1. SelectedOf(0, <<>>)
    <3>1. <<>> \in Seq(Members(plan)) /\ ToSet(<<>>) = {} /\ IsInjective(<<>>)
      BY DEF ToSet, IsInjective
    <3>2. running \cup {} = running
      OBVIOUS
    <3>3. 1..0 = {}
      OBVIOUS
    <3> QED
      BY <3>1, <3>2, <3>3 DEF SelectedOf
  <2>2. SelectedOf(0, s[0])
    BY <1>8, <2>1, Zenon
  <2> QED
    BY <1>1, <2>2
<1>10. ASSUME NEW n \in 1..N, n - 1 \in good PROVE n \in good
  <2>1. SelectedOf(n - 1, s[n - 1]) /\ n \in 0..N
    BY <1>1, <1>10
  <2>2. SelectedOf(n, s[n])
    BY <1>1, <1>8, <2>1, SelectNext
  <2> QED
    BY <2>1, <2>2
<1>11. N \in good
  <2> HIDE DEF good
  <2>1. 0..N \subseteq good
    <3> HIDE DEF N
    <3> QED
      BY <1>1, <1>9, <1>10, Climb
  <2> QED
    BY <1>1, <2>1
<1> QED
  BY <1>7, <1>11

----------------------------------------------------------------------------
(* In-order integration: what is merged and what is saved.                 *)

Ranked == {Order[i] : i \in 1..Len(Order)}

(* The tasks merged, in memory and on disk, are tasks of the plan; what    *)
(* the coordinator has goes beyond what it saved, and only a coordinator   *)
(* at work has anything.                                                   *)
MergedOK ==
  /\ plan \in Plans
  /\ merged \in Seq(Ranked) /\ checkpoint.merged \in Seq(Ranked)
  /\ Len(merged) <= Len(Order)
  /\ Alive => /\ Len(checkpoint.merged) <= Len(merged)
              /\ checkpoint.merged = SubSeq(merged, 1, Len(checkpoint.merged))
  /\ Len(checkpoint.merged) <= Len(Order)
  /\ pc = "off" => merged = <<>> /\ checkpoint.merged = <<>>

(* What is about to be applied is the next task in the order. *)
ApplyOK == pc = "apply" => Len(merged) < Len(Order) /\ deciding = Order[Len(merged) + 1]

(* The decision is taken after the last task and saved after it is taken. *)
StatusOK ==
  /\ pc \in Points
  /\ pc \notin {"close", "report", "done"} => status = "none"
  /\ pc \in {"close", "report", "done"} => status \in Statuses \ {"none", "running"}
  /\ Alive => IF pc \in {"report", "done"} THEN checkpoint.status = status
                                           ELSE checkpoint.status \in {"none", "running"}
  /\ pc = "off" => checkpoint.status = "none"

IInv == MergedOK /\ ApplyOK /\ StatusOK

----------------------------------------------------------------------------
(* The integration order has every task of the plan once. *)
LEMMA OrderFacts ==
  ASSUME NEW p \in Plans
  PROVE  /\ Len(OrderOf[p]) = Len(p.tasks) /\ Len(OrderOf[p]) \in Nat
         /\ Cardinality(Members(p)) = Len(p.tasks)
<1>1. ValidPlan(p)
  BY PlansAssumption
<1> QED
  BY <1>1 DEF ValidPlan, Acyclic, IntegrationOrder, OrderOf

(* A sequence has no more different elements than its length. *)
LEMMA FewerElements ==
  ASSUME NEW S, NEW q \in Seq(S)
  PROVE  Cardinality(ToSet(q)) <= Len(q)
<1>1. Len(q) \in Nat /\ DOMAIN q = 1..Len(q)
  OBVIOUS
<1>2. q \in Surjection(1..Len(q), ToSet(q))
  BY <1>1 DEF ToSet, Surjection
<1> QED
  BY <1>1, <1>2, FS_SurjCardinalityBound DEF ExistsSurjection

LEMMA InitIInv == Init => IInv
<1> SUFFICES ASSUME Init PROVE IInv
  OBVIOUS
<1>1. plan \in Plans /\ merged = <<>> /\ checkpoint.merged = <<>> /\ checkpoint.status = "none"
      /\ pc = "off" /\ status = "none"
  BY DEF Init, EmptyState, NoCheckpoint
<1>2. Len(Order) \in Nat
  BY <1>1, OrderFacts DEF Order
<1> QED
  BY <1>1, <1>2 DEF IInv, MergedOK, ApplyOK, StatusOK, Alive, Points

(* A step that touches neither the merged tasks nor the checkpoint. *)
LEMMA QuietStep ==
  ASSUME IInv, UNCHANGED <<plan, merged, checkpoint, status>>, Alive' = Alive,
         pc' \in Points, pc' = "off" => pc = "off",
         pc' \in {"close", "report", "done"} <=> pc \in {"close", "report", "done"},
         pc' \in {"report", "done"} <=> pc \in {"report", "done"},
         ApplyOK'
  PROVE  IInv'
<1>1. MergedOK'
  BY DEF IInv, MergedOK, Order, Ranked
<1>2. StatusOK'
  BY DEF IInv, StatusOK
<1> QED
  BY <1>1, <1>2 DEF IInv

----------------------------------------------------------------------------
(* What a step is to the abstract specification. *)
Tracks == [InOrder!Next]_(InOrder!integrationVars)

LEMMA QuietTracks ==
  ASSUME UNCHANGED <<plan, merged, checkpoint, status>>, Alive' = Alive
  PROVE  Tracks
BY DEF Tracks, InOrder!integrationVars, Order, Trusted, Decided

(* The steps between two moves of the prefix: schedule, collect, wait. *)
LEMMA SchedulingSteps ==
  ASSUME IInv,
         \/ SelectReady \/ LeaveLoop \/ LaunchNext \/ CollectDone \/ AdvanceDone \/ Wait
         \/ WriteSummary \/ CleanTree \/ Coordinate \/ Stopped
         \/ \E t \in Tasks : FinishWorker(t)
  PROVE  IInv' /\ Tracks
<1>1. /\ UNCHANGED <<plan, merged, checkpoint, status>>
      /\ \/ pc' = pc /\ deciding' = deciding
         \/ pc' # "apply"
      /\ \/ pc' = pc
         \/ pc = "report" /\ pc' = "done"
         \/ pc \in {"loop", "launch", "gather", "wait"}
            /\ pc' \in {"launch", "gather", "save", "wait", "loop", "settle"}
  <2>1. CASE SelectReady
    BY <2>1 DEF SelectReady, stateVars
  <2>2. CASE LeaveLoop
    BY <2>2 DEF LeaveLoop, stateVars
  <2>3. CASE LaunchNext
    BY <2>3 DEF LaunchNext
  <2>4. CASE CollectDone
    BY <2>4 DEF CollectDone, stateVars
  <2>5. CASE AdvanceDone
    BY <2>5 DEF AdvanceDone, stateVars
  <2>6. CASE Wait
    BY <2>6 DEF Wait, stateVars
  <2>7. CASE WriteSummary
    BY <2>7 DEF WriteSummary, stateVars
  <2>8. CASE CleanTree
    BY <2>8 DEF CleanTree, stateVars, controlVars
  <2>9. CASE Coordinate
    BY <2>9 DEF Coordinate, stateVars, controlVars
  <2>10. CASE Stopped
    BY <2>10 DEF Stopped, vars, stateVars, controlVars
  <2>11. CASE \E t \in Tasks : FinishWorker(t)
    BY <2>11 DEF FinishWorker, controlVars
  <2> QED
    BY <2>1, <2>2, <2>3, <2>4, <2>5, <2>6, <2>7, <2>8, <2>9, <2>10, <2>11
<1>2. pc \in Points
  BY DEF IInv, StatusOK
<1>3. Alive' = Alive /\ pc' \in Points /\ (pc' = "off" => pc = "off")
  BY <1>1, <1>2 DEF Alive, Points
<1>4. /\ pc' \in {"close", "report", "done"} <=> pc \in {"close", "report", "done"}
      /\ pc' = pc \/ (pc = "report" /\ pc' = "done")
         \/ (pc \notin {"close", "report", "done"} /\ pc' \notin {"close", "report", "done"})
  BY <1>1
<1>5. pc' \in {"report", "done"} <=> pc \in {"report", "done"}
  BY <1>4
<1>6. ApplyOK'
  BY <1>1 DEF IInv, ApplyOK, Order
<1> QED
  BY <1>1, <1>3, <1>4, <1>5, <1>6, QuietStep, QuietTracks

LEMMA StartStep == ASSUME IInv, Start PROVE IInv' /\ Tracks
<1>1. /\ UNCHANGED <<plan, merged, checkpoint, status>>
      /\ pc = "off" /\ pc' = "save"
  BY DEF Start, stateVars
<1>2. /\ plan \in Plans /\ merged = <<>> /\ checkpoint.merged = <<>>
      /\ checkpoint.status = "none" /\ status = "none"
  BY <1>1 DEF IInv, MergedOK, StatusOK
<1>3. IInv'
  BY <1>1, <1>2 DEF IInv, MergedOK, ApplyOK, StatusOK, Alive, Points, Order, Ranked
<1>4. Tracks
  BY <1>1, <1>2 DEF Tracks, InOrder!integrationVars, Order, Trusted, Decided, Alive
<1> QED
  BY <1>3, <1>4

(* A candidate is never applied out of turn: the others are kept for later. *)
LEMMA IntegrateInTurn ==
  ASSUME NEW t, IntegrateCandidate(t)
  PROVE  /\ merged' = merged
         /\ \/ pc' = "gather"
            \/ pc' = "apply" /\ deciding' = t
               /\ Len(merged) < Len(Order) /\ t = Order[Len(merged) + 1]
<1>1. ~Deferred(t) => Len(merged) < Len(Order) /\ t = Order[Len(merged) + 1]
  BY DEF Deferred, Frontier
<1> QED
  BY <1>1 DEF IntegrateCandidate, RejectCandidate, KeepCandidate

LEMMA CandidateSteps ==
  ASSUME IInv, GatherNext \/ Advance
  PROVE  IInv' /\ Tracks
<1>1. /\ UNCHANGED <<plan, merged, checkpoint, status>>
      /\ pc = "gather"
      /\ \/ pc' = "gather"
         \/ pc' = "apply" /\ Len(merged) < Len(Order) /\ deciding' = Order[Len(merged) + 1]
  <2>1. CASE Advance
    BY <2>1, IntegrateInTurn DEF Advance
  <2>2. CASE GatherNext
    <3>1. UNCHANGED <<plan, checkpoint, status>> /\ pc = "gather"
      BY <2>2 DEF GatherNext
    <3>2. IntegrateCandidate(Head(todo)) \/ UNCHANGED <<merged, deciding, pc>>
      BY <2>2 DEF GatherNext
    <3> QED
      BY <3>1, <3>2, IntegrateInTurn
  <2> QED
    BY <2>1, <2>2
<1>2. Alive' = Alive /\ ApplyOK' /\ pc' \in Points
  BY <1>1 DEF Alive, Points, ApplyOK, Order
<1> QED
  BY <1>1, <1>2, QuietStep, QuietTracks

LEMMA ApplyFailsStep == ASSUME IInv, ApplyFails PROVE IInv' /\ Tracks
<1>1. UNCHANGED <<plan, merged, checkpoint, status>> /\ pc = "apply" /\ pc' = "gather"
  BY DEF ApplyFails
<1>2. Alive' = Alive /\ ApplyOK' /\ pc' \in Points
  BY <1>1 DEF Alive, Points, ApplyOK
<1> QED
  BY <1>1, <1>2, QuietStep, QuietTracks

(* Appending keeps what was there. *)
LEMMA AppendKeeps ==
  ASSUME NEW S, NEW q \in Seq(S), NEW x \in S
  PROVE  /\ Append(q, x) \in Seq(S) /\ Len(Append(q, x)) = Len(q) + 1
         /\ \A n \in 0..Len(q) : SubSeq(Append(q, x), 1, n) = SubSeq(q, 1, n)
<1>1. Append(q, x) \in Seq(S) /\ Len(Append(q, x)) = Len(q) + 1 /\ Len(q) \in Nat
  OBVIOUS
<1>2. ASSUME NEW n \in 0..Len(q)
      PROVE  SubSeq(Append(q, x), 1, n) = SubSeq(q, 1, n)
  <2>1. \A i \in 1..n : Append(q, x)[i] = q[i]
    BY <1>1
  <2> QED
    BY <1>1, <2>1
<1> QED
  BY <1>1, <1>2

LEMMA ApplySucceedsStep == ASSUME IInv, ApplySucceeds PROVE IInv' /\ Tracks
<1>1. /\ UNCHANGED <<plan, checkpoint, status>> /\ pc = "apply" /\ pc' = "gather"
      /\ merged' = Append(merged, deciding)
  BY DEF ApplySucceeds
<1>2. /\ plan \in Plans /\ merged \in Seq(Ranked) /\ checkpoint.merged \in Seq(Ranked)
      /\ Len(merged) < Len(Order) /\ deciding = Order[Len(merged) + 1]
      /\ status = "none" /\ checkpoint.status \in {"none", "running"}
      /\ Len(checkpoint.merged) <= Len(merged)
      /\ checkpoint.merged = SubSeq(merged, 1, Len(checkpoint.merged))
      /\ Len(checkpoint.merged) <= Len(Order)
  BY <1>1 DEF IInv, MergedOK, ApplyOK, StatusOK, Alive
<1>3. Len(Order) \in Nat /\ Len(merged) \in Nat /\ Len(checkpoint.merged) \in Nat
  BY <1>2, OrderFacts DEF Order
<1>4. deciding \in Ranked
  BY <1>2, <1>3 DEF Ranked
<1>5. /\ merged' \in Seq(Ranked) /\ Len(merged') = Len(merged) + 1
      /\ SubSeq(merged', 1, Len(checkpoint.merged)) = checkpoint.merged
  BY <1>1, <1>2, <1>3, <1>4, AppendKeeps
<1>6. Ranked' = Ranked /\ Order' = Order
  BY <1>1 DEF Ranked, Order
<1>7. MergedOK'
  BY <1>1, <1>2, <1>3, <1>5, <1>6 DEF MergedOK
<1>8. ApplyOK' /\ StatusOK'
  BY <1>1, <1>2 DEF ApplyOK, StatusOK, Points, Alive
<1>9. InOrder!Trust
  BY <1>1, <1>2, <1>6 DEF InOrder!Trust, Trusted, Decided, Alive
<1> QED
  BY <1>7, <1>8, <1>9 DEF IInv, Tracks, InOrder!Next

(* Both snapshots hold the whole prefix. *)
LEMMA SnapshotSteps ==
  ASSUME IInv, SaveCheckpoint \/ SaveOutcome
  PROVE  IInv' /\ Tracks
<1>1. /\ UNCHANGED <<plan, merged, status>>
      /\ checkpoint'.merged = merged
      /\ \/ pc = "save" /\ pc' = "loop" /\ checkpoint'.status = "running"
         \/ pc = "close" /\ pc' = "report" /\ checkpoint'.status = status
  BY DEF SaveCheckpoint, SaveOutcome, Snapshot, stateVars
<1>2. /\ plan \in Plans /\ merged \in Seq(Ranked) /\ Len(merged) <= Len(Order)
      /\ Ranked' = Ranked /\ Order' = Order
  BY <1>1 DEF IInv, MergedOK, Ranked, Order
<1>3. Len(merged) \in Nat /\ merged = SubSeq(merged, 1, Len(merged))
  BY <1>2
<1>4. MergedOK'
  BY <1>1, <1>2, <1>3 DEF MergedOK
<1>5. ApplyOK' /\ StatusOK'
  BY <1>1 DEF IInv, ApplyOK, StatusOK, Points
<1>6. InOrder!Save
  BY <1>1, <1>2 DEF InOrder!Save, Trusted, Decided, Alive
<1> QED
  BY <1>4, <1>5, <1>6 DEF IInv, Tracks, InOrder!Next

(* Success is decided only when every task of the plan is merged, and then *)
(* the prefix is the whole order.                                          *)
LEMMA SettleStep == ASSUME IInv, Settle PROVE IInv' /\ Tracks
<1>1. /\ UNCHANGED <<plan, merged, checkpoint>> /\ pc = "settle" /\ pc' = "close"
      /\ status' \in Statuses \ {"none", "running"}
      /\ status' = "passed" => Merged = Members(plan)
  <2>1. UNCHANGED <<plan, merged, checkpoint>> /\ pc = "settle" /\ pc' = "close"
    BY DEF Settle
  <2>2. CASE Merged = Members(plan)
    <3>1. PICK claim \in {"passed", "blocked", "needs_revision"}, doubt \in BOOLEAN,
               broken \in BOOLEAN : status' = FinalDecision(claim, doubt, broken)
      BY <2>2 DEF Settle
    <3>2. status' \in {"passed", "blocked", "needs_revision"}
      BY <3>1 DEF FinalDecision
    <3> QED
      BY <2>1, <2>2, <3>2 DEF Statuses
  <2>3. CASE Merged # Members(plan)
    <3>1. status' \in {"conflict_resolution_required", "partial_failure"}
      BY <2>3 DEF Settle
    <3> QED
      BY <2>1, <3>1 DEF Statuses
  <2> QED
    BY <2>2, <2>3
<1>2. /\ plan \in Plans /\ merged \in Seq(Ranked) /\ Len(merged) <= Len(Order)
      /\ status = "none" /\ checkpoint.status \in {"none", "running"}
  BY <1>1 DEF IInv, MergedOK, StatusOK, Alive
<1>3. Ranked' = Ranked /\ Order' = Order
  BY <1>1 DEF Ranked, Order
<1>4. MergedOK' /\ ApplyOK' /\ StatusOK'
  BY <1>1, <1>2, <1>3 DEF IInv, MergedOK, ApplyOK, StatusOK, Points, Alive
<1>5. status' = "passed" => Len(merged) = Len(Order)
  <2>1. Cardinality(Merged) <= Len(merged) /\ Len(merged) \in Nat
    BY <1>2, FewerElements DEF Merged
  <2>2. Len(Order) \in Nat /\ Cardinality(Members(plan)) = Len(Order)
    BY <1>2, OrderFacts DEF Order
  <2> QED
    BY <1>1, <1>2, <2>1, <2>2
<1>6. InOrder!Decide(status')
  BY <1>1, <1>2, <1>3, <1>5 DEF InOrder!Decide, Trusted, Decided, Alive
<1> QED
  BY <1>1, <1>4, <1>6 DEF IInv, Tracks, InOrder!Next

(* A crash leaves the prefix that the checkpoint holds, and the decision   *)
(* only if it was saved.                                                   *)
LEMMA CrashStep == ASSUME IInv, Crash PROVE IInv' /\ Tracks
<1>1. /\ UNCHANGED <<plan, checkpoint>> /\ pc \notin {"off", "done", "down"}
      /\ pc' = "down" /\ merged' = <<>> /\ status' = "none"
  BY DEF Crash
<1>2. /\ plan \in Plans /\ checkpoint.merged \in Seq(Ranked)
      /\ Len(checkpoint.merged) <= Len(Order)
      /\ checkpoint.merged = SubSeq(merged, 1, Len(checkpoint.merged))
  BY <1>1 DEF IInv, MergedOK, Alive
<1>3. Ranked' = Ranked /\ Order' = Order /\ Len(Order) \in Nat
  BY <1>1, <1>2, OrderFacts DEF Ranked, Order
<1>4. MergedOK' /\ ApplyOK' /\ StatusOK'
  BY <1>1, <1>2, <1>3 DEF MergedOK, ApplyOK, StatusOK, Points, Alive
<1>5. Decided' \in {Decided, "open"}
  BY <1>1 DEF IInv, StatusOK, Decided, Alive
<1>6. InOrder!Crash
  BY <1>1, <1>2, <1>3, <1>5 DEF InOrder!Crash, Trusted, Alive
<1> QED
  BY <1>4, <1>6 DEF IInv, Tracks, InOrder!Next

(* A resume takes up exactly the saved prefix, of a run not yet decided. *)
LEMMA ResumeStep == ASSUME IInv, Resume PROVE IInv' /\ Tracks
<1>1. /\ UNCHANGED <<plan, checkpoint, status>> /\ pc = "down" /\ pc' = "save"
      /\ merged' = checkpoint.merged /\ checkpoint.status = "running"
  BY DEF Resume, Resumable, Restore
<1>2. /\ plan \in Plans /\ checkpoint.merged \in Seq(Ranked)
      /\ Len(checkpoint.merged) <= Len(Order) /\ status = "none"
      /\ Ranked' = Ranked /\ Order' = Order
  BY <1>1 DEF IInv, MergedOK, StatusOK, Ranked, Order
<1>3. /\ Len(checkpoint.merged) \in Nat
      /\ checkpoint.merged = SubSeq(checkpoint.merged, 1, Len(checkpoint.merged))
  BY <1>2
<1>4. MergedOK'
  BY <1>1, <1>2, <1>3 DEF MergedOK
<1>5. ApplyOK' /\ StatusOK'
  BY <1>1, <1>2 DEF ApplyOK, StatusOK, Points, Alive
<1>6. Tracks
  BY <1>1, <1>2 DEF Tracks, InOrder!integrationVars, Trusted, Decided, Alive
<1> QED
  BY <1>4, <1>5, <1>6 DEF IInv

LEMMA NextStep ==
  ASSUME IInv, [Next]_vars
  PROVE  IInv' /\ Tracks
<1>1. CASE UNCHANGED vars
  <2>1. /\ UNCHANGED <<plan, merged, checkpoint, status, pc, deciding>>
    BY <1>1 DEF vars, stateVars, controlVars
  <2>2. ApplyOK' /\ Alive' = Alive /\ pc' \in Points
    BY <2>1 DEF IInv, ApplyOK, StatusOK, Alive, Order
  <2> QED
    BY <2>1, <2>2, QuietStep, QuietTracks
<1> QED
  BY <1>1, SchedulingSteps, StartStep, CandidateSteps, ApplyFailsStep, ApplySucceedsStep,
     SnapshotSteps, SettleStep, CrashStep, ResumeStep DEF Next, Coordinator

(* The fanout implements in-order integration: tasks are integrated one by *)
(* one in the plan's order whatever order their workers end in, a crash    *)
(* leaves the saved prefix and a resume continues it, and "passed" means   *)
(* that every task is in (FanoutCoordinator).                              *)
THEOREM ImplementsIntegration == Spec => ImplementsInOrder
<1>1. Init => InOrder!Init
  <2> SUFFICES ASSUME Init PROVE InOrder!Init
    OBVIOUS
  <2>1. plan \in Plans /\ pc = "off" /\ checkpoint.merged = <<>> /\ checkpoint.status = "none"
    BY DEF Init, NoCheckpoint
  <2> QED
    BY <2>1 DEF InOrder!Init, Trusted, Decided, Alive, Order
<1>2. IInv /\ [Next]_vars => IInv' /\ [InOrder!Next]_(InOrder!integrationVars)
  BY NextStep DEF Tracks
<1> QED
  BY <1>1, <1>2, InitIInv, PTL DEF Spec, ImplementsInOrder, InOrder!Spec

----------------------------------------------------------------------------
(* The state of the coordinator: where every task is, what is recorded of  *)
(* it, and what the integration workspace holds.                           *)

(* The types of everything but the handoff. *)
CoordinatorTypeOK ==
  /\ plan \in Plans
  /\ pc \in Points
  /\ todo \in Seq(Tasks) /\ progress \in BOOLEAN
  /\ deciding \in Tasks \cup {NoTask}
  /\ pending \subseteq Tasks /\ running \subseteq Tasks /\ candidates \subseteq Tasks
  /\ count \in [Tasks -> Attempts]
  /\ history \subseteq Records
  /\ outcome \in [Tasks -> WorkerOutcomes]
  /\ base \in [Tasks -> SUBSET Tasks]
  /\ results \in [Tasks -> Results]
  /\ merged \in Seq(Tasks) /\ tree \in Seq(Tasks)
  /\ status \in Statuses
  /\ checkpoint \in Checkpoints
  /\ crashes \in 0..MaxCrashes

(* Every task is in one place at most. *)
Apart ==
  /\ pending \subseteq Members(plan) /\ running \subseteq Members(plan)
  /\ candidates \subseteq Members(plan) /\ Merged \subseteq Members(plan)
  /\ pending \cap running = {} /\ candidates \cap (pending \cup running) = {}
  /\ Merged \cap (pending \cup running \cup candidates) = {}

(* What may still be launched was launched once at most, all else at least *)
(* once.                                                                   *)
Counts ==
  /\ \A t \in pending : count[t] # 2
  /\ \A t \in Members(plan) \ pending : count[t] # 0

(* One record of each attempt that has ended, and of no other. *)
Histories ==
  /\ \A r \in history : /\ r.task \in Members(plan) /\ r.attempt <= count[r.task]
                        /\ r.task \in running => r.attempt < count[r.task]
  /\ \A r, s \in history : r.task = s.task /\ r.attempt = s.attempt => r = s

SoundRecord(t) == [task |-> t, attempt |-> count[t], outcome |-> "sound"]

(* A candidate or a merged task has the record of its last attempt. *)
CandidatesSound == \A t \in candidates : outcome[t] = "sound" /\ SoundRecord(t) \in history
MergedSound ==
  \A t \in Merged : /\ results[t].status = "integrated" /\ results[t].final = count[t]
                    /\ SoundRecord(t) \in history

(* What is left to launch may run together with what runs; what is left to *)
(* collect has ended.                                                      *)
Todos ==
  /\ pc = "launch" =>
       /\ ToSet(todo) \subseteq pending /\ IsInjective(todo)
       /\ \A t \in ToSet(todo) : HardReady(t)
       /\ ~Collide(running \cup ToSet(todo))
       /\ todo # <<>> => Cardinality(running) + Len(todo) <= MaxWorkers
  /\ pc \in {"gather", "apply"} =>
       /\ ToSet(todo) \subseteq running /\ IsInjective(todo)
       /\ \A t \in ToSet(todo) : outcome[t] # "working"

(* The saved result of a merged task is that of its last saved attempt. *)
SavedResultsLast ==
  checkpoint.status = "running" =>
    \A t \in ToSet(checkpoint.merged), r \in checkpoint.history :
      r.task = t => r.attempt <= checkpoint.results[t].final

DecidingWaits == pc = "apply" => deciding \in candidates
Idle == pc \in {"off", "down"} => EmptyState
TreeFollows == TreeIsMerged /\ (pc = "off" => tree = <<>>)

CInv ==
  /\ CoordinatorTypeOK /\ Apart /\ Counts /\ Histories /\ CandidatesSound /\ MergedSound
  /\ Todos /\ DecidingWaits /\ Idle /\ WorkersIsolated /\ TreeFollows /\ CheckpointResumable
  /\ SavedResultsLast

----------------------------------------------------------------------------
LEMMA PlanFacts ==
  ASSUME plan \in Plans
  PROVE  /\ Members(plan) \subseteq Tasks /\ IsFiniteSet(Members(plan))
         /\ plan.tasks \in Seq(Members(plan)) /\ IsInjective(plan.tasks)
         /\ InTurn(plan, plan.hard \cup plan.live, Order)
         /\ ToSet(Order) = Members(plan) /\ Len(Order) = Cardinality(Members(plan))
         /\ Order \in Seq(Members(plan)) /\ Len(Order) \in Nat /\ IsInjective(Order)
         /\ \A e \in plan.hard \cup plan.live :
              e \in Edges /\ e[1] \in Members(plan) /\ e[2] \in Members(plan)
         /\ MaxWorkers \in Nat /\ MaxWorkers >= 1
<1>1. /\ plan.tasks \in Seq(Tasks) /\ plan.hard \cup plan.live \subseteq Edges
      /\ ValidPlan(plan)
  BY PlansAssumption
<1>2. Order = IntegrationOrder(plan)
  BY DEF Order, OrderOf
<1>3. /\ InTurn(plan, plan.hard \cup plan.live, Order) /\ ToSet(Order) = Members(plan)
      /\ IsFiniteSet(Members(plan)) /\ Len(Order) = Cardinality(Members(plan))
      /\ IsInjective(plan.tasks)
  BY <1>1, <1>2, OrderInTurn
<1>4. Order \in Seq(Members(plan)) /\ IsInjective(Order)
  BY <1>3 DEF InTurn
<1>5. Members(plan) = ToSet(plan.tasks)
  BY DEF Members, ToSet
<1>6. Members(plan) \subseteq Tasks /\ plan.tasks \in Seq(Members(plan))
  BY <1>1, <1>5 DEF ToSet
<1>7. \A e \in plan.hard \cup plan.live :
        e \in Edges /\ e[1] \in Members(plan) /\ e[2] \in Members(plan)
  BY <1>1 DEF ValidPlan
<1>8. MaxWorkers \in Nat /\ MaxWorkers >= 1
  BY BoundsAssumption
<1> QED
  BY <1>3, <1>4, <1>6, <1>7, <1>8

LEMMA HeadAndTail ==
  ASSUME NEW S, NEW q \in Seq(S), q # <<>>
  PROVE  /\ Head(q) \in S /\ Head(q) \in ToSet(q) /\ Tail(q) \in Seq(S)
         /\ ToSet(Tail(q)) \subseteq ToSet(q) /\ Len(Tail(q)) = Len(q) - 1 /\ Len(q) \in Nat
         /\ ToSet(q) = {Head(q)} \cup ToSet(Tail(q))
         /\ IsInjective(q) => Head(q) \notin ToSet(Tail(q)) /\ IsInjective(Tail(q))
<1>1. /\ Len(q) \in Nat \ {0} /\ Head(q) = q[1] /\ Tail(q) \in Seq(S)
      /\ Len(Tail(q)) = Len(q) - 1 /\ DOMAIN q = 1..Len(q) /\ DOMAIN Tail(q) = 1..(Len(q) - 1)
      /\ \A i \in 1..(Len(q) - 1) : Tail(q)[i] = q[i + 1]
  OBVIOUS
<1> DEFINE rest == Tail(q)
<1> HIDE DEF rest
<1>2. Head(q) \in S /\ Head(q) \in ToSet(q)
  BY <1>1 DEF ToSet
<1>3. \A i \in 1..(Len(q) - 1) : rest[i] \in ToSet(q)
  BY <1>1 DEF ToSet, rest
<1>4. ToSet(rest) \subseteq ToSet(q)
  BY <1>1, <1>3 DEF ToSet, rest
<1>5. ASSUME NEW x \in ToSet(q) PROVE x \in {Head(q)} \cup ToSet(rest)
  <2>1. PICK i \in 1..Len(q) : x = q[i]
    BY <1>1 DEF ToSet
  <2>2. CASE i # 1
    <3>1. i - 1 \in DOMAIN rest /\ rest[i - 1] = q[i]
      BY <1>1, <2>2 DEF rest
    <3> QED
      BY <2>1, <3>1 DEF ToSet
  <2> QED
    BY <1>1, <2>1, <2>2
<1>6. ASSUME IsInjective(q) PROVE Head(q) \notin ToSet(rest) /\ IsInjective(rest)
  <2>1. \A i \in DOMAIN rest : rest[i] # q[1]
    BY <1>1, <1>6 DEF IsInjective, rest
  <2>2. ASSUME NEW i \in DOMAIN rest, NEW j \in DOMAIN rest, rest[i] = rest[j] PROVE i = j
    <3>1. i + 1 = j + 1
      BY <1>1, <1>6, <2>2 DEF IsInjective, rest
    <3> QED
      BY <1>1, <3>1 DEF rest
  <2> QED
    BY <1>1, <2>1, <2>2 DEF ToSet, IsInjective
<1> QED
  BY <1>1, <1>2, <1>4, <1>5, <1>6 DEF rest

(* What a step leaves that moves no task. *)
StateParts == Apart /\ Counts /\ Histories /\ CandidatesSound /\ MergedSound /\ WorkersIsolated

LEMMA StateStays ==
  ASSUME StateParts, UNCHANGED <<plan, stateVars>>
  PROVE  StateParts'
<1> USE DEF StateParts, stateVars
<1>1. Apart' /\ Counts'
  BY DEF Apart, Counts, Merged
<1>2. Histories' /\ CandidatesSound' /\ MergedSound'
  BY DEF Histories, CandidatesSound, MergedSound, SoundRecord, Merged
<1>3. WorkersIsolated'
  BY DEF WorkersIsolated, Collide
<1> QED
  BY <1>1, <1>2, <1>3

LEMMA SavedStays ==
  ASSUME CheckpointResumable, SavedResultsLast, UNCHANGED <<plan, checkpoint>>
  PROVE  CheckpointResumable' /\ SavedResultsLast'
BY DEF CheckpointResumable, SavedResultsLast, Resumable, Order, CanonicalRecords

LEMMA TreeStays ==
  ASSUME TreeFollows, Alive' = Alive, pc' = "off" => pc = "off",
         UNCHANGED <<plan, merged, tree>>
  PROVE  TreeFollows'
BY DEF TreeFollows, TreeIsMerged, Patches, Writes

(* The parts about the types, taken together. *)
LEMMA TypeFacts ==
  ASSUME CInv
  PROVE  /\ plan \in Plans /\ Members(plan) \subseteq Tasks
         /\ IsFiniteSet(running) /\ Cardinality(running) \in Nat /\ MaxWorkers \in Nat
         /\ todo \in Seq(Tasks) /\ count \in [Tasks -> Attempts]
         /\ outcome \in [Tasks -> WorkerOutcomes] /\ results \in [Tasks -> Results]
         /\ merged \in Seq(Tasks)
<1>1. plan \in Plans /\ running \subseteq Members(plan)
  BY DEF CInv, CoordinatorTypeOK, Apart
<1>2. IsFiniteSet(Members(plan)) /\ Members(plan) \subseteq Tasks /\ MaxWorkers \in Nat
  BY <1>1, PlanFacts
<1>3. IsFiniteSet(running) /\ Cardinality(running) \in Nat
  BY <1>1, <1>2, FS_Subset, FS_CardinalityType
<1> QED
  BY <1>1, <1>2, <1>3 DEF CInv, CoordinatorTypeOK

(* Steps that move neither tasks nor the tree, nor save anything. *)
LEMMA ControlStep ==
  ASSUME CInv, UNCHANGED <<plan, stateVars, tree, checkpoint, crashes>>,
         pc' \in Points \ {"off", "down", "apply"}, pc # "down",
         progress' \in BOOLEAN, UNCHANGED <<deciding, status>>, todo' \in Seq(Tasks), Todos',
         pc = "off" => merged = <<>>
  PROVE  CInv'
<1>1. StateParts'
  BY StateStays DEF CInv, StateParts
<1>2. CoordinatorTypeOK'
  BY DEF CInv, CoordinatorTypeOK, stateVars
<1>3. CheckpointResumable' /\ SavedResultsLast'
  BY SavedStays DEF CInv
<1>4. DecidingWaits' /\ Idle'
  BY DEF DecidingWaits, Idle
<1>5. TreeFollows'
  <2>1. tree = Patches(merged)
    <3>1. CASE pc = "off"
      BY <3>1, KeptEmpty, Zenon DEF CInv, TreeFollows, Patches
    <3>2. CASE pc # "off"
      BY <3>2 DEF CInv, TreeFollows, TreeIsMerged, Alive
    <3> QED
      BY <3>1, <3>2
  <2> QED
    BY <2>1 DEF TreeFollows, TreeIsMerged, Patches, Writes, stateVars
<1> QED
  BY <1>1, <1>2, <1>3, <1>4, <1>5 DEF CInv, StateParts

LEMMA StartKeeps == ASSUME IInv, CInv, Start PROVE CInv'
<1>1. merged = <<>>
  BY DEF IInv, MergedOK, Start
<1>2. Todos' /\ pc' \in Points \ {"off", "down", "apply"}
  BY DEF Start, Todos, Points
<1> QED
  BY <1>1, <1>2, ControlStep, TypeFacts DEF Start, stateVars, CInv, CoordinatorTypeOK

LEMMA SelectKeeps == ASSUME CInv, SelectReady PROVE CInv'
<1>1. /\ UNCHANGED <<plan, stateVars, tree, checkpoint, crashes, deciding, status>>
      /\ pc = "loop" /\ pc' = "launch" /\ progress' \in BOOLEAN
      /\ todo' = (IF FrontierTerminal THEN <<>> ELSE Selection)
  BY DEF SelectReady
<1>2. /\ plan.tasks \in Seq(Members(plan)) /\ IsInjective(plan.tasks)
      /\ ~Collide(running) /\ Cardinality(running) \in Nat /\ MaxWorkers \in Nat
      /\ Members(plan) \subseteq Tasks
  BY TypeFacts, PlanFacts DEF CInv, WorkersIsolated
<1>3. SelectedOf(Len(plan.tasks), Selection)
  BY <1>2, SelectionIsFit
<1>4. CASE FrontierTerminal
  <2>1. todo' = <<>>
    BY <1>1, <1>4
  <2>2. /\ ToSet(<<>>) = {} /\ IsInjective(<<>>) /\ <<>> \in Seq(Tasks)
        /\ running \cup {} = running
    BY DEF ToSet, IsInjective
  <2>3. ~Collide(running \cup ToSet(todo'))
    BY <1>2, <2>1, <2>2
  <2>4. Todos'
    BY <1>1, <2>1, <2>2, <2>3 DEF Todos, Collide, stateVars
  <2> QED
    BY <1>1, <2>1, <2>2, <2>4, ControlStep DEF Points
<1>5. CASE ~FrontierTerminal
  <2>1. todo' = Selection
    BY <1>1, <1>5
  <2>2. /\ todo' \in Seq(Members(plan)) /\ IsInjective(todo')
        /\ \A t \in ToSet(todo') : t \in pending /\ HardReady(t)
        /\ ~Collide(running \cup ToSet(todo'))
        /\ todo' # <<>> => Cardinality(running) + Len(todo') <= MaxWorkers
    BY <1>3, <2>1 DEF SelectedOf
  <2>3. todo' \in Seq(Tasks)
    BY <1>2, <2>2
  <2>4. Todos'
    BY <1>1, <2>2 DEF Todos, Collide, stateVars, HardReady, Merged
  <2> QED
    BY <1>1, <2>3, <2>4, ControlStep DEF Points
<1> QED
  BY <1>4, <1>5

LEMMA CollectKeeps == ASSUME CInv, CollectDone PROVE CInv'
<1>1. /\ UNCHANGED <<plan, stateVars, tree, checkpoint, crashes, deciding, status>>
      /\ pc = "launch" /\ pc' = "gather" /\ progress' \in BOOLEAN
      /\ todo' = Kept(Order, {t \in running : Finished(t)})
  BY DEF CollectDone, CInv, CoordinatorTypeOK
<1>2. Order \in Seq(Members(plan)) /\ IsInjective(Order) /\ Members(plan) \subseteq Tasks
  BY TypeFacts, PlanFacts
<1>3. /\ todo' \in Seq(Members(plan)) /\ IsInjective(todo')
      /\ ToSet(todo') \subseteq {t \in running : Finished(t)}
  BY <1>1, <1>2, KeptElements
<1>4. todo' \in Seq(Tasks)
  BY <1>2, <1>3
<1>5. Todos'
  BY <1>1, <1>3 DEF Todos, stateVars, Finished
<1> QED
  BY <1>1, <1>4, <1>5, ControlStep DEF Points

LEMMA LoopKeeps ==
  ASSUME CInv, LeaveLoop \/ AdvanceDone \/ Wait \/ WriteSummary
  PROVE  CInv'
<1>1. /\ UNCHANGED <<plan, stateVars, tree, checkpoint, crashes, deciding, status, todo, progress>>
      /\ pc' \in {"settle", "save", "wait", "loop", "done"} /\ pc \notin {"off", "down"}
  BY DEF LeaveLoop, AdvanceDone, Wait, WriteSummary
<1>2. Todos' /\ pc' \in Points \ {"off", "down", "apply"}
  BY <1>1 DEF Todos, Points
<1> QED
  BY <1>1, <1>2, ControlStep, TypeFacts DEF CInv, CoordinatorTypeOK

(* What is saved while the fanout runs passes every check of a resume. *)
LEMMA SavesAreResumable ==
  ASSUME CInv, merged = SubSeq(Order, 1, Len(merged)), Len(merged) <= Len(Order)
  PROVE  Resumable(Snapshot("running"))
<1> DEFINE c == Snapshot("running")
<1>1. c.status = "running" /\ c.merged = merged /\ c.results = results /\ c.history = history
  BY DEF Snapshot
<1>2. IsPrefix(merged, Order)
  <2>1. merged = SubSeq(merged, 1, Len(merged))
    BY TypeFacts
  <2> QED
    BY <2>1 DEF IsPrefix
<1>3. \A r, s \in history : r.task = s.task /\ r.attempt = s.attempt => r = s
  BY DEF CInv, Histories
<1>4. ASSUME NEW t \in ToSet(merged)
      PROVE  results[t].status = "integrated" /\ CanonicalRecords(c, t) # {}
  <2>1. /\ results[t].status = "integrated" /\ results[t].final = count[t]
        /\ SoundRecord(t) \in history
    BY DEF CInv, MergedSound, Merged
  <2>2. SoundRecord(t) \in CanonicalRecords(c, t)
    BY <1>1, <2>1 DEF CanonicalRecords, SoundRecord
  <2> QED
    BY <2>1, <2>2
<1> HIDE DEF c
<1>5. Resumable(c)
  BY <1>1, <1>2, <1>3, <1>4 DEF Resumable
<1> QED
  BY <1>5 DEF c

LEMMA SaveKeeps ==
  ASSUME CInv, SaveCheckpoint \/ SaveOutcome,
         merged = SubSeq(Order, 1, Len(merged)), Len(merged) <= Len(Order),
         status' # "running", pc = "close" => status # "running"
  PROVE  CInv'
<1>1. /\ UNCHANGED <<plan, stateVars, tree, crashes, deciding, status, todo, progress>>
      /\ \/ pc = "save" /\ pc' = "loop" /\ checkpoint' = Snapshot("running")
         \/ pc = "close" /\ pc' = "report" /\ checkpoint' = Snapshot(status)
  BY DEF SaveCheckpoint, SaveOutcome
<1>2. StateParts'
  BY <1>1, StateStays DEF CInv, StateParts
<1>3. checkpoint' \in Checkpoints
  <2>1. "running" \in Statuses
    BY DEF Statuses
  <2> QED
    BY <1>1, <2>1 DEF Snapshot, Checkpoints, CInv, CoordinatorTypeOK
<1>4. CoordinatorTypeOK'
  BY <1>1, <1>3 DEF CInv, CoordinatorTypeOK, stateVars, Points
<1>5. Todos' /\ DecidingWaits' /\ Idle'
  BY <1>1 DEF Todos, DecidingWaits, Idle
<1>6. TreeFollows'
  BY <1>1, TreeStays DEF CInv, Alive, stateVars
<1>7. CheckpointResumable'
  <2>1. CASE pc = "save"
    <3>1. Resumable(checkpoint')
      BY <1>1, <2>1, SavesAreResumable
    <3> QED
      BY <1>1, <3>1 DEF CheckpointResumable, Resumable, Order, CanonicalRecords
  <2>2. CASE pc = "close"
    <3>1. checkpoint'.status # "running"
      BY <1>1, <2>2 DEF Snapshot
    <3> QED
      BY <3>1 DEF CheckpointResumable
  <2> QED
    BY <1>1, <2>1, <2>2
<1>8. SavedResultsLast'
  <2>1. CASE pc = "save"
    <3>1. /\ ToSet(checkpoint'.merged) = Merged /\ checkpoint'.history = history
          /\ checkpoint'.results = results
      BY <1>1, <2>1 DEF Snapshot, Merged
    <3>2. \A t \in Merged : results[t].final = count[t]
      BY DEF CInv, MergedSound
    <3>3. \A r \in history : r.attempt <= count[r.task]
      BY DEF CInv, Histories
    <3> QED
      BY <3>1, <3>2, <3>3 DEF SavedResultsLast
  <2>2. CASE pc = "close"
    <3>1. checkpoint'.status # "running"
      BY <1>1, <2>2 DEF Snapshot
    <3> QED
      BY <3>1 DEF SavedResultsLast
  <2> QED
    BY <1>1, <2>1, <2>2
<1> QED
  BY <1>2, <1>4, <1>5, <1>6, <1>7, <1>8 DEF CInv, StateParts

LEMMA LaunchKeeps == ASSUME CInv, LaunchNext PROVE CInv'
<1> DEFINE t == Head(todo)
<1>1. /\ pc = "launch" /\ pc' = "launch" /\ todo # <<>> /\ todo' = Tail(todo)
      /\ count' = [count EXCEPT ![t] = @ + 1]
      /\ pending' = pending \ {t} /\ running' = running \cup {t}
      /\ outcome' = [outcome EXCEPT ![t] = "working"] /\ base' = [base EXCEPT ![t] = Merged]
      /\ UNCHANGED <<plan, candidates, history, results, merged, progress, deciding, status,
                     tree, checkpoint, crashes>>
  BY DEF LaunchNext
<1>2. /\ t \in ToSet(todo) /\ todo' \in Seq(Tasks) /\ ToSet(todo') \subseteq ToSet(todo)
      /\ Len(todo') = Len(todo) - 1 /\ Len(todo) \in Nat /\ t \notin ToSet(todo')
      /\ IsInjective(todo') /\ ToSet(todo) = {t} \cup ToSet(todo')
  BY <1>1, TypeFacts, HeadAndTail DEF CInv, Todos
<1>3. /\ t \in pending /\ t \in Members(plan) /\ t \in Tasks /\ t \notin running
      /\ t \notin candidates /\ t \notin Merged
      /\ count[t] \in {0, 1} /\ count'[t] = count[t] + 1
      /\ \A u \in Tasks \ {t} : count'[u] = count[u] /\ outcome'[u] = outcome[u]
                                /\ base'[u] = base[u]
      /\ outcome'[t] = "working" /\ base'[t] = Merged
  BY <1>1, <1>2, TypeFacts DEF CInv, CoordinatorTypeOK, Todos, Apart, Counts, Attempts
<1> HIDE DEF t
<1>4. CoordinatorTypeOK'
  <2>1. count' \in [Tasks -> Attempts]
    BY <1>1, <1>3, TypeFacts DEF Attempts
  <2>2. outcome' \in [Tasks -> WorkerOutcomes]
    BY <1>1, <1>3, TypeFacts DEF WorkerOutcomes
  <2>3. base' \in [Tasks -> SUBSET Tasks]
    BY <1>1, <1>3, TypeFacts DEF CInv, CoordinatorTypeOK, Apart
  <2> QED
    BY <1>1, <1>2, <1>3, <2>1, <2>2, <2>3 DEF CInv, CoordinatorTypeOK
<1>5. Apart' /\ Merged' = Merged
  BY <1>1, <1>3 DEF CInv, Apart, Merged
<1>6. Counts'
  BY <1>1, <1>3, TypeFacts DEF CInv, Counts, Apart, Attempts
<1>7. Histories'
  <2>1. \A r \in history : r.task \in Members(plan) /\ r.task \in Tasks /\ r.attempt \in Nat
    BY TypeFacts DEF CInv, CoordinatorTypeOK, Histories, Records
  <2> QED
    BY <1>1, <1>3, <2>1, TypeFacts DEF CInv, Histories, Attempts
<1>8. CandidatesSound' /\ MergedSound'
  <2>1. candidates \subseteq Tasks \ {t} /\ Merged \subseteq Tasks \ {t}
    BY <1>3, TypeFacts DEF CInv, Apart
  <2> QED
    BY <1>1, <1>3, <1>5, <2>1 DEF CInv, CandidatesSound, MergedSound, SoundRecord
<1>9. running' \cup ToSet(todo') = running \cup ToSet(todo)
  BY <1>1, <1>2
<1>10. Cardinality(running') = Cardinality(running) + 1
  BY <1>1, <1>3, TypeFacts, FS_AddElement
<1>11. /\ ~Collide(running \cup ToSet(todo)) /\ Upstream(plan.hard, t) \subseteq Merged
       /\ \A u \in ToSet(todo) : HardReady(u)
       /\ ToSet(todo) \subseteq pending
       /\ Cardinality(running) + Len(todo) <= MaxWorkers
  BY <1>1, <1>2 DEF CInv, Todos, HardReady
<1>12. /\ Cardinality(running') + Len(todo') <= MaxWorkers
       /\ Cardinality(running') <= MaxWorkers
  <2>1. Cardinality(running) \in Nat /\ Len(todo) \in Nat /\ MaxWorkers \in Nat /\ Len(todo) >= 1
    <3>1. Len(todo) >= 1
      BY <1>1, <1>2, TypeFacts
    <3> QED
      BY <1>2, <3>1, TypeFacts
  <2> QED
    BY <1>2, <1>10, <1>11, <2>1
<1>13. Todos'
  <2>1. ToSet(todo') \subseteq pending'
    BY <1>1, <1>2, <1>11
  <2>2. \A u \in ToSet(todo') : HardReady(u)'
    BY <1>1, <1>2, <1>5, <1>11 DEF HardReady
  <2>3. ~Collide(running \cup ToSet(todo))'
    BY <1>1, <1>9, <1>11 DEF Collide
  <2> QED
    BY <1>1, <1>2, <1>12, <2>1, <2>2, <2>3 DEF Todos
<1>14. WorkersIsolated'
  <2>1. ~Collide(running)'
    BY <1>1, <1>2, <1>11 DEF Collide
  <2>2. \A u \in running' : Upstream(plan.hard, u) \subseteq base'[u]
    <3>1. \A u \in running : u \in Tasks \ {t} /\ Upstream(plan.hard, u) \subseteq base[u]
      BY <1>3, TypeFacts DEF CInv, WorkersIsolated, Apart
    <3> QED
      BY <1>1, <1>3, <1>11, <3>1
  <2> QED
    BY <1>1, <1>12, <2>1, <2>2 DEF WorkersIsolated
<1>15. DecidingWaits' /\ Idle'
  BY <1>1 DEF DecidingWaits, Idle
<1>16. TreeFollows' /\ CheckpointResumable' /\ SavedResultsLast'
  BY <1>1, TreeStays, SavedStays DEF CInv, Alive
<1> QED
  BY <1>4, <1>5, <1>6, <1>7, <1>8, <1>13, <1>14, <1>15, <1>16 DEF CInv

----------------------------------------------------------------------------
(* The steps that move a task.                                             *)

(* What becomes of a candidate: rejected, kept for later, or taken up. *)
CandidateFate(t) ==
  \/ /\ pc' = "gather" /\ candidates' = candidates \ {t} /\ deciding' = deciding
     /\ results'[t].status = "failed"
  \/ /\ pc' = "gather" /\ candidates' = candidates \cup {t} /\ deciding' = deciding
     /\ results' = results /\ outcome[t] = "sound" /\ Deferred(t)
  \/ /\ pc' = "apply" /\ candidates' = candidates \cup {t} /\ deciding' = t
     /\ results' = results /\ outcome[t] = "sound" /\ ~Deferred(t)

LEMMA FailedFits ==
  ASSUME CInv, NEW t \in Tasks, NEW kind \in {"conflict", "other"},
         results' = [results EXCEPT ![t] = Failed(t, kind)]
  PROVE  /\ results' \in [Tasks -> Results] /\ results'[t].status = "failed"
         /\ \A u \in Tasks \ {t} : results'[u] = results[u]
<1>1. count[t] \in Attempts /\ results \in [Tasks -> Results]
  BY TypeFacts
<1>2. Failed(t, kind) \in Results /\ Failed(t, kind).status = "failed"
  BY <1>1 DEF Failed, Results
<1> QED
  BY <1>1, <1>2

LEMMA IntegrateEffect ==
  ASSUME CInv, NEW t \in Tasks, IntegrateCandidate(t)
  PROVE  /\ UNCHANGED <<merged, tree>> /\ results' \in [Tasks -> Results]
         /\ \A u \in Tasks \ {t} : results'[u] = results[u]
         /\ CandidateFate(t)
<1>1. ASSUME NEW kind \in {"conflict", "other"}, RejectCandidate(t, kind)
      PROVE  /\ UNCHANGED <<merged, tree>> /\ results' \in [Tasks -> Results]
             /\ \A u \in Tasks \ {t} : results'[u] = results[u]
             /\ CandidateFate(t)
  BY <1>1, FailedFits DEF RejectCandidate, CandidateFate
<1>2. CASE \E kind \in {"conflict", "other"} : RejectCandidate(t, kind)
  BY <1>1, <1>2
<1>3. CASE outcome[t] = "sound" /\ Deferred(t) /\ KeepCandidate(t)
  BY <1>3, TypeFacts DEF KeepCandidate, CandidateFate
<1>4. CASE /\ outcome[t] = "sound" /\ ~Deferred(t)
           /\ deciding' = t /\ candidates' = candidates \cup {t} /\ pc' = "apply"
           /\ UNCHANGED <<results, merged, tree>>
  BY <1>4, TypeFacts DEF CandidateFate
<1> QED
  BY <1>2, <1>3, <1>4 DEF IntegrateCandidate

(* One task less to collect. *)
LEMMA GatherFacts ==
  ASSUME CInv, GatherNext
  PROVE  LET t == Head(todo)
         IN  /\ t \in running /\ t \in Members(plan) /\ t \in Tasks /\ t \notin pending
             /\ t \notin candidates /\ t \notin Merged /\ count[t] \in {1, 2}
             /\ outcome[t] # "working"
             /\ todo' \in Seq(Tasks) /\ IsInjective(todo')
             /\ ToSet(todo') \subseteq running \ {t}
             /\ \A u \in ToSet(todo') : outcome[u] # "working"
<1>1. todo # <<>> /\ pc = "gather" /\ todo' = Tail(todo)
  BY DEF GatherNext
<1>2. ToSet(todo) \subseteq running /\ IsInjective(todo) /\ todo \in Seq(Tasks)
      /\ \A u \in ToSet(todo) : outcome[u] # "working"
  BY <1>1, TypeFacts DEF CInv, Todos
<1>3. /\ Head(todo) \in ToSet(todo) /\ todo' \in Seq(Tasks) /\ ToSet(todo') \subseteq ToSet(todo)
      /\ Head(todo) \notin ToSet(todo') /\ IsInjective(todo')
  BY <1>1, <1>2, HeadAndTail
<1>4. Head(todo) \in running
  BY <1>2, <1>3
<1>5. /\ Head(todo) \in Members(plan) /\ Head(todo) \in Tasks /\ Head(todo) \notin pending
      /\ Head(todo) \notin candidates /\ Head(todo) \notin Merged
  BY <1>4, TypeFacts DEF CInv, Apart
<1>6. count[Head(todo)] \in {1, 2}
  BY <1>5, TypeFacts DEF CInv, Counts, Attempts
<1> QED
  BY <1>2, <1>3, <1>4, <1>5, <1>6

LEMMA GatherKeeps == ASSUME CInv, GatherNext, ApplyOK' PROVE CInv'
<1> DEFINE t == Head(todo)
           new == [task |-> t, attempt |-> count[t], outcome |-> outcome[t]]
<1>1. /\ t \in running /\ t \in Members(plan) /\ t \in Tasks /\ t \notin pending
      /\ t \notin candidates /\ t \notin Merged /\ count[t] \in {1, 2} /\ outcome[t] # "working"
      /\ todo' \in Seq(Tasks) /\ IsInjective(todo') /\ ToSet(todo') \subseteq running \ {t}
      /\ \A u \in ToSet(todo') : outcome[u] # "working"
  BY GatherFacts
<1>2. /\ pc = "gather" /\ running' = running \ {t} /\ history' = history \cup {new}
      /\ UNCHANGED <<plan, count, outcome, base, progress, status, checkpoint, crashes>>
  BY DEF GatherNext
<1>3. /\ UNCHANGED <<merged, tree>> /\ results' \in [Tasks -> Results]
      /\ \A u \in Tasks \ {t} : results'[u] = results[u]
      /\ pc' \in {"gather", "apply"} /\ deciding' \in Tasks \cup {NoTask}
      /\ pc' = "apply" => deciding' \in candidates'
      /\ \/ candidates' = candidates /\ pending' = pending
         \/ candidates' = candidates \cup {t} /\ pending' = pending /\ outcome[t] = "sound"
         \/ candidates' = candidates /\ pending' = pending \cup {t} /\ count[t] = 1
  <2>1. CASE IntegrateCandidate(t) /\ UNCHANGED pending
    <3>1. CandidateFate(t) /\ UNCHANGED <<merged, tree>> /\ results' \in [Tasks -> Results]
          /\ \A u \in Tasks \ {t} : results'[u] = results[u]
      BY <1>1, <2>1, IntegrateEffect
    <3>2. candidates \ {t} = candidates
      BY <1>1
    <3> QED
      BY <1>1, <2>1, <3>1, <3>2 DEF CandidateFate, CInv, CoordinatorTypeOK
  <2>2. CASE /\ pending' = IF RetryAllowed(t) /\ ~FrontierTerminal THEN pending \cup {t} ELSE pending
             /\ \/ results' = results
                \/ results' = [results EXCEPT ![t] = Failed(t, "other")]
             /\ UNCHANGED <<candidates, merged, tree, deciding, pc>>
    <3>1. results' \in [Tasks -> Results] /\ \A u \in Tasks \ {t} : results'[u] = results[u]
      BY <1>1, <2>2, FailedFits, TypeFacts
    <3> QED
      BY <1>1, <1>2, <2>2, <3>1 DEF RetryAllowed, CInv, CoordinatorTypeOK
  <2> QED
    BY <2>1, <2>2 DEF GatherNext
<1>4. new \in Records /\ outcome[t] \in WorkerOutcomes
  BY <1>1, TypeFacts DEF Records
<1> HIDE DEF t
<1>5. /\ pending' \subseteq pending \cup {t} /\ candidates' \subseteq candidates \cup {t}
      /\ t \notin running' /\ Merged' = Merged
      /\ ~(t \in pending' /\ t \in candidates')
  BY <1>1, <1>2, <1>3 DEF Merged
<1>6. Apart'
  BY <1>1, <1>2, <1>3, <1>5 DEF CInv, Apart
<1>7. CoordinatorTypeOK'
  <2>1. pending' \subseteq Tasks /\ running' \subseteq Tasks /\ candidates' \subseteq Tasks
    BY <1>1, <1>2, <1>5 DEF CInv, CoordinatorTypeOK
  <2>2. history' \subseteq Records
    BY <1>2, <1>4 DEF CInv, CoordinatorTypeOK
  <2>3. pc' \in Points
    BY <1>3 DEF Points
  <2> QED
    BY <1>1, <1>2, <1>3, <2>1, <2>2, <2>3 DEF CInv, CoordinatorTypeOK
<1>8. Counts'
  <2>1. \A u \in pending' : count[u] # 2
    BY <1>1, <1>3, <1>5 DEF CInv, Counts
  <2>2. \A u \in Members(plan) \ pending' : count[u] # 0
    BY <1>1, <1>3 DEF CInv, Counts
  <2> QED
    BY <1>2, <2>1, <2>2 DEF Counts
<1>9. Histories'
  <2>1. new.task = t /\ new.attempt = count[t]
    OBVIOUS
  <2>2. \A r \in history : /\ r.task \in Members(plan) /\ r.attempt <= count[r.task]
                           /\ r.task \in running => r.attempt < count[r.task]
    BY DEF CInv, Histories
  <2>3. \A r \in history : r.attempt \in Nat
    BY DEF CInv, CoordinatorTypeOK, Records
  <2>4. \A r \in history : r.task = t => r.attempt # count[t]
    BY <1>1, <2>2, <2>3
  <2> HIDE DEF new
  <2>5. \A r \in history' : /\ r.task \in Members(plan) /\ r.attempt <= count[r.task]
                            /\ r.task \in running' => r.attempt < count[r.task]
    BY <1>1, <1>2, <2>1, <2>2
  <2>6. \A r, s \in history' : r.task = s.task /\ r.attempt = s.attempt => r = s
    BY <1>2, <2>1, <2>4 DEF CInv, Histories
  <2> QED
    BY <1>2, <2>5, <2>6 DEF Histories
<1>10. CandidatesSound' /\ MergedSound'
  <2>1. outcome[t] = "sound" => new = SoundRecord(t)
    BY DEF SoundRecord
  <2> HIDE DEF new
  <2>2. \A u \in candidates' : outcome[u] = "sound" /\ SoundRecord(u) \in history'
    BY <1>1, <1>2, <1>3, <2>1 DEF CInv, CandidatesSound
  <2>3. \A u \in Merged : u # t /\ u \in Tasks
    BY <1>1, TypeFacts DEF CInv, Apart
  <2>4. \A u \in Merged : results'[u] = results[u]
    BY <1>3, <2>3
  <2>5. MergedSound'
    BY <1>2, <1>5, <2>4 DEF CInv, MergedSound, SoundRecord
  <2> QED
    BY <1>2, <2>2, <2>5 DEF CandidatesSound, SoundRecord
<1>11. Todos'
  BY <1>1, <1>2, <1>3 DEF Todos
<1>12. WorkersIsolated'
  <2>1. IsFiniteSet(running) /\ running' \subseteq running
    BY <1>2, TypeFacts
  <2>2. Cardinality(running') <= Cardinality(running) /\ Cardinality(running') \in Nat
    BY <2>1, FS_Subset, FS_CardinalityType
  <2>3. Cardinality(running') <= MaxWorkers
    BY <2>2, TypeFacts DEF CInv, WorkersIsolated
  <2>4. ~Collide(running)'
    BY <1>2, <2>1 DEF CInv, WorkersIsolated, Collide
  <2> QED
    BY <1>2, <2>1, <2>3, <2>4 DEF CInv, WorkersIsolated
<1>13. DecidingWaits' /\ Idle'
  BY <1>3 DEF DecidingWaits, Idle
<1>14. TreeFollows' /\ CheckpointResumable' /\ SavedResultsLast'
  BY <1>2, <1>3, TreeStays, SavedStays DEF CInv, Alive
<1> QED
  BY <1>6, <1>7, <1>8, <1>9, <1>10, <1>11, <1>12, <1>13, <1>14 DEF CInv

(* A step that settles what becomes of one candidate. *)
LEMMA CandidateStep ==
  ASSUME CInv, NEW t \in candidates,
         UNCHANGED <<plan, pending, running, count, history, outcome, base, todo, status,
                     checkpoint, crashes>>,
         results' \in [Tasks -> Results], \A u \in Tasks \ {t} : results'[u] = results[u],
         \/ candidates' = candidates \ {t}
         \/ candidates' = candidates \cup {t} /\ results' = results,
         \/ UNCHANGED <<merged, tree>>
         \/ /\ merged' = Append(merged, t) /\ tree' = IF Writes(t) THEN Append(tree, t) ELSE tree
            /\ results'[t].status = "integrated" /\ results'[t].final = count[t]
            /\ candidates' = candidates \ {t},
         progress' \in BOOLEAN, pc \in {"gather", "apply"}, pc' \in {"gather", "apply"},
         deciding' \in Tasks \cup {NoTask}, pc' = "apply" => deciding' \in candidates'
  PROVE  CInv'
<1>1. /\ t \in Members(plan) /\ t \in Tasks /\ t \notin pending /\ t \notin running
      /\ t \notin Merged /\ candidates' \subseteq candidates
      /\ SoundRecord(t) \in history
  BY TypeFacts DEF CInv, Apart, CandidatesSound
<1>2. /\ merged' \in Seq(Tasks) /\ tree' \in Seq(Tasks)
      /\ \/ Merged' = Merged
         \/ /\ Merged' = Merged \cup {t} /\ candidates' = candidates \ {t}
            /\ results'[t].status = "integrated" /\ results'[t].final = count[t]
  <2>1. merged \in Seq(Tasks) /\ tree \in Seq(Tasks)
    BY DEF CInv, CoordinatorTypeOK
  <2>2. Append(merged, t) \in Seq(Tasks) /\ ToSet(Append(merged, t)) = Merged \cup {t}
        /\ Append(tree, t) \in Seq(Tasks)
    BY <1>1, <2>1, AppendSet DEF Merged
  <2> QED
    BY <2>1, <2>2 DEF Merged
<1>3. CoordinatorTypeOK'
  BY <1>1, <1>2 DEF CInv, CoordinatorTypeOK, Points
<1>4. Apart'
  BY <1>1, <1>2 DEF CInv, Apart
<1>5. Counts' /\ Histories' /\ WorkersIsolated'
  BY DEF CInv, Counts, Histories, WorkersIsolated, Collide
<1>6. CandidatesSound'
  BY <1>1 DEF CInv, CandidatesSound, SoundRecord
<1>7. MergedSound'
  <2>1. \A u \in Merged : u \in Tasks \ {t}
    BY <1>1, TypeFacts DEF CInv, Apart
  <2>2. \A u \in Merged : results'[u] = results[u]
    BY <2>1
  <2> QED
    BY <1>1, <1>2, <2>2 DEF CInv, MergedSound, SoundRecord
<1>8. Todos'
  BY DEF CInv, Todos
<1>9. DecidingWaits' /\ Idle'
  BY DEF DecidingWaits, Idle
<1>10. TreeFollows'
  <2>1. tree = Patches(merged) /\ merged \in Seq(Tasks)
    BY DEF CInv, TreeFollows, TreeIsMerged, Alive, CoordinatorTypeOK
  <2>2. Patches(Append(merged, t)) = IF Writes(t) THEN Append(Patches(merged), t)
                                                  ELSE Patches(merged)
    <3>1. t \in {u \in Tasks : Writes(u)} <=> Writes(t)
      BY <1>1
    <3> QED
      BY <1>1, <2>1, <3>1, KeptAppend DEF Patches
  <2>3. tree' = Patches(merged')
    BY <2>1, <2>2
  <2>4. tree' = Patches(merged)'
    BY <2>3 DEF Patches, Writes
  <2> QED
    BY <2>4 DEF TreeFollows, TreeIsMerged
<1>11. CheckpointResumable' /\ SavedResultsLast'
  BY SavedStays DEF CInv
<1> QED
  BY <1>3, <1>4, <1>5, <1>6, <1>7, <1>8, <1>9, <1>10, <1>11 DEF CInv

LEMMA AdvanceKeeps == ASSUME CInv, Advance PROVE CInv'
<1>1. /\ Frontier \in candidates /\ pc = "gather" /\ IntegrateCandidate(Frontier)
      /\ UNCHANGED <<plan, pending, running, count, history, outcome, base, todo, progress,
                     status, checkpoint, crashes>>
  BY DEF Advance, Advanceable
<1>2. Frontier \in Tasks
  BY <1>1 DEF CInv, CoordinatorTypeOK
<1>3. /\ UNCHANGED <<merged, tree>> /\ results' \in [Tasks -> Results]
      /\ \A u \in Tasks \ {Frontier} : results'[u] = results[u]
      /\ CandidateFate(Frontier)
  BY <1>1, <1>2, IntegrateEffect
<1>4. progress' \in BOOLEAN /\ deciding' \in Tasks \cup {NoTask}
  BY <1>1, <1>2, <1>3 DEF CInv, CoordinatorTypeOK, CandidateFate
<1>5. pc' \in {"gather", "apply"} /\ (pc' = "apply" => deciding' \in candidates')
      /\ \/ candidates' = candidates \ {Frontier}
         \/ candidates' = candidates \cup {Frontier} /\ results' = results
  BY <1>3 DEF CandidateFate
<1> DEFINE t == Frontier
<1> HIDE DEF t
<1>6. t = Frontier
  BY DEF t
<1> QED
  BY <1>1, <1>3, <1>4, <1>5, <1>6, CandidateStep

LEMMA ApplyKeeps == ASSUME CInv, ApplySucceeds \/ ApplyFails PROVE CInv'
<1>1. deciding \in candidates /\ deciding \in Tasks /\ count[deciding] \in Attempts
      /\ results \in [Tasks -> Results]
  BY TypeFacts DEF CInv, CoordinatorTypeOK, DecidingWaits, ApplySucceeds, ApplyFails
<1>2. CASE ApplyFails
  <2>1. /\ results' = [results EXCEPT ![deciding] = Failed(deciding, "conflict")]
        /\ candidates' = candidates \ {deciding} /\ deciding' = NoTask
        /\ pc = "apply" /\ pc' = "gather"
        /\ UNCHANGED <<plan, pending, running, count, history, outcome, base, merged, todo,
                       progress, status, tree, checkpoint, crashes>>
    BY <1>2 DEF ApplyFails
  <2>2. results' \in [Tasks -> Results] /\ \A u \in Tasks \ {deciding} : results'[u] = results[u]
    BY <1>1, <2>1, FailedFits
  <2>3. progress' \in BOOLEAN
    BY <2>1 DEF CInv, CoordinatorTypeOK
  <2> QED
    BY <1>1, <2>1, <2>2, <2>3, CandidateStep
<1>3. CASE ApplySucceeds
  <2> DEFINE done == [status |-> "integrated", kind |-> "", final |-> count[deciding]]
  <2>1. /\ results' = [results EXCEPT ![deciding] = done]
        /\ candidates' = candidates \ {deciding} /\ deciding' = NoTask
        /\ merged' = Append(merged, deciding)
        /\ tree' = IF Writes(deciding) THEN Append(tree, deciding) ELSE tree
        /\ pc = "apply" /\ pc' = "gather" /\ progress' \in BOOLEAN
        /\ UNCHANGED <<plan, pending, running, count, history, outcome, base, todo, status,
                       checkpoint, crashes>>
    BY <1>3 DEF ApplySucceeds
  <2>2. done \in Results /\ done.status = "integrated" /\ done.final = count[deciding]
    BY <1>1 DEF Results
  <2>3. /\ results' \in [Tasks -> Results] /\ results'[deciding] = done
        /\ \A u \in Tasks \ {deciding} : results'[u] = results[u]
    BY <1>1, <2>1, <2>2
  <2> HIDE DEF done
  <2> QED
    BY <1>1, <2>1, <2>2, <2>3, CandidateStep
<1> QED
  BY <1>2, <1>3

LEMMA MaxOfAttempts ==
  ASSUME NEW S, S \subseteq 0..2, 0 \in S
  PROVE  Max(S) \in S /\ \A y \in S : Max(S) >= y
<1>1. \E x \in S : \A y \in S : x >= y
  <2>1. CASE 2 \in S
    BY <2>1
  <2>2. CASE 2 \notin S /\ 1 \in S
    BY <2>2
  <2>3. CASE 2 \notin S /\ 1 \notin S
    BY <2>3
  <2> QED
    BY <2>1, <2>2, <2>3
<1> QED
  BY <1>1 DEF Max

(* The last attempt of a task on record, none if there is no record. *)
LastAttempt(records, t) == Max({r.attempt : r \in {h \in records : h.task = t}} \cup {0})

LEMMA LastAttemptFacts ==
  ASSUME NEW records, records \subseteq Records, NEW t
  PROVE  /\ LastAttempt(records, t) \in Attempts
         /\ \A r \in records : r.task = t => r.attempt <= LastAttempt(records, t)
         /\ \/ LastAttempt(records, t) = 0
            \/ \E r \in records : r.task = t /\ r.attempt = LastAttempt(records, t)
<1> DEFINE S == {r.attempt : r \in {h \in records : h.task = t}} \cup {0}
<1>1. S \subseteq 0..2 /\ 0 \in S
  BY DEF Records
<1>2. Max(S) \in S /\ \A y \in S : Max(S) >= y
  <2> HIDE DEF S
  <2> QED
    BY <1>1, MaxOfAttempts
<1>3. LastAttempt(records, t) = Max(S)
  BY DEF LastAttempt
<1>4. \A r \in records : r.task = t => r.attempt \in S
  OBVIOUS
<1>5. \A x \in S : x = 0 \/ \E r \in records : r.task = t /\ r.attempt = x
  OBVIOUS
<1> HIDE DEF S
<1>6. Max(S) \in 0..2
  BY <1>1, <1>2
<1>7. \A r \in records : r.task = t => r.attempt <= Max(S)
  BY <1>1, <1>2, <1>4, <1>6
<1> QED
  BY <1>2, <1>3, <1>5, <1>6, <1>7 DEF Attempts

LEMMA SettleKeeps == ASSUME CInv, IInv', Settle PROVE CInv'
<1>1. /\ pc = "settle" /\ pc' = "close" /\ candidates' = {}
      /\ results' = [t \in Tasks |-> IF t \in Members(plan) /\ results[t] = NoResult
                                     THEN Untrusted(t) ELSE results[t]]
      /\ UNCHANGED <<plan, liveVars, pending, running, count, history, outcome, base, merged,
                     todo, progress, deciding, tree, checkpoint, crashes>>
  BY DEF Settle
<1>2. status' \in Statuses
  <2>1. pc' = "close" => status' \in Statuses \ {"none", "running"}
    BY DEF IInv, StatusOK
  <2> QED
    BY <1>1, <2>1
<1>3. ASSUME NEW t \in Tasks PROVE Untrusted(t) \in Results
  <2>1. history \subseteq Records
    BY DEF CInv, CoordinatorTypeOK
  <2>2. FinalAttempt(t) \in Attempts /\ 0 \in Attempts
    BY <2>1, LastAttemptFacts DEF FinalAttempt, LastAttempt, Attempts
  <2>3. /\ [status |-> "blocked", kind |-> "other", final |-> 0] \in Results
        /\ [status |-> "not_integrated", kind |-> "other", final |-> FinalAttempt(t)] \in Results
    BY <2>2 DEF Results
  <2> QED
    BY <2>3 DEF Untrusted
<1>4. results' \in [Tasks -> Results]
  BY <1>1, <1>3, TypeFacts
<1>5. \A t \in Merged : results'[t] = results[t]
  <2>1. \A t \in Merged : t \in Tasks /\ results[t].status = "integrated"
    BY TypeFacts DEF CInv, MergedSound, Apart
  <2>2. NoResult.status # "integrated"
    BY DEF NoResult
  <2> QED
    BY <1>1, <2>1, <2>2
<1>6. CoordinatorTypeOK'
  BY <1>1, <1>2, <1>4 DEF CInv, CoordinatorTypeOK, Points
<1>7. Apart' /\ Counts' /\ Histories' /\ CandidatesSound' /\ WorkersIsolated'
  BY <1>1 DEF CInv, Apart, Counts, Histories, CandidatesSound, WorkersIsolated, Merged, Collide
<1>8. MergedSound'
  BY <1>1, <1>5 DEF CInv, MergedSound, SoundRecord, Merged
<1>9. Todos' /\ DecidingWaits' /\ Idle'
  BY <1>1 DEF Todos, DecidingWaits, Idle
<1>10. TreeFollows' /\ CheckpointResumable' /\ SavedResultsLast'
  BY <1>1, TreeStays, SavedStays DEF CInv, Alive
<1> QED
  BY <1>6, <1>7, <1>8, <1>9, <1>10 DEF CInv

LEMMA FinishKeeps == ASSUME CInv, NEW t \in Tasks, FinishWorker(t) PROVE CInv'
<1>1. PICK ending \in RunEndings : \E told \in AttemptOutcomes(t, ending) :
        outcome' = [outcome EXCEPT ![t] = told]
  BY DEF FinishWorker
<1>2. PICK told \in AttemptOutcomes(t, ending) : outcome' = [outcome EXCEPT ![t] = told]
  BY <1>1
<1>3. told \in WorkerOutcomes /\ told # "working"
  BY DEF AttemptOutcomes, WorkerOutcomes, CandidateOutcomes
<1>4. /\ t \in running /\ outcome[t] = "working"
      /\ UNCHANGED <<plan, pending, running, candidates, count, history, base, results, merged,
                     controlVars, tree, checkpoint, crashes>>
  BY DEF FinishWorker
<1>5. /\ outcome' \in [Tasks -> WorkerOutcomes] /\ outcome'[t] # "working"
      /\ \A u \in Tasks \ {t} : outcome'[u] = outcome[u]
  BY <1>2, <1>3, TypeFacts
<1>6. CoordinatorTypeOK'
  BY <1>4, <1>5 DEF CInv, CoordinatorTypeOK, controlVars
<1>7. Apart' /\ Counts' /\ Histories' /\ WorkersIsolated' /\ MergedSound'
  BY <1>4 DEF CInv, Apart, Counts, Histories, WorkersIsolated, MergedSound, SoundRecord, Merged,
     Collide
<1>8. CandidatesSound'
  <2>1. \A u \in candidates : u \in Tasks \ {t}
    BY <1>4, TypeFacts DEF CInv, Apart
  <2> QED
    BY <1>4, <1>5, <2>1 DEF CInv, CandidatesSound, SoundRecord
<1>9. Todos'
  <2>1. \A u \in ToSet(todo) : u \in Tasks
    BY TypeFacts DEF ToSet
  <2>2. \A u \in ToSet(todo) : outcome[u] # "working" => outcome'[u] # "working"
    BY <1>5, <2>1
  <2> QED
    BY <1>4, <2>2 DEF CInv, Todos, controlVars, Collide, HardReady, Merged
<1>10. DecidingWaits'
  BY <1>4 DEF CInv, DecidingWaits, controlVars
<1>11. Idle'
  <2>1. pc \notin {"off", "down"}
    BY <1>4 DEF CInv, Idle, EmptyState
  <2> QED
    BY <1>4, <2>1 DEF Idle, controlVars
<1>12. TreeFollows' /\ CheckpointResumable' /\ SavedResultsLast'
  BY <1>4, TreeStays, SavedStays DEF CInv, Alive, controlVars
<1> QED
  BY <1>6, <1>7, <1>8, <1>9, <1>10, <1>11, <1>12 DEF CInv

(* Steps of the handoff, or none. *)
LEMMA HandoffKeeps ==
  ASSUME CInv, UNCHANGED <<plan, stateVars, controlVars, tree, checkpoint, crashes>>
  PROVE  CInv'
<1>1. StateParts'
  BY StateStays DEF CInv, StateParts
<1>2. CoordinatorTypeOK'
  BY DEF CInv, CoordinatorTypeOK, stateVars, controlVars
<1>3. Todos'
  BY DEF CInv, Todos, stateVars, controlVars, Collide, HardReady, Merged
<1>4. DecidingWaits' /\ Idle'
  BY DEF CInv, DecidingWaits, Idle, EmptyState, stateVars, controlVars
<1>5. TreeFollows' /\ CheckpointResumable' /\ SavedResultsLast'
  BY TreeStays, SavedStays DEF CInv, Alive, stateVars, controlVars
<1> QED
  BY <1>1, <1>2, <1>3, <1>4, <1>5 DEF CInv, StateParts

(* Nothing is under way. *)
LEMMA EmptyFits ==
  ASSUME plan' \in Plans, EmptyState'
  PROVE  StateParts'
<1>1. Merged' = {}
  BY DEF EmptyState, Merged, ToSet
<1>2. Members(plan') \subseteq Tasks /\ MaxWorkers \in Nat
  BY PlanFacts, PlansAssumption, BoundsAssumption DEF Members
<1>3. Cardinality({}) = 0
  BY FS_EmptySet
<1>4. Cardinality(running') <= MaxWorkers
  BY <1>2, <1>3 DEF EmptyState
<1>5. Apart' /\ Histories' /\ CandidatesSound' /\ MergedSound'
  BY <1>1 DEF Apart, Histories, CandidatesSound, MergedSound, EmptyState
<1>6. Counts'
  BY <1>2 DEF Counts, EmptyState
<1>7. WorkersIsolated'
  BY <1>4 DEF WorkersIsolated, Collide, EmptyState
<1> QED
  BY <1>5, <1>6, <1>7 DEF StateParts

LEMMA EmptyTypes ==
  ASSUME plan' \in Plans, EmptyState'
  PROVE  /\ pending' \subseteq Tasks /\ running' \subseteq Tasks /\ candidates' \subseteq Tasks
         /\ count' \in [Tasks -> Attempts] /\ history' \subseteq Records
         /\ outcome' \in [Tasks -> WorkerOutcomes] /\ base' \in [Tasks -> SUBSET Tasks]
         /\ results' \in [Tasks -> Results] /\ merged' \in Seq(Tasks)
<1>1. Members(plan') \subseteq Tasks
  BY PlansAssumption DEF Members
<1>2. NoResult \in Results /\ 0 \in Attempts /\ "none" \in WorkerOutcomes
  BY DEF NoResult, Results, Attempts, WorkerOutcomes
<1> QED
  BY <1>1, <1>2 DEF EmptyState

LEMMA CrashKeeps == ASSUME CInv, Crash PROVE CInv'
<1>1. /\ UNCHANGED <<plan, checkpoint>> /\ pc' = "down" /\ todo' = <<>> /\ progress' = FALSE
      /\ deciding' = NoTask /\ status' = "none" /\ crashes < MaxCrashes /\ crashes' = crashes + 1
      /\ EmptyState'
  BY DEF Crash, EmptyState
<1>2. plan' \in Plans
  BY <1>1, TypeFacts
<1>3. tree' \in Seq(Tasks)
  <2>1. tree \in Seq(Tasks)
    BY DEF CInv, CoordinatorTypeOK
  <2>2. pc = "apply" => deciding \in Tasks
    BY DEF CInv, DecidingWaits, CoordinatorTypeOK
  <2>3. pc = "apply" => Append(tree, deciding) \in Seq(Tasks)
    BY <2>1, <2>2
  <2> QED
    BY <2>1, <2>3 DEF Crash
<1>4. crashes' \in 0..MaxCrashes
  BY <1>1, BoundsAssumption DEF CInv, CoordinatorTypeOK
<1>5. StateParts'
  BY <1>1, <1>2, EmptyFits
<1>6. CoordinatorTypeOK'
  <2>1. pc' \in Points /\ status' \in Statuses /\ checkpoint' \in Checkpoints
    BY <1>1 DEF Points, Statuses, CInv, CoordinatorTypeOK
  <2>2. todo' \in Seq(Tasks) /\ progress' \in BOOLEAN
    <3>1. <<>> \in Seq(Tasks)
      OBVIOUS
    <3> QED
      BY <1>1, <3>1, Zenon
  <2> QED
    BY <1>1, <1>2, <1>3, <1>4, <2>1, <2>2, EmptyTypes DEF CoordinatorTypeOK
<1>7. Todos' /\ DecidingWaits' /\ Idle'
  BY <1>1 DEF Todos, DecidingWaits, Idle
<1>8. TreeFollows'
  BY <1>1 DEF TreeFollows, TreeIsMerged, Alive
<1>9. CheckpointResumable' /\ SavedResultsLast'
  BY <1>1, SavedStays DEF CInv
<1> QED
  BY <1>5, <1>6, <1>7, <1>8, <1>9 DEF CInv, StateParts

LEMMA CleanKeeps == ASSUME CInv, CleanTree PROVE CInv'
<1>1. /\ pc = "down" /\ tree' = <<>>
      /\ UNCHANGED <<plan, stateVars, controlVars, checkpoint, crashes>>
  BY DEF CleanTree
<1>2. StateParts'
  BY <1>1, StateStays DEF CInv, StateParts
<1>3. CoordinatorTypeOK'
  BY <1>1 DEF CInv, CoordinatorTypeOK, stateVars, controlVars
<1>4. Todos'
  BY <1>1 DEF Todos, controlVars
<1>5. DecidingWaits' /\ Idle'
  BY <1>1 DEF CInv, DecidingWaits, Idle, EmptyState, stateVars, controlVars
<1>6. TreeFollows'
  BY <1>1 DEF TreeFollows, TreeIsMerged, Alive, controlVars
<1>7. CheckpointResumable' /\ SavedResultsLast'
  BY <1>1, SavedStays DEF CInv
<1> QED
  BY <1>2, <1>3, <1>4, <1>5, <1>6, <1>7 DEF CInv, StateParts

LEMMA ResumeKeeps == ASSUME CInv, Resume PROVE CInv'
<1> DEFINE kept == ToSet(checkpoint.merged)
<1>1. /\ pc = "down" /\ pc' = "save" /\ Resumable(checkpoint) /\ Restore(checkpoint)
      /\ UNCHANGED <<plan, liveVars, running, candidates, outcome, base, todo, progress,
                     deciding, status, checkpoint, crashes>>
  BY DEF Resume
<1>2. /\ merged' = checkpoint.merged
      /\ results' = [t \in Tasks |-> IF t \in kept THEN checkpoint.results[t] ELSE NoResult]
      /\ history' = {r \in checkpoint.history : r.task \in kept}
      /\ count' = [t \in Tasks |-> LastAttempt(history', t)]
      /\ pending' = Members(plan) \ kept /\ tree' = Patches(checkpoint.merged)
  BY <1>1 DEF Restore, LastAttempt
<1>3. /\ checkpoint.merged \in Seq(Tasks) /\ checkpoint.results \in [Tasks -> Results]
      /\ checkpoint.history \subseteq Records /\ running = {} /\ candidates = {}
  BY <1>1 DEF CInv, CoordinatorTypeOK, Checkpoints, Idle, EmptyState
<1>4. kept \subseteq Members(plan) /\ Members(plan) \subseteq Tasks
  <2>1. IsPrefix(checkpoint.merged, Order)
    BY <1>1 DEF Resumable
  <2>2. Order \in Seq(Members(plan)) /\ ToSet(Order) = Members(plan) /\ Members(plan) \subseteq Tasks
    BY TypeFacts, PlanFacts
  <2>3. \A i \in 1..Len(checkpoint.merged) : checkpoint.merged[i] = Order[i] /\ i \in DOMAIN Order
    <3>1. /\ Len(checkpoint.merged) \in Nat /\ Len(Order) \in Nat
          /\ Len(checkpoint.merged) <= Len(Order)
          /\ SubSeq(checkpoint.merged, 1, Len(checkpoint.merged))
               = SubSeq(Order, 1, Len(checkpoint.merged))
      BY <1>3, <2>1, <2>2 DEF IsPrefix
    <3> QED
      BY <1>3, <2>2, <3>1
  <2> QED
    BY <1>3, <2>2, <2>3 DEF ToSet
<1>5. \A t \in kept : /\ checkpoint.results[t].status = "integrated"
                      /\ \E r \in checkpoint.history :
                           r.task = t /\ r.attempt = checkpoint.results[t].final
                           /\ r.outcome = "sound"
                      /\ \A r \in checkpoint.history :
                           r.task = t => r.attempt <= checkpoint.results[t].final
  <2>1. \A t \in kept, r \in checkpoint.history :
          r.task = t => r.attempt <= checkpoint.results[t].final
    BY <1>1 DEF CInv, SavedResultsLast, Resumable
  <2>2. \A t \in kept : /\ checkpoint.results[t].status = "integrated"
                        /\ CanonicalRecords(checkpoint, t) # {}
    BY <1>1 DEF Resumable
  <2> QED
    BY <2>1, <2>2 DEF CanonicalRecords
<1> HIDE DEF kept
<1>6. history' \subseteq Records
  BY <1>2, <1>3
<1>7. ASSUME NEW t \in Tasks
      PROVE  /\ count'[t] \in Attempts
             /\ \A r \in history' : r.task = t => r.attempt <= count'[t]
             /\ t \notin kept => count'[t] = 0
             /\ t \in kept => /\ count'[t] = checkpoint.results[t].final /\ count'[t] # 0
                              /\ [task |-> t, attempt |-> count'[t], outcome |-> "sound"]
                                   \in history'
  <2>1. /\ LastAttempt(history', t) \in Attempts
        /\ \A r \in history' : r.task = t => r.attempt <= LastAttempt(history', t)
        /\ \/ LastAttempt(history', t) = 0
           \/ \E r \in history' : r.task = t /\ r.attempt = LastAttempt(history', t)
    BY <1>6, LastAttemptFacts
  <2>2. count'[t] = LastAttempt(history', t)
    BY <1>2
  <2>3. t \notin kept => \A r \in history' : r.task # t
    BY <1>2
  <2>4. ASSUME t \in kept
        PROVE  /\ count'[t] = checkpoint.results[t].final /\ count'[t] # 0
               /\ [task |-> t, attempt |-> count'[t], outcome |-> "sound"] \in history'
    <3>1. PICK r \in checkpoint.history :
            r.task = t /\ r.attempt = checkpoint.results[t].final /\ r.outcome = "sound"
      BY <1>5, <2>4
    <3>2. r \in history' /\ r \in Records /\ r.attempt \in 1..2
      BY <1>2, <1>3, <2>4, <3>1 DEF Records
    <3>3. r = [task |-> t, attempt |-> r.attempt, outcome |-> "sound"]
      BY <3>1, <3>2 DEF Records
    <3>4. r.attempt <= count'[t] /\ count'[t] \in 0..2
      BY <2>1, <2>2, <3>1, <3>2 DEF Attempts
    <3>5. PICK q \in history' : q.task = t /\ q.attempt = count'[t]
      BY <2>1, <2>2, <3>2, <3>4
    <3>6. count'[t] <= r.attempt
      BY <1>2, <1>5, <2>4, <3>1, <3>5
    <3>7. count'[t] = r.attempt
      BY <3>2, <3>4, <3>6
    <3> QED
      BY <3>1, <3>2, <3>3, <3>7
  <2> QED
    BY <2>1, <2>2, <2>3, <2>4
<1>8. Merged' = kept
  BY <1>2 DEF Merged, kept
<1>9. CoordinatorTypeOK'
  <2>1. NoResult \in Results
    BY DEF NoResult, Results, Attempts
  <2>2. results' \in [Tasks -> Results]
    BY <1>2, <1>3, <2>1
  <2>3. count' \in [Tasks -> Attempts]
    BY <1>2, <1>7
  <2>4. tree' \in Seq(Tasks)
    BY <1>2, <1>3, KeptElements DEF Patches
  <2> QED
    BY <1>1, <1>2, <1>3, <1>4, <1>6, <2>2, <2>3, <2>4 DEF CInv, CoordinatorTypeOK, Points
<1>10. Apart'
  BY <1>1, <1>2, <1>3, <1>4, <1>8 DEF Apart
<1>11. Counts'
  <2>1. \A t \in Members(plan) : t \in Tasks
    BY <1>4
  <2>2. \A t \in pending' : t \in Tasks /\ t \notin kept
    BY <1>2, <2>1
  <2>3. \A t \in pending' : count'[t] = 0
    BY <1>7, <2>2
  <2>4. \A t \in Members(plan) \ pending' : t \in Tasks /\ t \in kept
    BY <1>2, <2>1
  <2>5. \A t \in Members(plan) \ pending' : count'[t] # 0
    BY <1>7, <2>4
  <2> QED
    BY <1>1, <2>3, <2>5 DEF Counts
<1>12. Histories'
  <2>1. \A r \in history' : r.task \in kept /\ r \in checkpoint.history
    BY <1>2
  <2>2. \A r \in history' : r.task \in Members(plan) /\ r.attempt <= count'[r.task]
    BY <1>4, <1>7, <2>1
  <2>3. \A r, s \in history' : r.task = s.task /\ r.attempt = s.attempt => r = s
    BY <1>1, <2>1 DEF Resumable
  <2> QED
    BY <1>1, <1>3, <2>2, <2>3 DEF Histories
<1>13. CandidatesSound'
  BY <1>1, <1>3 DEF CandidatesSound
<1>14. MergedSound'
  <2>1. \A t \in kept : t \in Tasks /\ results'[t] = checkpoint.results[t]
    BY <1>2, <1>4
  <2> QED
    BY <1>5, <1>7, <1>8, <2>1 DEF MergedSound, SoundRecord
<1>15. WorkersIsolated'
  BY <1>1, <1>3 DEF CInv, WorkersIsolated, Collide
<1>16. Todos' /\ DecidingWaits' /\ Idle'
  BY <1>1 DEF Todos, DecidingWaits, Idle
<1>17. TreeFollows'
  BY <1>1, <1>2 DEF TreeFollows, TreeIsMerged, Patches, Writes
<1>18. CheckpointResumable' /\ SavedResultsLast'
  BY <1>1, SavedStays DEF CInv
<1> QED
  BY <1>9, <1>10, <1>11, <1>12, <1>13, <1>14, <1>15, <1>16, <1>17, <1>18 DEF CInv

LEMMA InitCInv == Init => CInv
<1> SUFFICES ASSUME Init PROVE CInv
  OBVIOUS
<1>1. /\ plan \in Plans /\ pc = "off" /\ todo = <<>> /\ progress = FALSE /\ deciding = NoTask
      /\ status = "none" /\ tree = <<>> /\ checkpoint = NoCheckpoint /\ crashes = 0 /\ EmptyState
  BY DEF Init
<1>2. Members(plan) \subseteq Tasks /\ MaxWorkers \in Nat /\ MaxCrashes \in Nat
  BY <1>1, PlanFacts, BoundsAssumption
<1>3. Merged = {} /\ Cardinality({}) = 0
  BY <1>1, FS_EmptySet DEF EmptyState, Merged, ToSet
<1>4. NoResult \in Results /\ 0 \in Attempts /\ "none" \in WorkerOutcomes /\ "none" \in Statuses
  BY DEF NoResult, Results, Attempts, WorkerOutcomes, Statuses
<1>5. checkpoint \in Checkpoints /\ checkpoint.status = "none"
  BY <1>1, <1>4 DEF NoCheckpoint, Checkpoints
<1>6. CoordinatorTypeOK
  <2>1. <<>> \in Seq(Tasks)
    OBVIOUS
  <2>2. todo \in Seq(Tasks) /\ merged \in Seq(Tasks) /\ tree \in Seq(Tasks) /\ progress \in BOOLEAN
    BY <1>1, <2>1, Zenon DEF EmptyState
  <2>3. count \in [Tasks -> Attempts] /\ outcome \in [Tasks -> WorkerOutcomes]
        /\ results \in [Tasks -> Results] /\ base \in [Tasks -> SUBSET Tasks]
    BY <1>1, <1>4 DEF EmptyState
  <2>4. /\ plan \in Plans /\ pc \in Points /\ deciding \in Tasks \cup {NoTask} /\ status \in Statuses
        /\ pending \subseteq Tasks /\ running \subseteq Tasks /\ candidates \subseteq Tasks
        /\ history \subseteq Records /\ crashes \in 0..MaxCrashes
    BY <1>1, <1>2, <1>4 DEF EmptyState, Points
  <2> QED
    BY <1>5, <2>2, <2>3, <2>4 DEF CoordinatorTypeOK
<1>7. Apart /\ Counts /\ Histories /\ CandidatesSound /\ MergedSound
  BY <1>1, <1>2, <1>3 DEF Apart, Counts, Histories, CandidatesSound, MergedSound, EmptyState
<1>8. WorkersIsolated
  BY <1>1, <1>2, <1>3 DEF WorkersIsolated, Collide, EmptyState
<1>9. Todos /\ DecidingWaits /\ Idle /\ TreeFollows /\ CheckpointResumable /\ SavedResultsLast
  BY <1>1, <1>5 DEF Todos, DecidingWaits, Idle, TreeFollows, TreeIsMerged, Alive,
     CheckpointResumable, SavedResultsLast
<1> QED
  BY <1>6, <1>7, <1>8, <1>9 DEF CInv

----------------------------------------------------------------------------
(* What is merged is always a prefix of the integration order.             *)
PrefixOK == merged = SubSeq(Order, 1, Len(merged))

LEMMA PrefixGrows ==
  ASSUME NEW S, NEW o \in Seq(S), NEW q \in Seq(S), q = SubSeq(o, 1, Len(q)), Len(q) < Len(o)
  PROVE  Append(q, o[Len(q) + 1]) = SubSeq(o, 1, Len(Append(q, o[Len(q) + 1])))
<1> DEFINE n == Len(q)
           r == Append(q, o[n + 1])
<1>1. n \in Nat /\ Len(o) \in Nat /\ n + 1 <= Len(o) /\ o[n + 1] \in S
  OBVIOUS
<1>2. r \in Seq(S) /\ Len(r) = n + 1 /\ r[n + 1] = o[n + 1] /\ \A i \in 1..n : r[i] = q[i]
  BY <1>1
<1>3. \A i \in 1..n : q[i] = o[i]
  BY <1>1
<1>4. \A i \in 1..(n + 1) : i \in 1..n \/ i = n + 1
  BY <1>1
<1>5. \A i \in 1..(n + 1) : r[i] = o[i]
  BY <1>2, <1>3, <1>4
<1> HIDE DEF r
<1>6. SubSeq(o, 1, n + 1) \in Seq(S) /\ Len(SubSeq(o, 1, n + 1)) = n + 1
      /\ \A i \in 1..(n + 1) : SubSeq(o, 1, n + 1)[i] = o[i]
  BY <1>1
<1>7. r = SubSeq(o, 1, n + 1)
  BY <1>1, <1>2, <1>5, <1>6
<1> QED
  BY <1>2, <1>7 DEF r

LEMMA PrefixKeeps ==
  ASSUME IInv, CInv, PrefixOK, [Next]_vars
  PROVE  PrefixOK'
<1>1. ASSUME UNCHANGED <<plan, merged>> PROVE PrefixOK'
  BY <1>1 DEF PrefixOK, Order
<1>2. CASE UNCHANGED vars
  BY <1>1, <1>2 DEF vars, stateVars
<1>3. CASE \/ Start \/ SelectReady \/ LeaveLoop \/ CollectDone \/ AdvanceDone \/ SaveCheckpoint
           \/ Wait \/ SaveOutcome \/ WriteSummary \/ Coordinate \/ CleanTree
  BY <1>1, <1>3 DEF Start, SelectReady, LeaveLoop, CollectDone, AdvanceDone, SaveCheckpoint,
     Wait, SaveOutcome, WriteSummary, Coordinate, CleanTree, stateVars
<1>4. CASE LaunchNext \/ ApplyFails \/ Settle
  BY <1>1, <1>4 DEF LaunchNext, ApplyFails, Settle
<1>5. CASE \E t \in Tasks : FinishWorker(t)
  BY <1>1, <1>5 DEF FinishWorker
<1>6. CASE Advance
  BY <1>1, <1>6, IntegrateInTurn DEF Advance
<1>7. CASE GatherNext
  <2>1. IntegrateCandidate(Head(todo)) \/ UNCHANGED merged
    BY <1>7 DEF GatherNext
  <2>2. UNCHANGED plan
    BY <1>7 DEF GatherNext
  <2> QED
    BY <1>1, <2>1, <2>2, IntegrateInTurn
<1>8. CASE ApplySucceeds
  <2>1. merged' = Append(merged, deciding) /\ UNCHANGED plan /\ pc = "apply"
    BY <1>8 DEF ApplySucceeds
  <2>2. Len(merged) < Len(Order) /\ deciding = Order[Len(merged) + 1]
    BY <2>1 DEF IInv, ApplyOK
  <2>3. Order \in Seq(Members(plan)) /\ Order \in Seq(Tasks) /\ merged \in Seq(Tasks)
    BY TypeFacts, PlanFacts
  <2>4. merged' = SubSeq(Order, 1, Len(merged'))
    BY <2>1, <2>2, <2>3, PrefixGrows DEF PrefixOK
  <2> QED
    BY <2>1, <2>4 DEF PrefixOK, Order
<1>9. CASE Crash
  <2>1. UNCHANGED plan /\ merged' = <<>>
    BY <1>9 DEF Crash
  <2>2. Order \in Seq(Members(plan))
    BY TypeFacts, PlanFacts
  <2>3. <<>> = SubSeq(Order, 1, Len(<<>>))
    BY <2>2
  <2>4. merged' = SubSeq(Order, 1, Len(merged'))
    BY <2>1, <2>3, Zenon
  <2> QED
    BY <2>1, <2>4 DEF PrefixOK, Order
<1>10. CASE Resume
  <2>1. UNCHANGED plan /\ merged' = checkpoint.merged /\ IsPrefix(checkpoint.merged, Order)
    BY <1>10 DEF Resume, Resumable, Restore
  <2>2. checkpoint.merged \in Seq(Tasks)
    BY DEF CInv, CoordinatorTypeOK, Checkpoints
  <2>3. checkpoint.merged = SubSeq(checkpoint.merged, 1, Len(checkpoint.merged))
    BY <2>2
  <2>4. merged' = SubSeq(Order, 1, Len(merged'))
    BY <2>1, <2>3 DEF IsPrefix
  <2> QED
    BY <2>1, <2>4 DEF PrefixOK, Order
<1> QED
  BY <1>2, <1>3, <1>4, <1>5, <1>6, <1>7, <1>8, <1>9, <1>10 DEF Next, Coordinator, Stopped

(* The coordinator keeps its invariant in every step. *)
FanoutInv == IInv /\ CInv /\ PrefixOK

LEMMA FanoutInvStays ==
  ASSUME FanoutInv, [Next]_vars
  PROVE  FanoutInv'
<1>1. IInv /\ CInv /\ PrefixOK /\ IInv' /\ ApplyOK'
  BY NextStep DEF FanoutInv, IInv
<1>2. PrefixOK'
  BY <1>1, PrefixKeeps
<1>3. CInv'
  <2>1. CASE UNCHANGED vars
    BY <1>1, <2>1, HandoffKeeps DEF vars
  <2>2. CASE Start
    BY <1>1, <2>2, StartKeeps
  <2>3. CASE SelectReady
    BY <1>1, <2>3, SelectKeeps
  <2>4. CASE LeaveLoop \/ AdvanceDone \/ Wait \/ WriteSummary
    BY <1>1, <2>4, LoopKeeps
  <2>5. CASE LaunchNext
    BY <1>1, <2>5, LaunchKeeps
  <2>6. CASE CollectDone
    BY <1>1, <2>6, CollectKeeps
  <2>7. CASE GatherNext
    BY <1>1, <2>7, GatherKeeps
  <2>8. CASE ApplySucceeds \/ ApplyFails
    BY <1>1, <2>8, ApplyKeeps
  <2>9. CASE Advance
    BY <1>1, <2>9, AdvanceKeeps
  <2>10. CASE SaveCheckpoint \/ SaveOutcome
    <3>1. status' # "running" /\ (pc = "close" => status # "running")
      BY <1>1 DEF IInv, StatusOK
    <3>2. Len(merged) <= Len(Order)
      BY <1>1 DEF IInv, MergedOK
    <3> QED
      BY <1>1, <2>10, <3>1, <3>2, SaveKeeps DEF PrefixOK
  <2>11. CASE Settle
    BY <1>1, <2>11, SettleKeeps
  <2>12. CASE \E t \in Tasks : FinishWorker(t)
    BY <1>1, <2>12, FinishKeeps
  <2>13. CASE Coordinate
    BY <1>1, <2>13, HandoffKeeps DEF Coordinate
  <2>14. CASE Crash
    BY <1>1, <2>14, CrashKeeps
  <2>15. CASE CleanTree
    BY <1>1, <2>15, CleanKeeps
  <2>16. CASE Resume
    BY <1>1, <2>16, ResumeKeeps
  <2> QED
    BY <2>1, <2>2, <2>3, <2>4, <2>5, <2>6, <2>7, <2>8, <2>9, <2>10, <2>11, <2>12, <2>13,
       <2>14, <2>15, <2>16 DEF Next, Coordinator, Stopped
<1> QED
  BY <1>1, <1>2, <1>3 DEF FanoutInv

LEMMA FanoutInvHolds == Spec => []FanoutInv
<1>1. Init => FanoutInv
  <2> SUFFICES ASSUME Init PROVE FanoutInv
    OBVIOUS
  <2>1. IInv /\ CInv
    BY InitIInv, InitCInv
  <2>2. merged = <<>> /\ Order \in Seq(Members(plan))
    BY <2>1, TypeFacts, PlanFacts DEF Init, EmptyState
  <2>3. <<>> = SubSeq(Order, 1, Len(<<>>))
    BY <2>2
  <2>4. PrefixOK
    BY <2>2, <2>3, Zenon DEF PrefixOK
  <2> QED
    BY <2>1, <2>4 DEF FanoutInv
<1>2. FanoutInv /\ [Next]_vars => FanoutInv'
  BY FanoutInvStays
<1> QED
  BY <1>1, <1>2, PTL DEF Spec

(* The integration workspace holds exactly the patches of the merged       *)
(* tasks, once each and in the plan's order, through retries, rejected     *)
(* candidates, crashes and resumes.                                        *)
THEOREM TreesAreMerged == Spec => []TreeIsMerged
<1>1. FanoutInv => TreeIsMerged
  BY DEF FanoutInv, CInv, TreeFollows
<1> QED
  BY <1>1, FanoutInvHolds, PTL

(* Whenever the coordinator dies, what it saved while it ran passes every  *)
(* check of a resume: a prefix of the order, one record per attempt and a  *)
(* sound one for each merged task.                                         *)
THEOREM CheckpointsResume == Spec => []CheckpointResumable
<1>1. FanoutInv => CheckpointResumable
  BY DEF FanoutInv, CInv
<1> QED
  BY <1>1, FanoutInvHolds, PTL

(* Workers that run together declare scopes that do not overlap, each      *)
(* started on a tree with its HARD predecessors, and there are never more  *)
(* of them than the fanout allows.                                         *)
THEOREM WorkersAreIsolated == Spec => []WorkersIsolated
<1>1. FanoutInv => WorkersIsolated
  BY DEF FanoutInv, CInv
<1> QED
  BY <1>1, FanoutInvHolds, PTL

----------------------------------------------------------------------------
(* More about kept sequences: the last one.                                *)

LEMMA KeptAll ==
  ASSUME NEW S, NEW s \in Seq(S), NEW keep, ToSet(s) \subseteq keep
  PROVE  Kept(s, keep) = s
<1>1. PICK k : Keeping(s, keep, k) /\ k \in [0..Len(s) -> Seq(S)] /\ Kept(s, keep) = k[Len(s)]
  BY KeptFunction
<1> DEFINE same == {n \in 0..Len(s) : k[n] = SubSeq(s, 1, n)}
<1>2. Len(s) \in Nat /\ k[0] = <<>> /\ SubSeq(s, 1, 0) = <<>> /\ SubSeq(s, 1, Len(s)) = s
  BY <1>1, KeepingSteps
<1>3. 0 \in same
  <2>1. 0 \in 0..Len(s)
    BY <1>2
  <2>2. k[0] = SubSeq(s, 1, 0)
    BY <1>2, Zenon
  <2> QED
    BY <2>1, <2>2
<1>4. ASSUME NEW n \in 1..Len(s), n - 1 \in same PROVE n \in same
  <2>1. s[n] \in keep /\ s[n] \in S
    <3>1. DOMAIN s = 1..Len(s)
      OBVIOUS
    <3> QED
      BY <3>1 DEF ToSet
  <2>2. k[n] = Append(k[n - 1], s[n])
    <3> HIDE DEF same
    <3>1. k[n] = IF s[n] \in keep THEN Append(k[n - 1], s[n]) ELSE k[n - 1]
      BY <1>1, <1>2, KeepingSteps
    <3> QED
      BY <2>1, <3>1
  <2>3. Append(SubSeq(s, 1, n - 1), s[n]) = SubSeq(s, 1, n)
    <3> DEFINE before == SubSeq(s, 1, n - 1)
               upto == SubSeq(s, 1, n)
    <3>1. before \in Seq(S) /\ Len(before) = n - 1 /\ \A i \in 1..(n - 1) : before[i] = s[i]
      BY <1>2
    <3>2. upto \in Seq(S) /\ Len(upto) = n /\ \A i \in 1..n : upto[i] = s[i]
      BY <1>2
    <3> HIDE DEF before, upto
    <3>3. /\ Append(before, s[n]) \in Seq(S) /\ Len(Append(before, s[n])) = n
          /\ Append(before, s[n])[n] = s[n]
          /\ \A i \in 1..(n - 1) : Append(before, s[n])[i] = s[i]
      BY <1>2, <2>1, <3>1
    <3>4. \A i \in 1..n : i = n \/ i \in 1..(n - 1)
      BY <1>2
    <3>5. \A i \in 1..n : Append(before, s[n])[i] = upto[i]
      BY <3>2, <3>3, <3>4
    <3>6. Append(before, s[n]) = upto
      BY <3>2, <3>3, <3>5
    <3> QED
      BY <3>6 DEF before, upto
  <2>4. k[n - 1] = SubSeq(s, 1, n - 1) /\ n \in 0..Len(s)
    BY <1>2, <1>4
  <2>5. k[n] = SubSeq(s, 1, n)
    BY <2>2, <2>3, <2>4
  <2> QED
    BY <2>4, <2>5
<1>5. 0..Len(s) \subseteq same
  <2> HIDE DEF same
  <2> QED
    BY <1>2, <1>3, <1>4, Climb
<1>6. k[Len(s)] = SubSeq(s, 1, Len(s))
  BY <1>2, <1>5
<1> QED
  BY <1>1, <1>2, <1>6

(* x is the last element of s that is in F. *)
LastIn(s, F, x) ==
  \E i \in 1..Len(s) : s[i] = x /\ x \in F /\ \A j \in 1..Len(s) : j > i => s[j] \notin F

LEMMA LastOfAppend ==
  ASSUME NEW S, NEW s \in Seq(S), NEW y \in S, NEW F, NEW x, LastIn(Append(s, y), F, x)
  PROVE  IF y \in F THEN x = y ELSE LastIn(s, F, x)
<1> DEFINE r == Append(s, y)
<1>1. /\ Len(r) = Len(s) + 1 /\ r[Len(s) + 1] = y /\ Len(s) \in Nat
      /\ \A i \in 1..Len(s) : r[i] = s[i]
  OBVIOUS
<1>2. PICK i \in 1..Len(r) : r[i] = x /\ x \in F /\ \A j \in 1..Len(r) : j > i => r[j] \notin F
  BY DEF LastIn
<1> HIDE DEF r
<1>3. CASE i = Len(s) + 1
  BY <1>1, <1>2, <1>3
<1>4. CASE i \in 1..Len(s)
  <2>1. y \notin F
    BY <1>1, <1>2, <1>4
  <2>2. \A j \in 1..Len(s) : j > i => s[j] \notin F
    BY <1>1, <1>2
  <2> QED
    BY <1>1, <1>2, <1>4, <2>1, <2>2 DEF LastIn
<1> QED
  BY <1>1, <1>2, <1>3, <1>4

LEMMA LastOfKept ==
  ASSUME NEW S, NEW s \in Seq(S), NEW keep, NEW F, F \subseteq keep, NEW x,
         LastIn(Kept(s, keep), F, x)
  PROVE  LastIn(s, F, x)
<1> DEFINE q == Kept(s, keep)
<1>1. q \in Seq(S) /\ \E f : PicksOf(s, Len(s), keep, q, f)
  BY KeptPicks
<1>2. PICK f : PicksOf(s, Len(s), keep, q, f)
  BY <1>1
<1>3. PICK i \in 1..Len(q) : q[i] = x /\ x \in F /\ \A j \in 1..Len(q) : j > i => q[j] \notin F
  BY DEF LastIn
<1>4. Len(q) \in Nat /\ Len(s) \in Nat
  BY <1>1
<1> HIDE DEF q
<1>5. f[i] \in 1..Len(s) /\ s[f[i]] = x
  BY <1>2, <1>3 DEF PicksOf
<1>6. ASSUME NEW j \in 1..Len(s), j > f[i] PROVE s[j] \notin F
  <2> SUFFICES ASSUME s[j] \in F PROVE FALSE
    OBVIOUS
  <2>1. PICK k \in 1..Len(q) : f[k] = j
    BY <1>2 DEF PicksOf
  <2>2. q[k] = s[j]
    BY <1>2, <2>1 DEF PicksOf
  <2>3. ~(k > i)
    BY <1>3, <2>2
  <2>4. k = i \/ k < i
    BY <1>4, <2>3
  <2>5. f[k] = f[i] \/ f[k] < f[i]
    BY <1>2, <2>4 DEF PicksOf
  <2> QED
    BY <1>5, <1>6, <2>1, <2>5
<1> QED
  BY <1>3, <1>5, <1>6 DEF LastIn

(* The sequence made of a finite set has its elements. *)
LEMMA SetToSeqFacts ==
  ASSUME NEW S, IsFiniteSet(S)
  PROVE  SetToSeq(S) \in Seq(S) /\ ToSet(SetToSeq(S)) = S
<1>1. PICK n \in Nat : ExistsBijection(1..n, S)
  BY FS_NatBijection
<1>2. Cardinality(S) = n
  BY <1>1, FS_CountingElements
<1>3. \E f \in [1..n -> S] : IsInjective(f)
  BY <1>1 DEF ExistsBijection, Bijection, Injection, IsInjective
<1> DEFINE f == SetToSeq(S)
<1>4. f \in [1..n -> S] /\ IsInjective(f)
  BY <1>2, <1>3 DEF SetToSeq
<1> HIDE DEF f
<1>5. f \in Injection(1..n, S)
  BY <1>4 DEF Injection, IsInjective
<1>6. Cardinality(1..n) = n
  BY FS_Interval
<1>7. f \in Surjection(1..n, S)
  BY <1>2, <1>5, <1>6, FS_Injection
<1> QED
  BY <1>4, <1>7 DEF f, Surjection, ToSet

----------------------------------------------------------------------------
(* The handoff: what producers offer is seen or waits.                     *)

(* The events of p that carry a version. *)
Forwards(p) == {event \in Events : event.from = p /\ event.type # "FEEDBACK"}
SeenOf(event) == [version |-> event.version, attempt |-> event.attempt]

(* What is offered on an edge comes from the current attempt of its        *)
(* producer.                                                               *)
LatestOK ==
  \A e \in Edges : latest[e] # NoEvent =>
    /\ e \in plan.live /\ latest[e].from = e[1] /\ latest[e].to = e[2]
    /\ latest[e].type # "FEEDBACK" /\ latest[e].attempt = attempt[e[1]]

ConsumedOK ==
  \A e \in Edges : consumed[e] # Unread => consumed[e].version >= 1 /\ consumed[e].attempt >= 1

(* Nothing waits that a restarted task has sent. *)
MailCurrent == \A t \in Tasks : ToSet(mailbox[t]) \subseteq {event \in Events : Current(event)}

(* The latest version on an edge is seen or waits, and it is the last one  *)
(* of its producer that waits.                                             *)
NothingLost ==
  \A e \in plan.live : latest[e] # NoEvent =>
    consumed[e] = SeenOf(latest[e]) \/ latest[e] \in ToSet(mailbox[e[2]])
LastIsLatest ==
  \A e \in plan.live, event \in Events :
    LastIn(mailbox[e[2]], Forwards(e[1]), event) => event = latest[e]

Offers == LiveTypeOK /\ LatestOK /\ ConsumedOK /\ MailCurrent /\ NothingLost /\ LastIsLatest

(* Only the tasks in ts publish, consume or are restarted. *)
Touches(ts) ==
  \A e \in Edges :
    /\ e[1] \notin ts => latest'[e] = latest[e] /\ attempt'[e[1]] = attempt[e[1]]
    /\ e[1] \notin ts /\ e[2] \notin ts => consumed'[e] = consumed[e]

----------------------------------------------------------------------------
LEMMA LiveEdges ==
  ASSUME plan \in Plans
  PROVE  /\ plan.live \subseteq Edges /\ IsFiniteSet(plan.live)
         /\ \A e \in plan.live : e = <<e[1], e[2]>> /\ e[1] \in Tasks /\ e[2] \in Tasks
<1>1. IsFiniteSet(Members(plan)) /\ \A e \in plan.live :
        e \in Edges /\ e[1] \in Members(plan) /\ e[2] \in Members(plan)
  BY PlanFacts
<1>2. IsFiniteSet(Members(plan) \X Members(plan))
  BY <1>1, FS_Product
<1>3. plan.live \subseteq Members(plan) \X Members(plan)
  BY <1>1 DEF Edges
<1>4. IsFiniteSet(plan.live)
  BY <1>2, <1>3, FS_Subset
<1> QED
  BY <1>1, <1>4 DEF Edges

LEMMA EventFacts ==
  ASSUME NEW event \in Events
  PROVE  /\ event.from \in Tasks /\ event.to \in Tasks /\ event.attempt \in 1..2
         /\ event.version \in 1..MaxVersion /\ event # NoEvent
         /\ SeenOf(event) \in [version : 0..MaxVersion, attempt : Attempts]
         /\ SeenOf(event) # Unread
         /\ SeenOf(event).version >= 1 /\ SeenOf(event).attempt >= 1
<1>1. /\ event.from \in Tasks /\ event.to \in Tasks /\ event.attempt \in 1..2
      /\ event.version \in 1..MaxVersion /\ event.type \in {"READY", "FEEDBACK", "UPDATE"}
  BY DEF Events
<1>2. event # NoEvent
  BY <1>1 DEF NoEvent
<1>3. MaxVersion \in Nat
  BY BoundsAssumption
<1> QED
  BY <1>1, <1>2, <1>3 DEF SeenOf, Unread, Attempts

(* What only moves workers leaves what is offered. *)
LEMMA OffersStay ==
  ASSUME Offers, UNCHANGED <<plan, attempt, latest, mailbox, consumed, delivered, events>>,
         worker' \in [Tasks -> WorkerStates], sealed' \in [Tasks -> Attempts]
  PROVE  Offers' /\ Touches({})
<1>1. LiveTypeOK'
  BY DEF Offers, LiveTypeOK
<1>2. LatestOK' /\ ConsumedOK' /\ NothingLost' /\ LastIsLatest'
  BY DEF Offers, LatestOK, ConsumedOK, NothingLost, LastIsLatest
<1>3. MailCurrent'
  BY DEF Offers, MailCurrent, Current
<1> QED
  BY <1>1, <1>2, <1>3 DEF Offers, Touches

LEMMA FinishFits ==
  ASSUME Offers, UNCHANGED plan, NEW t \in Tasks, NEW success \in BOOLEAN,
         FinishAttempt(t, success) \/ SealIntegration(t, success) \/ AuthorizeIntegration(t)
  PROVE  /\ Offers' /\ Touches({})
         /\ \A u \in Tasks \ {t} : worker'[u] = worker[u]
         /\ worker'[t] \in {"finished", "failed", "integrated", "integration_authorized"}
         /\ worker'[t] = "failed" => ~success
<1>1. worker \in [Tasks -> WorkerStates] /\ sealed \in [Tasks -> Attempts]
      /\ attempt \in [Tasks -> Attempts]
  BY DEF Offers, LiveTypeOK
<1>2. /\ worker' \in [Tasks -> WorkerStates] /\ sealed' \in [Tasks -> Attempts]
      /\ \A u \in Tasks \ {t} : worker'[u] = worker[u]
      /\ worker'[t] \in {"finished", "failed", "integrated", "integration_authorized"}
      /\ worker'[t] = "failed" => ~success
      /\ UNCHANGED <<attempt, latest, mailbox, consumed, delivered, events>>
  <2>1. CASE FinishAttempt(t, success)
    BY <1>1, <2>1 DEF FinishAttempt, WorkerStates
  <2>2. CASE SealIntegration(t, success)
    BY <1>1, <2>2 DEF SealIntegration, WorkerStates, Attempts
  <2>3. CASE AuthorizeIntegration(t)
    BY <1>1, <2>3 DEF AuthorizeIntegration, WorkerStates
  <2> QED
    BY <2>1, <2>2, <2>3
<1> QED
  BY <1>2, OffersStay

LEMMA OffersAtFirst ==
  ASSUME LiveInit', plan' \in Plans
  PROVE  Offers'
<1>1. /\ attempt' = [t \in Tasks |-> 0] /\ worker' = [t \in Tasks |-> "pending"]
      /\ sealed' = [t \in Tasks |-> 0] /\ events' = {}
      /\ latest' = [e \in Edges |-> NoEvent] /\ consumed' = [e \in Edges |-> Unread]
      /\ mailbox' = [t \in Tasks |-> <<>>] /\ delivered' = [t \in Tasks |-> {}]
  BY DEF LiveInit
<1>2. <<>> \in Seq(Events) /\ Len(<<>>) = 0 /\ ToSet(<<>>) = {}
  BY DEF ToSet
<1>3. /\ \A t \in Tasks : mailbox'[t] = <<>>
      /\ plan'.live \subseteq Edges /\ \A e \in plan'.live : e[2] \in Tasks
  BY <1>1, PlansAssumption DEF Edges
<1>4. LiveTypeOK'
  <2>1. mailbox' \in [Tasks -> Seq(Events)]
    BY <1>1, <1>2
  <2>2. Unread \in [version : 0..MaxVersion, attempt : Attempts]
    BY BoundsAssumption DEF Unread, Attempts
  <2>3. consumed' \in [Edges -> [version : 0..MaxVersion, attempt : Attempts]]
    BY <1>1, <2>2
  <2>4. 0 \in Attempts /\ "pending" \in WorkerStates
    BY DEF Attempts, WorkerStates
  <2> QED
    BY <1>1, <2>1, <2>3, <2>4 DEF LiveTypeOK
<1>5. LatestOK' /\ ConsumedOK' /\ NothingLost'
  BY <1>1, <1>3 DEF LatestOK, ConsumedOK, NothingLost
<1>6. MailCurrent'
  <2>1. \A t \in Tasks : ToSet(mailbox'[t]) = {}
    BY <1>2, <1>3, Zenon
  <2> QED
    BY <2>1 DEF MailCurrent
<1>7. LastIsLatest'
  <2>1. \A t \in Tasks : Len(mailbox'[t]) = 0
    BY <1>2, <1>3, Zenon
  <2>2. \A e \in plan'.live : 1..Len(mailbox'[e[2]]) = {}
    BY <1>3, <2>1
  <2> QED
    BY <2>2 DEF LastIsLatest, LastIn
<1> QED
  BY <1>4, <1>5, <1>6, <1>7 DEF Offers

(* What others still offer a task that starts again. *)
Offered(t) ==
  {latest[e] : e \in {d \in Edges : d[2] = t /\ d[1] # t /\ latest[d] # NoEvent}}

LEMMA OfferedFacts ==
  ASSUME Offers, plan \in Plans, NEW t \in Tasks
  PROVE  /\ SetToSeq(Offered(t)) \in Seq(Events) /\ ToSet(SetToSeq(Offered(t))) = Offered(t)
         /\ Offered(t) \subseteq Events
         /\ \A event \in Offered(t) : /\ event.from # t /\ event.from \in Tasks
                                      /\ event = latest[<<event.from, t>>]
                                      /\ event.attempt = attempt[event.from]
<1> DEFINE D == {d \in Edges : d[2] = t /\ d[1] # t /\ latest[d] # NoEvent}
           f == [d \in D |-> latest[d]]
<1>1. \A d \in D : /\ d \in plan.live /\ d = <<d[1], t>> /\ d[1] \in Tasks /\ d[1] # t
                   /\ latest[d].from = d[1] /\ latest[d].attempt = attempt[d[1]]
                   /\ latest[d] \in Events
  <2>1. \A d \in D : d = <<d[1], t>> /\ d[1] \in Tasks /\ d[1] # t
    BY DEF Edges
  <2>2. \A d \in D : latest[d] \in Events
    BY DEF Offers, LiveTypeOK
  <2> QED
    BY <2>1, <2>2 DEF Offers, LatestOK
<1>2. D \subseteq plan.live
  BY <1>1
<1>3. IsFiniteSet(D)
  BY <1>2, LiveEdges, FS_Subset
<1>4. f \in Surjection(D, Offered(t))
  BY DEF Surjection, Offered
<1>5. IsFiniteSet(Offered(t))
  <2> HIDE DEF D, f
  <2> QED
    BY <1>3, <1>4, FS_Surjection
<1>6. Offered(t) \subseteq Events
  BY <1>1 DEF Offered
<1>7. /\ SetToSeq(Offered(t)) \in Seq(Offered(t))
      /\ ToSet(SetToSeq(Offered(t))) = Offered(t)
  BY <1>5, SetToSeqFacts
<1>8. SetToSeq(Offered(t)) \in Seq(Events)
  BY <1>6, <1>7
<1>9. ASSUME NEW event \in Offered(t)
      PROVE  /\ event.from # t /\ event.from \in Tasks /\ event = latest[<<event.from, t>>]
             /\ event.attempt = attempt[event.from]
  <2>1. PICK d \in D : event = latest[d]
    BY DEF Offered
  <2>2. event.from = d[1] /\ d = <<d[1], t>>
    BY <1>1, <2>1
  <2> QED
    BY <1>1, <2>1, <2>2
<1> QED
  BY <1>6, <1>7, <1>8, <1>9

(* A task that was never started has offered nothing. *)
LEMMA FirstAttempt ==
  ASSUME Offers, NEW t \in Tasks, attempt[t] = 0
  PROVE  /\ \A e \in Edges : e[1] = t => latest[e] = NoEvent
         /\ \A u \in Tasks : \A event \in ToSet(mailbox[u]) : event.from # t
<1>1. ASSUME NEW e \in Edges, e[1] = t, latest[e] # NoEvent PROVE FALSE
  <2>1. latest[e] \in Events /\ latest[e].attempt = 0
    BY <1>1 DEF Offers, LiveTypeOK, LatestOK
  <2> QED
    BY <2>1, EventFacts
<1>2. ASSUME NEW u \in Tasks, NEW event \in ToSet(mailbox[u]), event.from = t PROVE FALSE
  <2>1. event \in Events /\ event.attempt = 0
    BY <1>2 DEF Offers, MailCurrent, Current
  <2> QED
    BY <2>1, EventFacts
<1> QED
  BY <1>1, <1>2

LEMMA InvalidateFits ==
  ASSUME Offers, plan \in Plans, plan' = plan, NEW t \in Tasks, NEW n \in 1..2,
         InvalidateAttempt(t), attempt' = [attempt EXCEPT ![t] = n],
         worker' = [worker EXCEPT ![t] = "running"], events' = events
  PROVE  Offers' /\ Touches({t})
<1>1. /\ sealed' = [sealed EXCEPT ![t] = 0]
      /\ latest' = [e \in Edges |-> IF e[1] = t THEN NoEvent ELSE latest[e]]
      /\ consumed' = [e \in Edges |-> IF t \in {e[1], e[2]} THEN Unread ELSE consumed[e]]
      /\ mailbox' = [u \in Tasks |->
           IF u = t THEN SetToSeq(Offered(t))
           ELSE Kept(mailbox[u], {event \in Events : event.from # t})]
      /\ delivered' = [delivered EXCEPT ![t] = {}]
  <2> DEFINE kept == [e \in Edges |-> IF e[1] = t THEN NoEvent ELSE latest[e]]
             offered == {kept[e] : e \in {d \in Edges : d[2] = t /\ kept[d] # NoEvent}}
  <2>1. offered = Offered(t)
    BY DEF Offered
  <2> HIDE DEF offered
  <2>2. mailbox' = [u \in Tasks |->
           IF u = t THEN SetToSeq(offered)
           ELSE Kept(mailbox[u], {event \in Events : event.from # t})]
    BY DEF InvalidateAttempt, offered
  <2> QED
    BY <2>1, <2>2 DEF InvalidateAttempt
<1>2. /\ attempt \in [Tasks -> Attempts] /\ worker \in [Tasks -> WorkerStates]
      /\ sealed \in [Tasks -> Attempts] /\ events \subseteq Events
      /\ latest \in [Edges -> Events \cup {NoEvent}] /\ mailbox \in [Tasks -> Seq(Events)]
      /\ consumed \in [Edges -> [version : 0..MaxVersion, attempt : Attempts]]
      /\ delivered \in [Tasks -> SUBSET Events]
  BY DEF Offers, LiveTypeOK
<1> DEFINE others == {event \in Events : event.from # t}
<1>3. \A u \in Tasks \ {t} : /\ mailbox'[u] = Kept(mailbox[u], others)
                             /\ mailbox'[u] \in Seq(Events)
                             /\ ToSet(mailbox'[u]) = ToSet(mailbox[u]) \cap others
  BY <1>1, <1>2, KeptElements
<1>4. mailbox'[t] = SetToSeq(Offered(t))
  BY <1>1
<1>5. /\ mailbox'[t] \in Seq(Events) /\ ToSet(mailbox'[t]) = Offered(t)
      /\ Offered(t) \subseteq Events
      /\ \A event \in Offered(t) : /\ event.from # t /\ event.from \in Tasks
                                   /\ event = latest[<<event.from, t>>]
                                   /\ event.attempt = attempt[event.from]
  BY <1>4, OfferedFacts
<1>6. \A e \in Edges : /\ latest'[e] = IF e[1] = t THEN NoEvent ELSE latest[e]
                       /\ consumed'[e] = IF t \in {e[1], e[2]} THEN Unread ELSE consumed[e]
                       /\ e[1] \in Tasks /\ e[2] \in Tasks
  BY <1>1 DEF Edges
<1>7. \A u \in Tasks \ {t} : attempt'[u] = attempt[u]
  BY <1>2
<1>8. LiveTypeOK'
  <2>1. mailbox' \in [Tasks -> Seq(Events)]
    <3>1. \A u \in Tasks : mailbox'[u] \in Seq(Events)
      BY <1>3, <1>5
    <3>2. mailbox' = [u \in Tasks |-> mailbox'[u]]
      BY <1>1
    <3> QED
      BY <3>1, <3>2
  <2>2. attempt' \in [Tasks -> Attempts] /\ sealed' \in [Tasks -> Attempts]
    BY <1>1, <1>2 DEF Attempts
  <2>3. worker' \in [Tasks -> WorkerStates]
    BY <1>2 DEF WorkerStates
  <2>4. latest' \in [Edges -> Events \cup {NoEvent}]
    BY <1>1, <1>2
  <2>5. Unread \in [version : 0..MaxVersion, attempt : Attempts]
    BY BoundsAssumption DEF Unread, Attempts
  <2>6. consumed' \in [Edges -> [version : 0..MaxVersion, attempt : Attempts]]
    BY <1>1, <1>2, <2>5
  <2>7. delivered' \in [Tasks -> SUBSET Events]
    BY <1>1, <1>2
  <2> QED
    BY <1>2, <2>1, <2>2, <2>3, <2>4, <2>6, <2>7 DEF LiveTypeOK
<1> HIDE DEF others
<1>9. LatestOK'
  <2>1. ASSUME NEW e \in Edges, latest'[e] # NoEvent
        PROVE  /\ e \in plan.live /\ latest'[e].from = e[1] /\ latest'[e].to = e[2]
               /\ latest'[e].type # "FEEDBACK" /\ latest'[e].attempt = attempt'[e[1]]
    <3>1. e[1] # t /\ latest'[e] = latest[e] /\ attempt'[e[1]] = attempt[e[1]]
      BY <1>6, <1>7, <2>1
    <3> QED
      BY <2>1, <3>1 DEF Offers, LatestOK
  <2> QED
    BY <2>1 DEF LatestOK
<1>10. ConsumedOK'
  BY <1>6 DEF Offers, ConsumedOK
<1>11. MailCurrent'
  <2>1. ASSUME NEW u \in Tasks, NEW event \in ToSet(mailbox'[u])
        PROVE  event \in Events /\ event.attempt = attempt'[event.from]
    <3>1. event \in Events /\ event.from # t /\ event.attempt = attempt[event.from]
      <4>1. CASE u = t
        BY <1>5, <2>1, <4>1
      <4>2. CASE u # t
        <5>1. event \in ToSet(mailbox[u]) /\ event \in others
          BY <1>3, <2>1, <4>2
        <5> QED
          BY <5>1 DEF Offers, MailCurrent, Current, others
      <4> QED
        BY <4>1, <4>2
    <3>2. event.from \in Tasks \ {t}
      BY <3>1, EventFacts
    <3> QED
      BY <1>7, <3>1, <3>2
  <2> QED
    BY <2>1 DEF MailCurrent, Current
<1>12. NothingLost'
  <2>1. ASSUME NEW e \in plan.live, latest'[e] # NoEvent
        PROVE  consumed'[e] = SeenOf(latest'[e]) \/ latest'[e] \in ToSet(mailbox'[e[2]])
    <3>1. e \in Edges /\ e = <<e[1], e[2]>>
      BY LiveEdges
    <3>2. e[1] # t /\ latest'[e] = latest[e] /\ latest[e] # NoEvent
      BY <1>6, <2>1, <3>1
    <3>3. CASE e[2] = t
      <4>1. latest[e] \in Offered(t)
        BY <3>1, <3>2, <3>3 DEF Offered
      <4> QED
        BY <1>5, <3>2, <3>3, <4>1
    <3>4. CASE e[2] # t
      <4>1. consumed'[e] = consumed[e] /\ e[2] \in Tasks \ {t}
        BY <1>6, <3>1, <3>2, <3>4
      <4>2. consumed[e] = SeenOf(latest[e]) \/ latest[e] \in ToSet(mailbox[e[2]])
        BY <3>2 DEF Offers, NothingLost
      <4>3. latest[e] \in others
        BY <1>2, <3>1, <3>2 DEF Offers, LatestOK, others
      <4> QED
        BY <1>3, <3>2, <4>1, <4>2, <4>3
    <3> QED
      BY <3>3, <3>4
  <2> QED
    BY <2>1 DEF NothingLost
<1>13. LastIsLatest'
  <2>1. ASSUME NEW e \in plan.live, NEW event \in Events,
               LastIn(mailbox'[e[2]], Forwards(e[1]), event)
        PROVE  event = latest'[e]
    <3>1. e \in Edges /\ e = <<e[1], e[2]>> /\ e[1] \in Tasks /\ e[2] \in Tasks
      BY LiveEdges
    <3>2. event \in ToSet(mailbox'[e[2]]) /\ event.from = e[1]
      <4>1. mailbox'[e[2]] \in Seq(Events)
        BY <1>3, <1>5, <3>1
      <4>2. DOMAIN mailbox'[e[2]] = 1..Len(mailbox'[e[2]])
        BY <4>1
      <4> QED
        BY <2>1, <4>2 DEF LastIn, Forwards, ToSet
    <3>3. CASE e[2] = t
      <4>1. event.from # t /\ event = latest[<<event.from, t>>]
        BY <1>5, <3>2, <3>3
      <4>2. event = latest[e]
        BY <3>1, <3>2, <3>3, <4>1
      <4> QED
        BY <1>6, <3>1, <3>2, <4>1, <4>2
    <3>4. CASE e[2] # t
      <4>1. event \in others
        BY <1>3, <3>1, <3>2, <3>4
      <4>2. e[1] # t
        BY <3>2, <4>1 DEF others
      <4>3. Forwards(e[1]) \subseteq others
        BY <4>2 DEF Forwards, others
      <4>4. mailbox[e[2]] \in Seq(Events) /\ mailbox'[e[2]] = Kept(mailbox[e[2]], others)
        BY <1>2, <1>3, <3>1, <3>4
      <4>5. LastIn(mailbox[e[2]], Forwards(e[1]), event)
        BY <2>1, <4>3, <4>4, LastOfKept
      <4>6. event = latest[e]
        BY <4>5 DEF Offers, LastIsLatest
      <4> QED
        BY <1>6, <3>1, <4>2, <4>6
    <3> QED
      BY <3>3, <3>4
  <2> QED
    BY <2>1 DEF LastIsLatest
<1>14. Touches({t})
  BY <1>6, <1>7 DEF Touches
<1> QED
  BY <1>8, <1>9, <1>10, <1>11, <1>12, <1>13, <1>14 DEF Offers

LEMMA BeginFits ==
  ASSUME Offers, plan \in Plans, plan' = plan, NEW t \in Tasks, NEW n \in 1..2,
         BeginAttempt(t, n)
  PROVE  /\ Offers' /\ Touches({t}) /\ attempt'[t] = n
         /\ \A u \in Tasks \ {t} : worker'[u] = worker[u]
<1>1. /\ attempt' = [attempt EXCEPT ![t] = n] /\ worker' = [worker EXCEPT ![t] = "running"]
      /\ events' = events
  BY DEF BeginAttempt
<1>2. /\ attempt \in [Tasks -> Attempts] /\ worker \in [Tasks -> WorkerStates]
  BY DEF Offers, LiveTypeOK
<1>3. CASE attempt[t] # 0
  <2>1. InvalidateAttempt(t)
    BY <1>3 DEF BeginAttempt
  <2> QED
    BY <1>1, <1>2, <2>1, InvalidateFits
<1>4. CASE attempt[t] = 0
  <2>1. UNCHANGED <<sealed, latest, consumed, mailbox, delivered>>
    BY <1>4 DEF BeginAttempt
  <2>2. \A u \in Tasks \ {t} : attempt'[u] = attempt[u] /\ worker'[u] = worker[u]
    BY <1>1, <1>2
  <2>3. attempt' \in [Tasks -> Attempts] /\ worker' \in [Tasks -> WorkerStates]
        /\ attempt'[t] = n
    BY <1>1, <1>2 DEF Attempts, WorkerStates
  <2>4. LiveTypeOK'
    BY <1>1, <2>1, <2>3 DEF Offers, LiveTypeOK
  <2>5. LatestOK'
    <3>1. \A e \in Edges : latest[e] # NoEvent => e[1] \in Tasks \ {t}
      BY <1>4, FirstAttempt DEF Edges
    <3> QED
      BY <2>1, <2>2, <3>1 DEF Offers, LatestOK
  <2>6. ConsumedOK' /\ NothingLost' /\ LastIsLatest'
    BY <2>1 DEF Offers, ConsumedOK, NothingLost, LastIsLatest
  <2>7. MailCurrent'
    <3>1. ASSUME NEW u \in Tasks, NEW event \in ToSet(mailbox[u])
          PROVE  event \in Events /\ event.attempt = attempt'[event.from]
      <4>1. event \in Events /\ event.attempt = attempt[event.from] /\ event.from # t
        BY <1>4, FirstAttempt DEF Offers, MailCurrent, Current
      <4> QED
        BY <2>2, <4>1, EventFacts
    <3> QED
      BY <2>1, <3>1 DEF MailCurrent, Current
  <2>8. Touches({t})
    BY <2>1, <2>2 DEF Touches, Edges
  <2> QED
    BY <2>2, <2>3, <2>4, <2>5, <2>6, <2>7, <2>8 DEF Offers
<1> QED
  BY <1>3, <1>4

(* An accepted event of a running task: on an edge of its own if it       *)
(* carries a version.                                                      *)
LEMMA PublishFits ==
  ASSUME Offers, plan \in Plans, plan' = plan, NEW event, Publish(event), event \in Events,
         event.attempt = attempt[event.from],
         event.type # "FEEDBACK" => <<event.from, event.to>> \in plan.live
  PROVE  Offers' /\ Touches({event.from})
<1> DEFINE p == event.from
           c == event.to
<1>1. /\ events' = events \cup {event}
      /\ latest' = IF event.type = "FEEDBACK" THEN latest
                   ELSE [latest EXCEPT ![<<p, c>>] = event]
      /\ mailbox' = [mailbox EXCEPT ![c] = Append(@, event)]
      /\ UNCHANGED <<attempt, worker, sealed, consumed, delivered>>
  BY DEF Publish
<1>2. /\ events \subseteq Events /\ latest \in [Edges -> Events \cup {NoEvent}]
      /\ mailbox \in [Tasks -> Seq(Events)]
  BY DEF Offers, LiveTypeOK
<1>3. p \in Tasks /\ c \in Tasks /\ <<p, c>> \in Edges /\ event # NoEvent
  BY EventFacts DEF Edges
<1>4. /\ mailbox'[c] = Append(mailbox[c], event)
      /\ \A u \in Tasks \ {c} : mailbox'[u] = mailbox[u]
  BY <1>1, <1>2, <1>3
<1>5. /\ mailbox'[c] \in Seq(Events) /\ ToSet(mailbox'[c]) = ToSet(mailbox[c]) \cup {event}
      /\ mailbox[c] \in Seq(Events)
  BY <1>2, <1>3, <1>4, AppendSet
<1>6. \A e \in Edges : IF event.type # "FEEDBACK" /\ e = <<p, c>> THEN latest'[e] = event
                       ELSE latest'[e] = latest[e]
  BY <1>1, <1>2, <1>3
<1>7. LiveTypeOK'
  <2>1. mailbox' \in [Tasks -> Seq(Events)]
    BY <1>1, <1>2, <1>3, <1>5
  <2>2. latest' \in [Edges -> Events \cup {NoEvent}]
    BY <1>1, <1>2, <1>3
  <2> QED
    BY <1>1, <1>2, <2>1, <2>2 DEF Offers, LiveTypeOK
<1> HIDE DEF p, c
<1>8. LatestOK'
  <2>1. ASSUME NEW e \in Edges, latest'[e] # NoEvent
        PROVE  /\ e \in plan.live /\ latest'[e].from = e[1] /\ latest'[e].to = e[2]
               /\ latest'[e].type # "FEEDBACK" /\ latest'[e].attempt = attempt[e[1]]
    <3>1. CASE event.type # "FEEDBACK" /\ e = <<p, c>>
      <4>1. latest'[e] = event /\ e \in plan.live /\ e[1] = p /\ e[2] = c
        BY <1>6, <3>1 DEF p, c
      <4> QED
        BY <3>1, <4>1 DEF p, c
    <3>2. CASE ~(event.type # "FEEDBACK" /\ e = <<p, c>>)
      <4>1. latest'[e] = latest[e]
        BY <1>6, <3>2
      <4> QED
        BY <2>1, <4>1 DEF Offers, LatestOK
    <3> QED
      BY <3>1, <3>2
  <2> QED
    BY <1>1, <2>1 DEF LatestOK
<1>9. ConsumedOK'
  BY <1>1 DEF Offers, ConsumedOK
<1>10. MailCurrent'
  <2>1. ASSUME NEW u \in Tasks, NEW x \in ToSet(mailbox'[u])
        PROVE  x \in Events /\ x.attempt = attempt[x.from]
    <3>1. x = event \/ x \in ToSet(mailbox[u])
      BY <1>4, <1>5, <2>1
    <3> QED
      BY <3>1 DEF Offers, MailCurrent, Current
  <2> QED
    BY <1>1, <2>1 DEF MailCurrent, Current
<1>11. NothingLost'
  <2>1. ASSUME NEW e \in plan.live, latest'[e] # NoEvent
        PROVE  consumed[e] = SeenOf(latest'[e]) \/ latest'[e] \in ToSet(mailbox'[e[2]])
    <3>1. e \in Edges /\ e = <<e[1], e[2]>> /\ e[2] \in Tasks
      BY LiveEdges
    <3>2. ToSet(mailbox[e[2]]) \subseteq ToSet(mailbox'[e[2]])
      BY <1>4, <1>5, <3>1
    <3>3. CASE event.type # "FEEDBACK" /\ e = <<p, c>>
      BY <1>5, <1>6, <3>1, <3>3
    <3>4. CASE ~(event.type # "FEEDBACK" /\ e = <<p, c>>)
      <4>1. latest'[e] = latest[e]
        BY <1>6, <3>1, <3>4
      <4> QED
        BY <2>1, <3>2, <4>1 DEF Offers, NothingLost
    <3> QED
      BY <3>3, <3>4
  <2> QED
    BY <1>1, <2>1 DEF NothingLost
<1>12. LastIsLatest'
  <2>1. ASSUME NEW e \in plan.live, NEW x \in Events,
               LastIn(mailbox'[e[2]], Forwards(e[1]), x)
        PROVE  x = latest'[e]
    <3>1. e \in Edges /\ e = <<e[1], e[2]>> /\ e[2] \in Tasks
      BY LiveEdges
    <3>2. CASE e[2] # c
      <4>1. mailbox'[e[2]] = mailbox[e[2]] /\ latest'[e] = latest[e]
        BY <1>4, <1>6, <3>1, <3>2
      <4> QED
        BY <2>1, <4>1 DEF Offers, LastIsLatest
    <3>3. CASE e[2] = c
      <4>1. LastIn(Append(mailbox[c], event), Forwards(e[1]), x)
        BY <1>4, <2>1, <3>3
      <4>2. IF event \in Forwards(e[1]) THEN x = event
            ELSE LastIn(mailbox[c], Forwards(e[1]), x)
        BY <1>5, <4>1, LastOfAppend
      <4>3. CASE event \in Forwards(e[1])
        <5>1. event.type # "FEEDBACK" /\ e = <<p, c>>
          BY <3>1, <3>3, <4>3 DEF Forwards, p
        <5> QED
          BY <1>6, <3>1, <4>2, <4>3, <5>1
      <4>4. CASE event \notin Forwards(e[1])
        <5>1. ~(event.type # "FEEDBACK" /\ e = <<p, c>>)
          BY <3>1, <4>4 DEF Forwards, p
        <5>2. latest'[e] = latest[e]
          BY <1>6, <3>1, <5>1
        <5> QED
          BY <3>3, <4>2, <4>4, <5>2 DEF Offers, LastIsLatest
      <4> QED
        BY <4>3, <4>4
    <3> QED
      BY <3>2, <3>3
  <2> QED
    BY <2>1 DEF LastIsLatest
<1>13. Touches({event.from})
  BY <1>1, <1>6 DEF Touches, p
<1> QED
  BY <1>7, <1>8, <1>9, <1>10, <1>11, <1>12, <1>13 DEF Offers

LEMMA DrainFits ==
  ASSUME Offers, plan \in Plans, plan' = plan, NEW t \in Tasks, DrainMailbox(t)
  PROVE  Offers' /\ Touches({t})
<1> DEFINE handed == Kept(mailbox[t], {event \in Events : Current(event)})
<1>1. /\ mailbox' = [mailbox EXCEPT ![t] = <<>>]
      /\ delivered' = [delivered EXCEPT ![t] = @ \cup ToSet(handed)]
      /\ consumed' = [e \in Edges |->
           IF e[2] = t THEN SeenAfter(handed, e[1], t) ELSE consumed[e]]
      /\ UNCHANGED <<attempt, worker, sealed, latest, events>>
  BY DEF DrainMailbox
<1>2. /\ latest \in [Edges -> Events \cup {NoEvent}] /\ mailbox \in [Tasks -> Seq(Events)]
      /\ consumed \in [Edges -> [version : 0..MaxVersion, attempt : Attempts]]
      /\ delivered \in [Tasks -> SUBSET Events]
  BY DEF Offers, LiveTypeOK
<1>3. handed = mailbox[t] /\ mailbox[t] \in Seq(Events)
  BY <1>2, KeptAll DEF Offers, MailCurrent
<1> HIDE DEF handed
<1>4. \A u \in Tasks : mailbox'[u] = IF u = t THEN <<>> ELSE mailbox[u]
  BY <1>1, <1>2
<1>5. \A e \in Edges : /\ e = <<e[1], e[2]>> /\ e[1] \in Tasks /\ e[2] \in Tasks
                       /\ consumed'[e] = IF e[2] = t THEN SeenAfter(mailbox[t], e[1], t)
                                                     ELSE consumed[e]
  BY <1>1, <1>3 DEF Edges
(* What the consumer has seen of p now. *)
<1>6. ASSUME NEW p \in Tasks
      PROVE  \/ /\ SeenAfter(mailbox[t], p, t) = consumed[<<p, t>>]
                /\ ToSet(mailbox[t]) \cap Forwards(p) = {}
             \/ \E event \in Events : /\ SeenAfter(mailbox[t], p, t) = SeenOf(event)
                                      /\ LastIn(mailbox[t], Forwards(p), event)
  <2> DEFINE forward == Kept(mailbox[t], Forwards(p))
  <2>1. SeenAfter(mailbox[t], p, t) = IF forward = <<>> THEN consumed[<<p, t>>]
                                      ELSE SeenOf(Last(forward))
    BY DEF SeenAfter, SeenOf, Forwards
  <2>2. \/ forward = <<>> /\ \A i \in 1..Len(mailbox[t]) : mailbox[t][i] \notin Forwards(p)
        \/ /\ forward # <<>>
           /\ \E i \in 1..Len(mailbox[t]) :
                /\ Last(forward) = mailbox[t][i] /\ mailbox[t][i] \in Forwards(p)
                /\ \A j \in 1..Len(mailbox[t]) : j > i => mailbox[t][j] \notin Forwards(p)
    BY <1>3, KeptLast
  <2> HIDE DEF forward
  <2>3. DOMAIN mailbox[t] = 1..Len(mailbox[t])
    BY <1>3
  <2>4. CASE forward = <<>>
    <3>1. ToSet(mailbox[t]) \cap Forwards(p) = {}
      BY <2>2, <2>3, <2>4 DEF ToSet
    <3> QED
      BY <2>1, <2>4, <3>1
  <2>5. CASE forward # <<>>
    <3>1. LastIn(mailbox[t], Forwards(p), Last(forward)) /\ Last(forward) \in Forwards(p)
      BY <2>2, <2>5 DEF LastIn
    <3>2. Last(forward) \in Events
      BY <3>1 DEF Forwards
    <3> QED
      BY <2>1, <2>5, <3>1, <3>2
  <2> QED
    BY <2>4, <2>5
<1>7. ASSUME NEW p \in Tasks
      PROVE  \/ SeenAfter(mailbox[t], p, t) = consumed[<<p, t>>]
             \/ \E event \in Events : SeenAfter(mailbox[t], p, t) = SeenOf(event)
  BY <1>6
<1>8. LiveTypeOK'
  <2>1. <<>> \in Seq(Events)
    OBVIOUS
  <2>2. mailbox' \in [Tasks -> Seq(Events)]
    <3>1. \A u \in Tasks : mailbox'[u] \in Seq(Events)
      BY <1>2, <1>4, <2>1, Zenon
    <3>2. mailbox' = [u \in Tasks |-> mailbox'[u]]
      BY <1>1, <1>2
    <3> QED
      BY <3>1, <3>2
  <2>3. \A e \in Edges : consumed'[e] \in [version : 0..MaxVersion, attempt : Attempts]
    <3>1. ASSUME NEW e \in Edges
          PROVE  consumed'[e] \in [version : 0..MaxVersion, attempt : Attempts]
      <4>1. CASE e[2] # t
        BY <1>2, <1>5, <4>1
      <4>2. CASE e[2] = t
        <5>1. \/ consumed'[e] = consumed[e]
              \/ \E event \in Events : consumed'[e] = SeenOf(event)
          BY <1>5, <1>7, <4>2
        <5> QED
          BY <1>2, <5>1, EventFacts
      <4> QED
        BY <4>1, <4>2
    <3> QED
      BY <3>1
  <2>4. consumed' \in [Edges -> [version : 0..MaxVersion, attempt : Attempts]]
    BY <1>1, <2>3
  <2>5. delivered' \in [Tasks -> SUBSET Events]
    <3>1. ToSet(handed) \subseteq Events
      BY <1>3 DEF Offers, MailCurrent
    <3> QED
      BY <1>1, <1>2, <3>1
  <2> QED
    BY <1>1, <2>2, <2>4, <2>5 DEF Offers, LiveTypeOK
<1>9. LatestOK'
  BY <1>1 DEF Offers, LatestOK
<1>10. ConsumedOK'
  <2>1. ASSUME NEW e \in Edges, consumed'[e] # Unread
        PROVE  consumed'[e].version >= 1 /\ consumed'[e].attempt >= 1
    <3>1. CASE consumed'[e] = consumed[e]
      BY <2>1, <3>1 DEF Offers, ConsumedOK
    <3>2. CASE \E event \in Events : consumed'[e] = SeenOf(event)
      BY <3>2, EventFacts
    <3> QED
      BY <1>5, <1>7, <3>1, <3>2
  <2> QED
    BY <2>1 DEF ConsumedOK
<1>11. ToSet(mailbox'[t]) = {} /\ Len(mailbox'[t]) = 0
  <2>1. ToSet(<<>>) = {} /\ Len(<<>>) = 0
    BY DEF ToSet
  <2>2. mailbox'[t] = <<>>
    BY <1>4
  <2> QED
    BY <2>1, <2>2, Zenon
<1>12. MailCurrent'
  <2>1. \A u \in Tasks : ToSet(mailbox'[u]) \subseteq ToSet(mailbox[u])
    <3>1. ASSUME NEW u \in Tasks PROVE ToSet(mailbox'[u]) \subseteq ToSet(mailbox[u])
      <4>1. CASE u = t
        BY <1>11, <4>1
      <4>2. CASE u # t
        <5>1. mailbox'[u] = mailbox[u]
          BY <1>4, <4>2
        <5> QED
          BY <5>1
      <4> QED
        BY <4>1, <4>2
    <3> QED
      BY <3>1
  <2> QED
    BY <1>1, <2>1 DEF Offers, MailCurrent, Current
<1>13. NothingLost'
  <2>1. ASSUME NEW e \in plan.live, latest[e] # NoEvent
        PROVE  consumed'[e] = SeenOf(latest[e]) \/ latest[e] \in ToSet(mailbox'[e[2]])
    <3>1. e \in Edges /\ e = <<e[1], e[2]>> /\ e[1] \in Tasks /\ e[2] \in Tasks
      BY LiveEdges
    <3>2. consumed[e] = SeenOf(latest[e]) \/ latest[e] \in ToSet(mailbox[e[2]])
      BY <2>1 DEF Offers, NothingLost
    <3>3. CASE e[2] # t
      BY <1>4, <1>5, <3>1, <3>2, <3>3
    <3>4. CASE e[2] = t /\ consumed'[e] = consumed[e] /\ ToSet(mailbox[t]) \cap Forwards(e[1]) = {}
      <4>1. latest[e] \in Forwards(e[1])
        BY <1>2, <2>1, <3>1 DEF Offers, LatestOK, Forwards
      <4> QED
        BY <3>2, <3>4, <4>1
    <3>5. CASE e[2] = t /\ \E event \in Events :
                 consumed'[e] = SeenOf(event) /\ LastIn(mailbox[t], Forwards(e[1]), event)
      BY <3>5 DEF Offers, LastIsLatest
    <3> QED
      BY <1>5, <1>6, <3>1, <3>3, <3>4, <3>5
  <2> QED
    BY <1>1, <2>1 DEF NothingLost
<1>14. LastIsLatest'
  <2>1. ASSUME NEW e \in plan.live, NEW event \in Events,
               LastIn(mailbox'[e[2]], Forwards(e[1]), event)
        PROVE  event = latest[e]
    <3>1. e[2] \in Tasks
      BY LiveEdges
    <3>2. CASE e[2] = t
      <4>1. 1..Len(mailbox'[e[2]]) = {}
        BY <1>11, <3>2
      <4> QED
        BY <2>1, <4>1 DEF LastIn
    <3>3. CASE e[2] # t
      <4>1. mailbox'[e[2]] = mailbox[e[2]]
        BY <1>4, <3>1, <3>3
      <4> QED
        BY <2>1, <4>1 DEF Offers, LastIsLatest
    <3> QED
      BY <3>2, <3>3
  <2> QED
    BY <1>1, <2>1 DEF LastIsLatest
<1>15. Touches({t})
  BY <1>1, <1>5 DEF Touches
<1> QED
  BY <1>8, <1>9, <1>10, <1>12, <1>13, <1>14, <1>15 DEF Offers

----------------------------------------------------------------------------
(* The handoff under the coordinator.                                      *)

(* Only a worker that is still at work can use the handoff. *)
WorkerOK ==
  \A t \in Tasks : worker[t] = "running" =>
    t \in running /\ outcome[t] = "working" /\ IsLive(t) /\ attempt[t] \in 1..2
MergedWorked == \A t \in Merged : IsLive(t) => worker[t] # "failed"

(* What is integrated or about to be has seen the last versions of its     *)
(* producers, which are merged.                                            *)
Secured == Merged \cup (IF pc = "apply" THEN {deciding} ELSE {})
FreshEdge(e) ==
  /\ e[1] \in Merged /\ HasLatest(e[1], e[2]) /\ consumed[e] = SeenOf(latest[e])
SecuredFresh == \A e \in plan.live : e[2] \in Secured => FreshEdge(e)

HandoffInv == Offers /\ WorkerOK /\ MergedWorked /\ SecuredFresh

----------------------------------------------------------------------------
LEMMA FreshStays ==
  ASSUME CInv, Offers, SecuredFresh, plan' = plan, Merged \subseteq Merged',
         Secured' \subseteq Secured, NEW ts, Touches(ts), ts \cap Secured = {}
  PROVE  SecuredFresh'
<1>1. ASSUME NEW e \in plan.live, e[2] \in Secured'
      PROVE  /\ e[1] \in Merged' /\ consumed'[e] = SeenOf(latest'[e])
             /\ latest'[<<e[1], e[2]>>] # NoEvent
             /\ attempt'[latest'[<<e[1], e[2]>>].from] = latest'[<<e[1], e[2]>>].attempt
             /\ e = <<e[1], e[2]>>
  <2>1. e \in Edges /\ e = <<e[1], e[2]>>
    BY TypeFacts, LiveEdges
  <2>2. FreshEdge(e) /\ e[1] \notin ts /\ e[2] \notin ts
    BY <1>1 DEF SecuredFresh, FreshEdge, Secured
  <2>3. latest'[e] = latest[e] /\ consumed'[e] = consumed[e] /\ attempt'[e[1]] = attempt[e[1]]
    BY <2>1, <2>2 DEF Touches
  <2>4. latest[e].from = e[1] /\ latest[e] # NoEvent /\ latest[e].attempt = attempt[e[1]]
    BY <2>1, <2>2 DEF FreshEdge, HasLatest, Offers, LatestOK
  <2> QED
    BY <2>1, <2>2, <2>3, <2>4 DEF FreshEdge
<1> QED
  BY <1>1 DEF SecuredFresh, FreshEdge, HasLatest, Current

(* A step of the coordinator that leaves tasks where they are. *)
LEMMA QuietHandoff ==
  ASSUME CInv, HandoffInv, UNCHANGED <<plan, liveVars, running, outcome, merged>>,
         pc' = "apply" => pc = "apply" /\ deciding' = deciding
  PROVE  HandoffInv'
<1>1. Offers' /\ Touches({})
  BY OffersStay DEF HandoffInv, liveVars, Offers, LiveTypeOK
<1>2. WorkerOK' /\ MergedWorked'
  BY DEF HandoffInv, WorkerOK, MergedWorked, liveVars, IsLive, Merged
<1>3. Secured' \subseteq Secured /\ Merged' = Merged
  BY DEF Secured, Merged
<1>4. SecuredFresh'
  BY <1>1, <1>3, FreshStays DEF HandoffInv
<1> QED
  BY <1>1, <1>2, <1>4 DEF HandoffInv

LEMMA QuietSteps ==
  ASSUME CInv, HandoffInv,
         \/ UNCHANGED vars \/ Start \/ SelectReady \/ LeaveLoop \/ CollectDone \/ AdvanceDone
         \/ SaveCheckpoint \/ Wait \/ SaveOutcome \/ WriteSummary \/ CleanTree \/ Settle
  PROVE  HandoffInv'
<1>1. /\ UNCHANGED <<plan, liveVars, running, outcome, merged>>
      /\ pc' = "apply" => pc = "apply" /\ deciding' = deciding
  <2>1. CASE UNCHANGED vars
    BY <2>1 DEF vars, stateVars, controlVars
  <2>2. CASE Start \/ SelectReady \/ LeaveLoop \/ CollectDone
    BY <2>2 DEF Start, SelectReady, LeaveLoop, CollectDone, stateVars
  <2>3. CASE AdvanceDone \/ SaveCheckpoint \/ Wait \/ SaveOutcome \/ WriteSummary
    BY <2>3 DEF AdvanceDone, SaveCheckpoint, Wait, SaveOutcome, WriteSummary, stateVars
  <2>4. CASE CleanTree
    BY <2>4 DEF CleanTree, stateVars, controlVars
  <2>5. CASE Settle
    BY <2>5 DEF Settle
  <2> QED
    BY <2>1, <2>2, <2>3, <2>4, <2>5
<1> QED
  BY <1>1, QuietHandoff

LEMMA LaunchHandsOff == ASSUME CInv, HandoffInv, LaunchNext PROVE HandoffInv'
<1> DEFINE t == Head(todo)
<1>1. /\ pc = "launch" /\ pc' = "launch" /\ todo # <<>>
      /\ running' = running \cup {t} /\ outcome' = [outcome EXCEPT ![t] = "working"]
      /\ plan' = plan /\ merged' = merged
      /\ IF IsLive(t) THEN BeginAttempt(t, count[t] + 1) ELSE UNCHANGED liveVars
  BY DEF LaunchNext
<1>2. /\ t \in pending /\ t \in Tasks /\ t \notin running /\ t \notin Merged
      /\ count[t] + 1 \in 1..2
  <2>1. t \in pending
    BY <1>1, TypeFacts, HeadAndTail DEF CInv, Todos
  <2>2. t \in Tasks /\ count[t] \in {0, 1}
    BY <2>1, TypeFacts DEF CInv, CoordinatorTypeOK, Counts, Attempts
  <2> QED
    BY <2>1, <2>2 DEF CInv, Apart
<1>3. /\ outcome'[t] = "working" /\ \A u \in Tasks \ {t} : outcome'[u] = outcome[u]
      /\ plan \in Plans
  BY <1>1, <1>2, TypeFacts
<1> DEFINE n == count[t] + 1
<1>4. IsLive(t) => BeginAttempt(t, n)
  BY <1>1
<1>5. n \in 1..2
  BY <1>2
<1> HIDE DEF t, n
<1>6. /\ Offers' /\ Touches({t})
      /\ \A u \in Tasks \ {t} : worker'[u] = worker[u] /\ attempt'[u] = attempt[u]
      /\ IsLive(t) => attempt'[t] \in 1..2
      /\ ~IsLive(t) => UNCHANGED liveVars
  <2>1. CASE IsLive(t)
    <3>1. /\ Offers' /\ Touches({t}) /\ attempt'[t] = n
          /\ \A u \in Tasks \ {t} : worker'[u] = worker[u]
      BY <1>1, <1>2, <1>3, <1>4, <1>5, <2>1, BeginFits DEF HandoffInv
    <3>2. attempt' = [attempt EXCEPT ![t] = n] /\ attempt \in [Tasks -> Attempts]
      BY <1>4, <2>1 DEF BeginAttempt, HandoffInv, Offers, LiveTypeOK
    <3> QED
      BY <1>5, <2>1, <3>1, <3>2
  <2>2. CASE ~IsLive(t)
    <3>1. UNCHANGED liveVars
      BY <1>1, <2>2 DEF t
    <3>2. Offers' /\ Touches({})
      BY <1>1, <3>1, OffersStay DEF HandoffInv, liveVars, Offers, LiveTypeOK
    <3> QED
      BY <2>2, <3>1, <3>2 DEF Touches, liveVars
  <2> QED
    BY <2>1, <2>2
<1>7. WorkerOK'
  <2>1. ASSUME NEW u \in Tasks, worker'[u] = "running"
        PROVE  /\ u \in running' /\ outcome'[u] = "working" /\ IsLive(u)
               /\ attempt'[u] \in 1..2
    <3>1. CASE u # t
      <4>1. worker[u] = "running" /\ attempt'[u] = attempt[u] /\ outcome'[u] = outcome[u]
        BY <1>3, <1>6, <2>1, <3>1
      <4> QED
        BY <1>1, <4>1 DEF HandoffInv, WorkerOK, t
    <3>2. CASE u = t
      <4>1. IsLive(t)
        <5> SUFFICES ASSUME ~IsLive(t) PROVE FALSE
          OBVIOUS
        <5>1. worker[t] = "running"
          BY <1>6, <2>1, <3>2 DEF liveVars
        <5> QED
          BY <1>2, <5>1 DEF HandoffInv, WorkerOK
      <4> QED
        BY <1>1, <1>3, <1>6, <3>2, <4>1 DEF t
    <3> QED
      BY <3>1, <3>2
  <2> QED
    BY <1>1, <2>1 DEF WorkerOK, IsLive
<1>8. Merged' = Merged /\ \A u \in Merged : u \in Tasks \ {t}
  BY <1>1, <1>2, TypeFacts DEF Merged, CInv, Apart
<1>9. MergedWorked'
  BY <1>1, <1>6, <1>8 DEF HandoffInv, MergedWorked, IsLive
<1>10. Secured' = Merged' /\ Secured = Merged
  BY <1>1 DEF Secured
<1>11. SecuredFresh'
  BY <1>1, <1>2, <1>6, <1>8, <1>10, FreshStays DEF HandoffInv
<1> QED
  BY <1>6, <1>7, <1>9, <1>11 DEF HandoffInv

(* What becomes of a task in the handoff whose worker has ended. *)
Ends(t) ==
  /\ Offers' /\ Touches({}) /\ attempt' = attempt
  /\ \A u \in Tasks \ {t} : worker'[u] = worker[u]
  /\ worker'[t] # "running"

LEMMA SettledEnds ==
  ASSUME Offers, plan' = plan, NEW t \in Tasks, NEW success \in BOOLEAN,
         FinishAttempt(t, success) \/ SealIntegration(t, success) \/ AuthorizeIntegration(t)
  PROVE  Ends(t) /\ (worker'[t] = "failed" => ~success)
<1>1. attempt' = attempt
  BY DEF FinishAttempt, SealIntegration, AuthorizeIntegration
<1>2. /\ Offers' /\ Touches({})
      /\ \A u \in Tasks \ {t} : worker'[u] = worker[u]
      /\ worker'[t] \in {"finished", "failed", "integrated", "integration_authorized"}
      /\ worker'[t] = "failed" => ~success
  BY FinishFits
<1> QED
  BY <1>1, <1>2 DEF Ends

LEMMA StillEnds ==
  ASSUME Offers, plan' = plan, NEW t \in Tasks, worker[t] # "running", UNCHANGED liveVars
  PROVE  Ends(t)
BY OffersStay DEF Ends, liveVars, Offers, LiveTypeOK

LEMMA CandidateEnds ==
  ASSUME CInv, Offers, plan' = plan, NEW t \in Tasks, worker[t] # "running",
         IntegrateCandidate(t)
  PROVE  /\ Ends(t) /\ merged' = merged
         /\ pc' = "gather" \/ (pc' = "apply" /\ deciding' = t)
         /\ pc' = "apply" => \A e \in plan.live : e[2] = t => FreshEdge(e)
<1>1. ASSUME NEW kind \in {"conflict", "other"}, RejectCandidate(t, kind)
      PROVE  Ends(t) /\ merged' = merged /\ pc' = "gather" /\ pc' # "apply"
  <2>1. /\ IF IsLive(t) THEN SealIntegration(t, FALSE) ELSE UNCHANGED liveVars
        /\ merged' = merged /\ pc' = "gather"
    BY <1>1 DEF RejectCandidate
  <2> QED
    BY <2>1, SettledEnds, StillEnds
<1>2. CASE \E kind \in {"conflict", "other"} : RejectCandidate(t, kind)
  BY <1>1, <1>2
<1>3. CASE KeepCandidate(t)
  <2>1. UNCHANGED liveVars /\ merged' = merged /\ pc' = "gather" /\ pc' # "apply"
    BY <1>3 DEF KeepCandidate
  <2>2. Ends(t)
    BY <2>1, StillEnds
  <2> QED
    BY <2>1, <2>2
<1>4. CASE /\ ~Deferred(t) /\ deciding' = t /\ pc' = "apply" /\ merged' = merged
           /\ IF Producers(t) = {} THEN UNCHANGED liveVars ELSE AuthorizeIntegration(t)
  <2>1. Ends(t)
    BY <1>4, SettledEnds, StillEnds
  <2>2. ASSUME NEW e \in plan.live, e[2] = t PROVE FreshEdge(e)
    <3>1. e = <<e[1], e[2]>> /\ e[1] \in Producers(t)
      BY <2>2, TypeFacts, LiveEdges DEF Producers, Upstream
    <3>2. e[1] \in Merged
      BY <1>4, <3>1 DEF Deferred
    <3>3. IsFresh(t)
      BY <1>4, <3>1 DEF AuthorizeIntegration
    <3> QED
      BY <2>2, <3>1, <3>2, <3>3 DEF IsFresh, FreshEdge, SeenOf
  <2> QED
    BY <1>4, <2>1, <2>2
<1> QED
  BY <1>2, <1>3, <1>4 DEF IntegrateCandidate

(* Such a step keeps the invariant if t is not merged yet. *)
LEMMA EndsKeep ==
  ASSUME CInv, HandoffInv, plan' = plan, NEW t \in Tasks, t \notin Merged, Ends(t),
         running \ {t} \subseteq running', \A u \in Tasks \ {t} : outcome'[u] = outcome[u],
         Merged' = Merged, Secured' \subseteq Secured \cup {t},
         t \in Secured' \ Secured => \A e \in plan.live : e[2] = t => FreshEdge(e)
  PROVE  HandoffInv'
<1>1. WorkerOK'
  <2>1. ASSUME NEW u \in Tasks, worker'[u] = "running"
        PROVE  /\ u \in running' /\ outcome'[u] = "working" /\ IsLive(u)
               /\ attempt'[u] \in 1..2
    <3>1. u # t /\ worker[u] = "running"
      BY <2>1 DEF Ends
    <3> QED
      BY <3>1 DEF HandoffInv, WorkerOK, Ends
  <2> QED
    BY <2>1 DEF WorkerOK, IsLive
<1>2. MergedWorked'
  <2>1. \A u \in Merged : u \in Tasks \ {t}
    BY TypeFacts DEF CInv, Apart
  <2> QED
    BY <2>1 DEF HandoffInv, MergedWorked, Ends, IsLive
<1>3. SecuredFresh'
  <2>1. ASSUME NEW e \in plan.live, e[2] \in Secured' PROVE FreshEdge(e)
    BY <2>1 DEF HandoffInv, SecuredFresh
  <2>2. ASSUME NEW e \in plan.live, FreshEdge(e) PROVE FreshEdge(e)'
    <3>1. e \in Edges /\ e = <<e[1], e[2]>>
      BY TypeFacts, LiveEdges
    <3>2. latest'[e] = latest[e] /\ consumed'[e] = consumed[e]
      BY <3>1 DEF Ends, Touches
    <3> QED
      BY <2>2, <3>1, <3>2 DEF FreshEdge, HasLatest, Current, Ends
  <2> QED
    BY <2>1, <2>2 DEF SecuredFresh
<1> QED
  BY <1>1, <1>2, <1>3 DEF HandoffInv, Ends

LEMMA GatherHandsOff == ASSUME CInv, HandoffInv, GatherNext PROVE HandoffInv'
<1> DEFINE t == Head(todo)
<1>1. /\ t \in running /\ t \in Tasks /\ t \notin Merged /\ outcome[t] # "working"
  BY GatherFacts
<1>2. /\ pc = "gather" /\ running' = running \ {t} /\ outcome' = outcome /\ plan' = plan
      /\ \/ IntegrateCandidate(t)
         \/ UNCHANGED <<liveVars, merged, deciding, pc>>
  BY DEF GatherNext
<1>3. worker[t] # "running"
  BY <1>1 DEF HandoffInv, WorkerOK
<1> HIDE DEF t
<1>4. /\ Ends(t) /\ merged' = merged
      /\ pc' = "gather" \/ (pc' = "apply" /\ deciding' = t)
      /\ pc' = "apply" => \A e \in plan.live : e[2] = t => FreshEdge(e)
  <2>1. CASE IntegrateCandidate(t)
    BY <1>1, <1>2, <1>3, <2>1, CandidateEnds DEF HandoffInv
  <2>2. CASE UNCHANGED <<liveVars, merged, deciding, pc>>
    BY <1>1, <1>2, <1>3, <2>2, StillEnds DEF HandoffInv
  <2> QED
    BY <1>2, <2>1, <2>2
<1>5. Merged' = Merged /\ Secured' \subseteq Secured \cup {t}
      /\ (pc' # "apply" => t \notin Secured')
  BY <1>1, <1>2, <1>4 DEF Merged, Secured
<1>6. t \in Secured' \ Secured => \A e \in plan.live : e[2] = t => FreshEdge(e)
  BY <1>4, <1>5
<1> QED
  BY <1>1, <1>2, <1>4, <1>5, <1>6, EndsKeep

LEMMA AdvanceHandsOff == ASSUME CInv, HandoffInv, Advance PROVE HandoffInv'
<1> DEFINE t == Frontier
<1>1. /\ t \in candidates /\ pc = "gather" /\ IntegrateCandidate(t)
      /\ UNCHANGED <<plan, running, outcome>>
  BY DEF Advance, Advanceable
<1>2. t \in Tasks /\ t \notin Merged /\ t \notin running
  BY <1>1 DEF CInv, CoordinatorTypeOK, Apart
<1>3. worker[t] # "running"
  BY <1>2 DEF HandoffInv, WorkerOK
<1> HIDE DEF t
<1>4. /\ Ends(t) /\ merged' = merged
      /\ pc' = "gather" \/ (pc' = "apply" /\ deciding' = t)
      /\ pc' = "apply" => \A e \in plan.live : e[2] = t => FreshEdge(e)
  BY <1>1, <1>2, <1>3, CandidateEnds DEF HandoffInv
<1>5. Merged' = Merged /\ Secured' \subseteq Secured \cup {t}
      /\ (pc' # "apply" => t \notin Secured')
  BY <1>2, <1>1, <1>4 DEF Merged, Secured
<1>6. t \in Secured' \ Secured => \A e \in plan.live : e[2] = t => FreshEdge(e)
  BY <1>4, <1>5
<1> QED
  BY <1>1, <1>2, <1>4, <1>5, <1>6, EndsKeep

LEMMA ApplyHandsOff == ASSUME CInv, HandoffInv, ApplySucceeds \/ ApplyFails PROVE HandoffInv'
<1> DEFINE t == deciding
<1>1. /\ pc = "apply" /\ pc' = "gather" /\ UNCHANGED <<plan, running, outcome>>
  BY DEF ApplySucceeds, ApplyFails
<1>2. t \in candidates /\ t \in Tasks /\ t \notin Merged /\ t \notin running
  BY <1>1 DEF CInv, DecidingWaits, CoordinatorTypeOK, Apart
<1>3. worker[t] # "running"
  BY <1>2 DEF HandoffInv, WorkerOK
<1>4. CASE ApplyFails
  <2>1. merged' = merged
        /\ IF IsLive(t) THEN SealIntegration(t, FALSE) ELSE UNCHANGED liveVars
    BY <1>4 DEF ApplyFails
  <2>2. Ends(t)
    BY <1>1, <1>2, <1>3, <2>1, SettledEnds, StillEnds DEF HandoffInv
  <2>3. Merged' = Merged /\ Secured' \subseteq Secured
    BY <1>1, <2>1 DEF Merged, Secured
  <2> HIDE DEF t
  <2> QED
    BY <1>1, <1>2, <2>2, <2>3, EndsKeep
<1>5. CASE ApplySucceeds
  <2>1. merged' = Append(merged, t)
        /\ IF IsLive(t) THEN SealIntegration(t, TRUE) ELSE UNCHANGED liveVars
    BY <1>5 DEF ApplySucceeds
  <2>2. Ends(t) /\ (IsLive(t) => worker'[t] # "failed")
    BY <1>1, <1>2, <1>3, <2>1, SettledEnds, StillEnds DEF HandoffInv
  <2>3. Merged' = Merged \cup {t}
    BY <1>2, <2>1, TypeFacts, AppendSet DEF Merged
  <2>4. Secured' = Secured /\ Merged \subseteq Merged'
    BY <1>1, <2>3 DEF Secured
  <2> HIDE DEF t
  <2>5. WorkerOK'
    <3>1. ASSUME NEW u \in Tasks, worker'[u] = "running"
          PROVE  /\ u \in running' /\ outcome'[u] = "working" /\ IsLive(u)
                 /\ attempt'[u] \in 1..2
      <4>1. u # t /\ worker[u] = "running"
        BY <2>2, <3>1 DEF Ends
      <4> QED
        BY <1>1, <2>2, <4>1 DEF HandoffInv, WorkerOK, Ends
    <3> QED
      BY <1>1, <3>1 DEF WorkerOK, IsLive
  <2>6. MergedWorked'
    <3>1. \A u \in Merged : u \in Tasks \ {t}
      BY <1>2, TypeFacts DEF CInv, Apart
    <3> QED
      BY <1>1, <2>2, <2>3, <3>1 DEF HandoffInv, MergedWorked, Ends, IsLive
  <2>7. SecuredFresh'
    BY <1>1, <2>2, <2>4, FreshStays DEF HandoffInv, Ends
  <2> QED
    BY <2>2, <2>5, <2>6, <2>7 DEF HandoffInv, Ends
<1> QED
  BY <1>4, <1>5

LEMMA FinishHandsOff ==
  ASSUME CInv, HandoffInv, NEW t \in Tasks, FinishWorker(t)
  PROVE  HandoffInv'
<1>1. PICK ending \in RunEndings : \E told \in AttemptOutcomes(t, ending) :
        /\ outcome' = [outcome EXCEPT ![t] = told]
        /\ IF IsLive(t) THEN FinishAttempt(t, told \in CandidateOutcomes) ELSE UNCHANGED liveVars
  BY DEF FinishWorker
<1>2. PICK told \in AttemptOutcomes(t, ending) :
        /\ outcome' = [outcome EXCEPT ![t] = told]
        /\ IF IsLive(t) THEN FinishAttempt(t, told \in CandidateOutcomes) ELSE UNCHANGED liveVars
  BY <1>1
<1>3. /\ t \in running
      /\ UNCHANGED <<plan, running, merged, controlVars>>
  BY DEF FinishWorker
<1>4. t \notin Merged /\ \A u \in Tasks \ {t} : outcome'[u] = outcome[u]
  BY <1>2, <1>3, TypeFacts DEF CInv, Apart
<1> DEFINE success == told \in CandidateOutcomes
<1>5. success \in BOOLEAN
  OBVIOUS
<1>6. IF IsLive(t) THEN FinishAttempt(t, success) ELSE UNCHANGED liveVars
  BY <1>2
<1> HIDE DEF success
<1>7. Ends(t)
  <2>1. CASE IsLive(t)
    BY <1>3, <1>5, <1>6, <2>1, SettledEnds DEF HandoffInv
  <2>2. CASE ~IsLive(t)
    BY <1>3, <1>6, <2>2, StillEnds DEF HandoffInv, WorkerOK
  <2> QED
    BY <2>1, <2>2
<1>8. Merged' = Merged /\ Secured' = Secured
  BY <1>3 DEF Merged, Secured, controlVars
<1> QED
  BY <1>3, <1>4, <1>7, <1>8, EndsKeep

(* The handoff's own steps are those of a worker at work. *)
LEMMA CoordinateFits ==
  ASSUME CInv, HandoffInv, Coordinate
  PROVE  /\ Offers' /\ worker' = worker /\ attempt' = attempt
         /\ \E t \in Tasks : worker[t] = "running" /\ Touches({t})
<1>1. /\ plan \in Plans /\ plan' = plan /\ MaxVersion \in Nat \ {0}
      /\ attempt \in [Tasks -> Attempts] /\ latest \in [Edges -> Events \cup {NoEvent}]
      /\ consumed \in [Edges -> [version : 0..MaxVersion, attempt : Attempts]]
  BY TypeFacts, BoundsAssumption DEF Coordinate, HandoffInv, Offers, LiveTypeOK
<1>2. PICK e \in plan.live : \/ PublishReady(e[1], e[2])
                             \/ PublishUpdate(e[1], e[2])
                             \/ PublishFeedback(e[2], e[1])
                             \/ DrainMailbox(e[1])
                             \/ DrainMailbox(e[2])
  BY DEF Coordinate
<1>3. e \in Edges /\ e = <<e[1], e[2]>> /\ e[1] \in Tasks /\ e[2] \in Tasks
  BY <1>1, LiveEdges
<1> DEFINE p == e[1]
           c == e[2]
<1>4. ASSUME NEW event, Publish(event), event \in Events, event.attempt = attempt[event.from],
             event.type # "FEEDBACK" => <<event.from, event.to>> \in plan.live
      PROVE  /\ Offers' /\ worker' = worker /\ attempt' = attempt
             /\ \E t \in Tasks : worker[t] = "running" /\ Touches({t})
  <2>1. Offers' /\ Touches({event.from})
    BY <1>1, <1>4, PublishFits DEF HandoffInv
  <2>2. worker' = worker /\ attempt' = attempt /\ worker[event.from] = "running"
    BY <1>4 DEF Publish
  <2>3. event.from \in Tasks
    BY <1>4, EventFacts
  <2> QED
    BY <2>1, <2>2, <2>3
<1>5. \A t \in Tasks : worker[t] = "running" => attempt[t] \in 1..2
  BY DEF HandoffInv, WorkerOK
<1>6. CASE PublishReady(p, c)
  <2> DEFINE event == [type |-> "READY", from |-> p, to |-> c, version |-> 1,
                       attempt |-> attempt[p], about |-> 0]
  <2>1. Publish(event) /\ worker[p] = "running"
    BY <1>6 DEF PublishReady, Publish
  <2>2. 1 \in 1..MaxVersion
    BY <1>1
  <2>3. event \in Events
    BY <1>3, <1>5, <2>1, <2>2 DEF Events, Attempts
  <2>4. event.attempt = attempt[event.from] /\ <<event.from, event.to>> \in plan.live
    BY <1>2, <1>3
  <2> HIDE DEF event
  <2> QED
    BY <1>4, <2>1, <2>3, <2>4
<1>7. CASE PublishUpdate(p, c)
  <2> DEFINE newest == latest[<<p, c>>]
             event == [type |-> "UPDATE", from |-> p, to |-> c, version |-> newest.version + 1,
                       attempt |-> attempt[p], about |-> 0]
  <2>1. Publish(event) /\ worker[p] = "running" /\ newest # NoEvent /\ newest.version < MaxVersion
    BY <1>7 DEF PublishUpdate, Publish
  <2>2. newest \in Events
    BY <1>1, <1>3, <2>1
  <2>3. newest.version + 1 \in 1..MaxVersion
    BY <1>1, <2>1, <2>2, EventFacts
  <2>4. event \in Events
    BY <1>3, <1>5, <2>1, <2>3 DEF Events, Attempts
  <2>5. event.attempt = attempt[event.from] /\ <<event.from, event.to>> \in plan.live
    BY <1>2, <1>3
  <2> HIDE DEF event
  <2> QED
    BY <1>4, <2>1, <2>4, <2>5
<1>8. CASE PublishFeedback(c, p)
  <2> DEFINE seen == consumed[<<p, c>>]
             event == [type |-> "FEEDBACK", from |-> c, to |-> p, version |-> seen.version,
                       attempt |-> attempt[c], about |-> seen.attempt]
  <2>1. Publish(event) /\ worker[c] = "running" /\ seen # Unread
    BY <1>8 DEF PublishFeedback, Publish
  <2>2. seen \in [version : 0..MaxVersion, attempt : Attempts] /\ seen.version >= 1
    BY <1>1, <1>3, <2>1 DEF HandoffInv, Offers, ConsumedOK
  <2>3. seen.version \in 1..MaxVersion /\ seen.attempt \in Attempts
    BY <1>1, <2>2
  <2>4. event \in Events
    BY <1>3, <1>5, <2>1, <2>3 DEF Events
  <2>5. event.attempt = attempt[event.from] /\ event.type = "FEEDBACK"
    OBVIOUS
  <2> HIDE DEF event
  <2> QED
    BY <1>4, <2>1, <2>4, <2>5
<1>9. ASSUME NEW t \in Tasks, DrainMailbox(t)
      PROVE  /\ Offers' /\ worker' = worker /\ attempt' = attempt
             /\ worker[t] = "running" /\ Touches({t})
  <2>1. Offers' /\ Touches({t})
    BY <1>1, <1>9, DrainFits DEF HandoffInv
  <2> QED
    BY <1>9, <2>1 DEF DrainMailbox
<1> QED
  BY <1>2, <1>3, <1>6, <1>7, <1>8, <1>9

LEMMA CoordinateHandsOff == ASSUME CInv, HandoffInv, Coordinate PROVE HandoffInv'
<1>1. UNCHANGED <<plan, stateVars, controlVars>>
  BY DEF Coordinate
<1>2. Offers' /\ worker' = worker /\ attempt' = attempt
  BY CoordinateFits
<1>3. PICK t \in Tasks : worker[t] = "running" /\ Touches({t})
  BY CoordinateFits
<1>4. t \in running
  BY <1>3 DEF HandoffInv, WorkerOK
<1>5. t \notin Secured
  BY <1>4 DEF Secured, CInv, Apart, DecidingWaits
<1>6. WorkerOK' /\ MergedWorked'
  BY <1>1, <1>2 DEF HandoffInv, WorkerOK, MergedWorked, stateVars, IsLive, Merged
<1>7. Secured' = Secured /\ Merged' = Merged
  BY <1>1 DEF Secured, Merged, stateVars, controlVars
<1>8. SecuredFresh'
  BY <1>1, <1>3, <1>5, <1>7, FreshStays DEF HandoffInv
<1> QED
  BY <1>2, <1>6, <1>8 DEF HandoffInv

LEMMA AnewHandsOff ==
  ASSUME LiveInit', plan' \in Plans, merged' = <<>>, pc' # "apply"
  PROVE  HandoffInv'
<1>1. Offers'
  BY OffersAtFirst
<1>2. \A t \in Tasks : worker'[t] = "pending"
  BY DEF LiveInit
<1>3. WorkerOK'
  BY <1>2 DEF WorkerOK
<1>4. Merged' = {} /\ Secured' = {}
  BY DEF Merged, Secured, ToSet
<1>5. MergedWorked' /\ SecuredFresh'
  BY <1>4 DEF MergedWorked, SecuredFresh
<1> QED
  BY <1>1, <1>3, <1>5 DEF HandoffInv

LEMMA ResumeHandsOff == ASSUME CInv, HandoffInv, Resume PROVE HandoffInv'
<1>1. plan.live = {} /\ UNCHANGED <<plan, liveVars, running, outcome>>
  BY DEF Resume
<1>2. Offers'
  BY <1>1, OffersStay DEF HandoffInv, liveVars, Offers, LiveTypeOK
<1>3. WorkerOK' /\ MergedWorked' /\ SecuredFresh'
  BY <1>1 DEF HandoffInv, WorkerOK, MergedWorked, SecuredFresh, IsLive, LiveTasks, liveVars
<1> QED
  BY <1>2, <1>3 DEF HandoffInv

LEMMA HandoffStays == ASSUME CInv, HandoffInv, [Next]_vars PROVE HandoffInv'
<1>1. CASE \/ UNCHANGED vars \/ Start \/ SelectReady \/ LeaveLoop \/ CollectDone \/ AdvanceDone
           \/ SaveCheckpoint \/ Wait \/ SaveOutcome \/ WriteSummary \/ CleanTree \/ Settle
  BY <1>1, QuietSteps
<1>2. CASE LaunchNext
  BY <1>2, LaunchHandsOff
<1>3. CASE GatherNext
  BY <1>3, GatherHandsOff
<1>4. CASE ApplySucceeds \/ ApplyFails
  BY <1>4, ApplyHandsOff
<1>5. CASE Advance
  BY <1>5, AdvanceHandsOff
<1>6. CASE \E t \in Tasks : FinishWorker(t)
  BY <1>6, FinishHandsOff
<1>7. CASE Coordinate
  BY <1>7, CoordinateHandsOff
<1>8. CASE Crash
  <2>1. LiveInit' /\ plan' = plan /\ merged' = <<>> /\ pc' # "apply"
    BY <1>8 DEF Crash, LiveInit
  <2> QED
    BY <2>1, TypeFacts, AnewHandsOff
<1>9. CASE Resume
  BY <1>9, ResumeHandsOff
<1> QED
  BY <1>1, <1>2, <1>3, <1>4, <1>5, <1>6, <1>7, <1>8, <1>9 DEF Next, Coordinator, Stopped

LEMMA HandoffInvHolds == Spec => [](FanoutInv /\ HandoffInv)
<1>1. Init => HandoffInv
  <2> SUFFICES ASSUME Init PROVE HandoffInv
    OBVIOUS
  <2>1. LiveInit /\ plan \in Plans /\ merged = <<>> /\ pc = "off"
    BY DEF Init, EmptyState
  <2>2. /\ attempt = [t \in Tasks |-> 0] /\ worker = [t \in Tasks |-> "pending"]
        /\ sealed = [t \in Tasks |-> 0] /\ events = {}
        /\ latest = [e \in Edges |-> NoEvent] /\ consumed = [e \in Edges |-> Unread]
        /\ mailbox = [t \in Tasks |-> <<>>] /\ delivered = [t \in Tasks |-> {}]
    BY <2>1 DEF LiveInit
  <2>3. <<>> \in Seq(Events) /\ Len(<<>>) = 0 /\ ToSet(<<>>) = {}
    BY DEF ToSet
  <2>4. \A t \in Tasks : mailbox[t] = <<>>
    BY <2>2
  <2>5. plan.live \subseteq Edges /\ \A e \in plan.live : e[2] \in Tasks
    BY <2>1, LiveEdges
  <2>6. LiveTypeOK
    <3>1. mailbox \in [Tasks -> Seq(Events)]
      BY <2>2, <2>3
    <3>2. Unread \in [version : 0..MaxVersion, attempt : Attempts]
      BY BoundsAssumption DEF Unread, Attempts
    <3>3. consumed \in [Edges -> [version : 0..MaxVersion, attempt : Attempts]]
      BY <2>2, <3>2
    <3>4. 0 \in Attempts /\ "pending" \in WorkerStates
      BY DEF Attempts, WorkerStates
    <3> QED
      BY <2>2, <3>1, <3>3, <3>4 DEF LiveTypeOK
  <2>7. LatestOK /\ ConsumedOK /\ NothingLost
    BY <2>2, <2>5 DEF LatestOK, ConsumedOK, NothingLost
  <2>8. \A t \in Tasks : ToSet(mailbox[t]) = {} /\ Len(mailbox[t]) = 0
    BY <2>3, <2>4, Zenon
  <2>9. MailCurrent
    BY <2>8 DEF MailCurrent
  <2>10. LastIsLatest
    <3>1. \A e \in plan.live : 1..Len(mailbox[e[2]]) = {}
      BY <2>5, <2>8
    <3> QED
      BY <3>1 DEF LastIsLatest, LastIn
  <2>11. WorkerOK
    BY <2>2 DEF WorkerOK
  <2>12. Merged = {} /\ Secured = {}
    BY <2>1 DEF Merged, Secured, ToSet
  <2> QED
    BY <2>6, <2>7, <2>9, <2>10, <2>11, <2>12 DEF HandoffInv, Offers, MergedWorked, SecuredFresh
<1>2. FanoutInv /\ HandoffInv /\ [Next]_vars => HandoffInv'
  BY HandoffStays DEF FanoutInv
<1> QED
  BY <1>1, <1>2, FanoutInvHolds, PTL DEF Spec

(* Every variable of the coordinator and of the handoff keeps its type.    *)
THEOREM FanoutTypesAreCorrect == Spec => []TypeOK
<1>1. FanoutInv /\ HandoffInv => TypeOK
  BY DEF FanoutInv, CInv, CoordinatorTypeOK, HandoffInv, Offers, TypeOK
<1> QED
  BY <1>1, HandoffInvHolds, PTL

(* No version is lost between its producer and a consumer that runs,       *)
(* whichever of them was retried, and however often the mailbox was        *)
(* drained in between.                                                     *)
THEOREM HandoffsAreNotLost == Spec => []NoLostHandoff
<1>1. FanoutInv /\ HandoffInv => NoLostHandoff
  <2> SUFFICES ASSUME FanoutInv, HandoffInv, NEW e \in plan.live,
                      worker[e[2]] = "running", HasLatest(e[1], e[2])
               PROVE  \/ consumed[e] = SeenOf(latest[e])
                      \/ \E i \in DOMAIN mailbox[e[2]] : mailbox[e[2]][i] = latest[e]
    BY DEF NoLostHandoff, SeenOf
  <2>1. plan \in Plans
    BY TypeFacts DEF FanoutInv
  <2>2. e = <<e[1], e[2]>>
    BY <2>1, LiveEdges
  <2>3. latest[e] # NoEvent
    BY <2>2 DEF HasLatest
  <2>4. consumed[e] = SeenOf(latest[e]) \/ latest[e] \in ToSet(mailbox[e[2]])
    BY <2>3 DEF HandoffInv, Offers, NothingLost
  <2> QED
    BY <2>4 DEF ToSet
<1> QED
  BY <1>1, HandoffInvHolds, PTL

(* A LIVE consumer is merged only after its producers, with the versions   *)
(* they ended with, and no producer moves after that.                      *)
THEOREM IntegratedAreFresh == Spec => []IntegratedIsFresh
<1>1. FanoutInv /\ HandoffInv => IntegratedIsFresh
  BY DEF HandoffInv, SecuredFresh, Secured, FreshEdge, SeenOf, IntegratedIsFresh
<1> QED
  BY <1>1, HandoffInvHolds, PTL

----------------------------------------------------------------------------
(* Giving up: why a fanout does not go on.                                 *)

Closed == pc \in {"close", "report", "done"}
Placed == pending \cup running \cup candidates

(* Only merged tasks count as integrated, and a failure has been recorded. *)
TrustedResults ==
  \A t \in Members(plan) :
    /\ t \notin Merged => results[t].status # "integrated"
    /\ results[t].status = "failed" => \E r \in history : r.task = t

(* Until the fanout is settled, a task has no result as long as it is in   *)
(* some place, and one that is in none without a result was given up       *)
(* because the frontier has failed.                                        *)
OpenResults ==
  ~Closed =>
    /\ \A t \in Members(plan) : \/ results[t] = NoResult
                                \/ results[t].status \in {"integrated", "failed"}
    /\ \A t \in Placed : results[t] = NoResult
    /\ \A t \in Members(plan) \ (Placed \cup Merged) : results[t] = NoResult => FrontierTerminal

(* What is blocked was never attempted for want of a HARD predecessor.     *)
Verdicts ==
  Closed => \A t \in Members(plan) :
    results[t].status = "blocked" <=>
      /\ ~\E r \in history : r.task = t
      /\ \E d \in Upstream(plan.hard, t) : d \notin Merged

(* Why the frontier cannot go on. *)
Blame ==
  Frontier # NoTask =>
    \/ results[Frontier].status = "failed"
    \/ \E p \in Producers(Frontier) : p \in Merged /\ ~HasLatest(p, Frontier)

(* A round that finds nothing to do, while nothing runs, knows why. *)
Rounds ==
  /\ pc = "wait" => ~progress /\ (Frontier = NoTask \/ Frontier \notin candidates)
  /\ pc \in {"gather", "apply"} /\ todo # <<>> => progress
  /\ /\ pc \in {"launch", "gather", "wait"} /\ ~progress /\ running = {}
     /\ pc = "launch" => todo = <<>>
     /\ Frontier \notin candidates
     => Blame
  /\ pc = "settle" \/ Closed => Blame

BlameInv == TrustedResults /\ OpenResults /\ Verdicts /\ Rounds

----------------------------------------------------------------------------
(* The frontier is not merged, but everything it depends on is. *)
LEMMA FrontierFacts ==
  ASSUME FanoutInv, Frontier # NoTask
  PROVE  /\ Frontier \in Members(plan) /\ Frontier \in Tasks /\ Frontier \notin Merged
         /\ HardReady(Frontier) /\ Producers(Frontier) \subseteq Merged /\ ~Deferred(Frontier)
         /\ Frontier = Order[Len(merged) + 1] /\ Len(merged) < Len(Order)
<1> DEFINE k == Len(merged) + 1
<1>1. Frontier = Order[k] /\ Len(merged) < Len(Order)
  BY DEF Frontier
<1>2. CInv /\ PrefixOK
  BY DEF FanoutInv
<1>3. /\ plan \in Plans /\ merged \in Seq(Tasks) /\ Members(plan) \subseteq Tasks
  BY <1>2, TypeFacts
<1>4. /\ InTurn(plan, plan.hard \cup plan.live, Order) /\ Order \in Seq(Members(plan))
      /\ IsInjective(Order) /\ Len(Order) \in Nat
      /\ \A e \in plan.hard \cup plan.live :
           e \in Edges /\ e[1] \in Members(plan) /\ e[2] \in Members(plan)
  BY <1>3, PlanFacts
<1>5. /\ Len(merged) \in Nat /\ k \in 1..Len(Order) /\ DOMAIN Order = 1..Len(Order)
      /\ DOMAIN merged = 1..Len(merged) /\ k - 1 = Len(merged)
  BY <1>1, <1>3, <1>4
<1>6. \A i \in 1..Len(merged) : merged[i] = Order[i] /\ i \in 1..Len(Order) /\ i # k
  BY <1>2, <1>3, <1>4, <1>5 DEF PrefixOK
<1>7. Merged = {Order[i] : i \in 1..(k - 1)}
  BY <1>5, <1>6 DEF Merged, ToSet
<1>8. Frontier \in Members(plan) /\ Frontier \in Tasks
  BY <1>1, <1>3, <1>4, <1>5
<1>9. Frontier \notin Merged
  BY <1>1, <1>4, <1>5, <1>6, <1>7 DEF IsInjective
<1>10. Upstream(plan.hard \cup plan.live, Order[k]) \cap Members(plan) \subseteq Merged
  BY <1>4, <1>5, <1>7 DEF InTurn
<1>11. /\ Upstream(plan.hard, Frontier) \subseteq Merged
       /\ Upstream(plan.live, Frontier) \subseteq Merged
  <2>1. ASSUME NEW d \in Upstream(plan.hard, Frontier) \cup Upstream(plan.live, Frontier)
        PROVE  d \in Merged
    <3>1. PICK e \in plan.hard \cup plan.live : e[2] = Frontier /\ d = e[1]
      BY DEF Upstream
    <3>2. d \in Members(plan) /\ d \in Upstream(plan.hard \cup plan.live, Frontier)
      BY <1>4, <3>1 DEF Upstream
    <3> QED
      BY <1>1, <1>10, <3>2
  <2> QED
    BY <2>1
<1> HIDE DEF k
<1>12. HardReady(Frontier) /\ Producers(Frontier) \subseteq Merged
  BY <1>11 DEF HardReady, Producers
<1> QED
  BY <1>1, <1>8, <1>9, <1>12 DEF Deferred, k

(* With nothing to run, the frontier has failed, waits to be integrated,   *)
(* or waits to be launched.                                                *)
LEMMA FrontierWhere ==
  ASSUME FanoutInv, TrustedResults, OpenResults, ~Closed, Frontier # NoTask
  PROVE  \/ results[Frontier].status = "failed"
         \/ Frontier \in Placed /\ results[Frontier] = NoResult /\ ~FrontierTerminal
<1>1. Frontier \in Members(plan) /\ Frontier \notin Merged
  BY FrontierFacts
<1>2. results[Frontier].status # "integrated"
  BY <1>1 DEF TrustedResults
<1>3. results[Frontier] = NoResult \/ results[Frontier].status = "failed"
  BY <1>1, <1>2 DEF OpenResults
<1>4. results[Frontier] = NoResult => ~FrontierTerminal
  <2>1. NoResult.status = "none"
    BY DEF NoResult
  <2> QED
    BY <2>1 DEF FrontierTerminal
<1>5. results[Frontier] = NoResult => Frontier \in Placed
  BY <1>1, <1>4 DEF OpenResults
<1> QED
  BY <1>3, <1>4, <1>5

LEMMA TerminalFailed ==
  ASSUME FanoutInv, TrustedResults, OpenResults, ~Closed, FrontierTerminal
  PROVE  results[Frontier].status = "failed" /\ Frontier \notin Placed
<1>1. Frontier # NoTask /\ results[Frontier] # NoResult
  <2>1. NoResult.status = "none"
    BY DEF NoResult
  <2> QED
    BY <2>1 DEF FrontierTerminal
<1>2. results[Frontier].status = "failed"
  BY <1>1, FrontierWhere
<1> QED
  BY <1>1, <1>2 DEF OpenResults

LEMMA BlameStays ==
  ASSUME FanoutInv, HandoffInv, Blame, UNCHANGED <<plan, merged>>,
         Frontier # NoTask /\ results[Frontier].status = "failed"
           => results'[Frontier].status = "failed",
         NEW ts, Touches(ts), ts \cap Merged = {}
  PROVE  Blame'
<1>1. Frontier' = Frontier /\ Merged' = Merged
  BY DEF Frontier, Order, Merged
<1>2. CASE Frontier # NoTask /\ results[Frontier].status = "failed"
  <2>1. results'[Frontier'].status = "failed"
    BY <1>1, <1>2
  <2> QED
    BY <2>1 DEF Blame
<1>3. CASE Frontier # NoTask /\ results[Frontier].status # "failed"
  <2>1. PICK p \in Producers(Frontier) : p \in Merged /\ ~HasLatest(p, Frontier)
    BY <1>3 DEF Blame
  <2> DEFINE e == <<p, Frontier>>
  <2>2. e \in plan.live /\ plan \in Plans
    <3>1. plan \in Plans
      BY TypeFacts DEF FanoutInv
    <3>2. PICK d \in plan.live : d[2] = Frontier /\ d[1] = p
      BY <2>1 DEF Producers, Upstream
    <3>3. d = <<d[1], d[2]>>
      BY <3>1, LiveEdges
    <3> QED
      BY <3>1, <3>2, <3>3
  <2>3. e \in Edges /\ e[1] = p
    BY <2>2, LiveEdges
  <2> HIDE DEF e
  <2>4. latest'[e] = latest[e] /\ attempt'[p] = attempt[p]
    BY <2>1, <2>3 DEF Touches
  <2>5. latest[e] = NoEvent \/ attempt[p] # latest[e].attempt
    BY <2>1, <2>3 DEF HasLatest, Current, e, HandoffInv, Offers, LatestOK
  <2>6. latest[e] # NoEvent => latest[e].from = p /\ attempt[p] = latest[e].attempt
    BY <2>3 DEF HandoffInv, Offers, LatestOK
  <2>7. latest'[e] = NoEvent
    BY <2>4, <2>5, <2>6
  <2>8. ~HasLatest(p, Frontier)'
    BY <1>1, <2>7 DEF HasLatest, e
  <2>9. p \in Producers(Frontier)' /\ p \in Merged'
    BY <1>1, <2>1 DEF Producers
  <2> QED
    BY <1>1, <2>8, <2>9 DEF Blame
<1>4. CASE Frontier = NoTask
  BY <1>1, <1>4 DEF Blame
<1> QED
  BY <1>2, <1>3, <1>4

LEMMA ResultsStay ==
  ASSUME TrustedResults, OpenResults, Verdicts, UNCHANGED <<plan, results, merged, history>>,
         Placed' = Placed, Closed' = Closed
  PROVE  TrustedResults' /\ OpenResults' /\ Verdicts'
<1>1. Merged' = Merged /\ FrontierTerminal' = FrontierTerminal
  BY DEF Merged, FrontierTerminal, Frontier, Order
<1>2. TrustedResults'
  BY <1>1 DEF TrustedResults
<1>3. OpenResults'
  BY <1>1 DEF OpenResults
<1>4. Verdicts'
  BY <1>1 DEF Verdicts
<1> QED
  BY <1>2, <1>3, <1>4

(* Steps outside the coordinator, or none. *)
LEMMA BesideBlame ==
  ASSUME FanoutInv, HandoffInv, BlameInv,
         UNCHANGED <<plan, results, merged, history, pending, running, candidates, pc, todo,
                     progress>>,
         NEW ts, Touches(ts), ts \cap Merged = {}
  PROVE  BlameInv'
<1>1. Placed' = Placed /\ Closed' = Closed /\ Frontier' = Frontier
  BY DEF Placed, Closed, Frontier, Order
<1>2. TrustedResults' /\ OpenResults' /\ Verdicts'
  BY <1>1, ResultsStay DEF BlameInv
<1>3. Blame => Blame'
  BY BlameStays
<1>4. Rounds'
  BY <1>1, <1>3 DEF BlameInv, Rounds
<1> QED
  BY <1>2, <1>4 DEF BlameInv

LEMMA OutsideBlame ==
  ASSUME FanoutInv, HandoffInv, BlameInv,
         UNCHANGED vars \/ CleanTree \/ Coordinate \/ \E t \in Tasks : FinishWorker(t)
  PROVE  BlameInv'
<1>1. UNCHANGED <<plan, results, merged, history, pending, running, candidates, pc, todo,
                  progress>>
  BY DEF vars, stateVars, controlVars, CleanTree, Coordinate, FinishWorker
<1>3. CASE UNCHANGED vars \/ CleanTree
  <2>1. Touches({})
    BY <1>3 DEF vars, CleanTree, liveVars, Touches
  <2> QED
    BY <1>1, <2>1, BesideBlame
<1>4. CASE Coordinate
  <2>1. PICK t \in Tasks : worker[t] = "running" /\ Touches({t})
    BY <1>4, CoordinateFits DEF FanoutInv
  <2>2. t \notin Merged
    BY <2>1 DEF HandoffInv, WorkerOK, FanoutInv, CInv, Apart
  <2>3. {t} \cap Merged = {}
    BY <2>2
  <2> QED
    BY <1>1, <2>1, <2>3, BesideBlame
<1>5. ASSUME NEW t \in Tasks, FinishWorker(t) PROVE BlameInv'
  <2>1. Touches({})
    <3>1. PICK ending \in RunEndings : \E told \in AttemptOutcomes(t, ending) :
            IF IsLive(t) THEN FinishAttempt(t, told \in CandidateOutcomes) ELSE UNCHANGED liveVars
      BY <1>5 DEF FinishWorker
    <3>2. UNCHANGED <<attempt, latest, consumed>>
      BY <3>1 DEF FinishAttempt, liveVars
    <3> QED
      BY <3>2 DEF Touches
  <2> QED
    BY <1>1, <2>1, BesideBlame
<1> QED
  BY <1>3, <1>4, <1>5

(* A step that only moves the coordinator's control. *)
LEMMA ControlBlame ==
  ASSUME FanoutInv, HandoffInv, BlameInv, UNCHANGED <<plan, liveVars, stateVars>>,
         Closed' = Closed,
         pc' = "wait" => ~progress' /\ (Frontier = NoTask \/ Frontier \notin candidates),
         pc' \in {"gather", "apply"} /\ todo' # <<>> => progress',
         /\ pc' \in {"launch", "gather", "wait"} /\ ~progress' /\ running = {}
         /\ pc' = "launch" => todo' = <<>>
         /\ Frontier \notin candidates
         => Blame,
         pc' = "settle" \/ Closed' => Blame
  PROVE  BlameInv'
<1>1. Placed' = Placed /\ Frontier' = Frontier
  BY DEF Placed, Frontier, Order, stateVars
<1>2. TrustedResults' /\ OpenResults' /\ Verdicts'
  BY <1>1, ResultsStay DEF BlameInv, stateVars
<1>3. Blame => Blame'
  <2>1. Touches({}) /\ {} \cap Merged = {}
    BY DEF Touches, liveVars
  <2> QED
    BY <2>1, BlameStays DEF stateVars
<1>4. running' = running /\ candidates' = candidates
  BY DEF stateVars
<1>5. Rounds'
  BY <1>1, <1>3, <1>4 DEF Rounds
<1> QED
  BY <1>2, <1>5 DEF BlameInv

(* The frontier has all it needs but its LIVE versions. *)
LEMMA FreeFrontier ==
  ASSUME FanoutInv, HandoffInv, Frontier # NoTask, Frontier \in pending \ candidates,
         results[Frontier] = NoResult, running = {}, ~Launchable(Frontier, <<>>)
  PROVE  Blame
<1>1. CInv /\ HardReady(Frontier) /\ Producers(Frontier) \subseteq Merged
  BY FrontierFacts DEF FanoutInv
<1>2. Len(<<>>) < MaxWorkers - Cardinality(running)
  <2>1. Cardinality({}) = 0 /\ Len(<<>>) = 0
    BY FS_EmptySet
  <2>2. MaxWorkers \in 1..8
    BY BoundsAssumption
  <2> QED
    BY <2>1, <2>2
<1>3. ~Collide({Frontier} \cup running \cup ToSet(<<>>))
  <2>1. {Frontier} \cup running \cup ToSet(<<>>) = {Frontier}
    BY DEF ToSet
  <2>2. ~Collide({Frontier})
    BY DEF Collide
  <2> QED
    BY <2>1, <2>2
<1>4. ~LiveReady(Frontier)
  BY <1>1, <1>2, <1>3 DEF Launchable
<1>5. PICK p \in Producers(Frontier) : ~(HasLatest(p, Frontier) /\ worker[p] # "failed")
  BY <1>4 DEF LiveReady
<1>6. p \in Merged /\ IsLive(p)
  <2>1. PICK e \in plan.live : p = e[1]
    BY <1>5 DEF Producers, Upstream
  <2> QED
    BY <1>1, <1>5, <2>1 DEF IsLive, LiveTasks
<1>7. worker[p] # "failed"
  BY <1>6 DEF HandoffInv, MergedWorked
<1> QED
  BY <1>5, <1>6, <1>7 DEF Blame

LEMMA SelectBlame == ASSUME FanoutInv, HandoffInv, BlameInv, SelectReady PROVE BlameInv'
<1>1. /\ pc = "loop" /\ pc' = "launch" /\ UNCHANGED <<plan, liveVars, stateVars>>
      /\ todo' = (IF FrontierTerminal THEN <<>> ELSE Selection) /\ progress' = (todo' # <<>>)
  BY DEF SelectReady
<1>2. ~Closed /\ Closed' = Closed /\ TrustedResults /\ OpenResults
  BY <1>1 DEF Closed, BlameInv
<1>3. ASSUME ~progress', running = {}, Frontier \notin candidates, Frontier # NoTask
      PROVE  Blame
  <2>1. todo' = <<>>
    BY <1>1, <1>3
  <2>2. CASE results[Frontier].status = "failed"
    BY <2>2 DEF Blame
  <2>3. CASE Frontier \in Placed /\ results[Frontier] = NoResult /\ ~FrontierTerminal
    <3>1. Selection = <<>>
      BY <1>1, <2>1, <2>3
    <3>2. /\ plan.tasks \in Seq(Members(plan)) /\ IsInjective(plan.tasks)
          /\ ~Collide(running) /\ Cardinality(running) \in Nat /\ MaxWorkers \in Nat
      BY TypeFacts, PlanFacts DEF FanoutInv, CInv, WorkersIsolated
    <3>3. \A j \in 1..Len(plan.tasks) : ~Launchable(plan.tasks[j], <<>>)
      BY <3>1, <3>2, SelectionIsFit DEF SelectedOf
    <3>4. Frontier \in Members(plan) /\ DOMAIN plan.tasks = 1..Len(plan.tasks)
      BY <1>3, <3>2, FrontierFacts
    <3>5. ~Launchable(Frontier, <<>>)
      BY <3>3, <3>4 DEF Members
    <3>6. Frontier \in pending \ candidates
      BY <1>3, <2>3 DEF Placed
    <3> QED
      BY <1>3, <2>3, <3>5, <3>6, FreeFrontier
  <2> QED
    BY <1>2, <1>3, <2>2, <2>3, FrontierWhere
<1>4. Frontier = NoTask => Blame
  BY DEF Blame
<1> QED
  BY <1>1, <1>2, <1>3, <1>4, ControlBlame DEF Closed

LEMMA LoopBlame ==
  ASSUME FanoutInv, HandoffInv, BlameInv,
         \/ Start \/ LeaveLoop \/ CollectDone \/ AdvanceDone \/ SaveCheckpoint \/ Wait
         \/ SaveOutcome \/ WriteSummary
  PROVE  BlameInv'
<1>1. UNCHANGED <<plan, liveVars, stateVars>>
  BY DEF Start, LeaveLoop, CollectDone, AdvanceDone, SaveCheckpoint, Wait, SaveOutcome,
     WriteSummary
<1>2. Rounds /\ TrustedResults /\ OpenResults
  BY DEF BlameInv
<1>3. CASE Start \/ SaveCheckpoint
  <2>1. pc \in {"off", "save"} /\ pc' \in {"save", "loop"}
    BY <1>3 DEF Start, SaveCheckpoint
  <2> QED
    BY <1>1, <2>1, ControlBlame DEF Closed
<1>4. CASE LeaveLoop
  <2>1. pc = "loop" /\ pc' = "settle" /\ Placed = {}
    BY <1>4 DEF LeaveLoop, Placed
  <2>2. Blame
    BY <1>2, <2>1, FrontierWhere DEF Blame, Closed
  <2> QED
    BY <1>1, <2>1, <2>2, ControlBlame DEF Closed
<1>5. CASE CollectDone
  <2>1. /\ pc = "launch" /\ pc' = "gather" /\ todo = <<>>
        /\ progress' = (progress \/ todo' # <<>>)
    BY <1>5 DEF CollectDone
  <2>2. ~progress' => ~progress
    BY <2>1
  <2>3. pc' \in {"gather", "apply"} /\ todo' # <<>> => progress'
    BY <2>1
  <2>4. ~progress' /\ running = {} /\ Frontier \notin candidates => Blame
    BY <1>2, <2>1, <2>2 DEF Rounds
  <2> QED
    BY <1>1, <2>1, <2>3, <2>4, ControlBlame DEF Closed
<1>6. CASE AdvanceDone
  <2>1. /\ pc = "gather" /\ pc' = (IF progress THEN "save" ELSE "wait") /\ ~Advanceable
        /\ progress' = progress
    BY <1>6 DEF AdvanceDone
  <2>2. Frontier = NoTask \/ Frontier \notin candidates
    <3> SUFFICES ASSUME Frontier # NoTask, Frontier \in candidates PROVE FALSE
      OBVIOUS
    <3>1. ~Deferred(Frontier)
      BY FrontierFacts
    <3>2. FrontierTerminal
      BY <2>1, <3>1 DEF Advanceable
    <3> QED
      BY <1>2, <2>1, <3>2, TerminalFailed DEF Placed, Closed
  <2>3. ~progress /\ running = {} /\ Frontier \notin candidates => Blame
    BY <1>2, <2>1 DEF Rounds
  <2>4. CASE progress
    BY <1>1, <2>1, <2>4, ControlBlame DEF Closed
  <2>5. CASE ~progress
    BY <1>1, <2>1, <2>2, <2>3, <2>5, ControlBlame DEF Closed
  <2> QED
    BY <2>4, <2>5
<1>7. CASE Wait
  <2>1. pc = "wait" /\ pc' = (IF running # {} THEN "loop" ELSE "settle")
    BY <1>7 DEF Wait
  <2>2. ~progress /\ (Frontier = NoTask \/ Frontier \notin candidates)
    BY <1>2, <2>1 DEF Rounds
  <2>3. running = {} => Blame
    BY <1>2, <2>1, <2>2 DEF Rounds, Blame
  <2>4. CASE running # {}
    BY <1>1, <2>1, <2>4, ControlBlame DEF Closed
  <2>5. CASE running = {}
    BY <1>1, <2>1, <2>3, <2>5, ControlBlame DEF Closed
  <2> QED
    BY <2>4, <2>5
<1>8. CASE SaveOutcome \/ WriteSummary
  <2>1. pc \in {"close", "report"} /\ pc' \in {"report", "done"}
    BY <1>8 DEF SaveOutcome, WriteSummary
  <2>2. Blame
    BY <1>2, <2>1 DEF Rounds, Closed
  <2> QED
    BY <1>1, <2>1, <2>2, ControlBlame DEF Closed
<1> QED
  BY <1>3, <1>4, <1>5, <1>6, <1>7, <1>8

(* A step that gives one open task its result, or moves it. *)
LEMMA ResultStep ==
  ASSUME FanoutInv, TrustedResults, OpenResults, ~Closed, ~Closed', UNCHANGED <<plan, merged>>,
         NEW t \in Members(plan), t \notin Merged, results[t] = NoResult,
         \A u \in Members(plan) \ {t} : results'[u] = results[u] /\ (u \in Placed' <=> u \in Placed),
         \/ results'[t].status = "failed" /\ t \notin Placed'
         \/ results'[t] = NoResult,
         t \notin Placed' /\ results'[t] = NoResult => FrontierTerminal,
         Placed' \subseteq Members(plan),
         history \subseteq history', \E r \in history' : r.task = t
  PROVE  TrustedResults' /\ OpenResults' /\ Verdicts'
<1>1. Merged' = Merged /\ Frontier' = Frontier /\ Members(plan') = Members(plan)
  BY DEF Merged, Frontier, Order
<1>2. NoResult.status = "none"
  BY DEF NoResult
<1>3. TrustedResults'
  <2> SUFFICES ASSUME NEW u \in Members(plan)
               PROVE  /\ u \notin Merged => results'[u].status # "integrated"
                      /\ results'[u].status = "failed" => \E r \in history' : r.task = u
    BY <1>1 DEF TrustedResults
  <2>1. CASE u = t
    BY <1>2, <2>1
  <2>2. CASE u # t
    BY <2>2 DEF TrustedResults
  <2> QED
    BY <2>1, <2>2
<1>4. FrontierTerminal => FrontierTerminal'
  <2> SUFFICES ASSUME FrontierTerminal PROVE FrontierTerminal'
    OBVIOUS
  <2>1. Frontier # NoTask /\ results[Frontier].status \notin {"none", "integrated"}
    BY DEF FrontierTerminal
  <2>2. Frontier \in Members(plan) /\ Frontier # t
    BY <1>2, <2>1, FrontierFacts
  <2>3. results'[Frontier] = results[Frontier]
    BY <2>2
  <2> QED
    BY <1>1, <2>1, <2>3 DEF FrontierTerminal
<1>5. OpenResults'
  <2>1. \A u \in Members(plan) : \/ results'[u] = NoResult
                                 \/ results'[u].status \in {"integrated", "failed"}
    BY DEF OpenResults
  <2>2. \A u \in Placed' : results'[u] = NoResult
    <3> SUFFICES ASSUME NEW u \in Placed' PROVE results'[u] = NoResult
      OBVIOUS
    <3>1. CASE u = t
      BY <3>1
    <3>2. CASE u # t
      BY <3>2 DEF OpenResults
    <3> QED
      BY <3>1, <3>2
  <2>3. \A u \in Members(plan) \ (Placed' \cup Merged) : results'[u] = NoResult => FrontierTerminal
    BY DEF OpenResults
  <2> QED
    BY <1>1, <1>4, <2>1, <2>2, <2>3 DEF OpenResults
<1>6. Verdicts'
  BY DEF Verdicts
<1> QED
  BY <1>3, <1>5, <1>6

LEMMA PlacedFits ==
  ASSUME FanoutInv
  PROVE  Placed \subseteq Members(plan) /\ Members(plan) \subseteq Tasks /\ Placed \cap Merged = {}
BY TypeFacts DEF FanoutInv, CInv, Apart, Placed

LEMMA PlacedFitsNext ==
  ASSUME FanoutInv'
  PROVE  Placed' \subseteq Members(plan')
BY DEF FanoutInv, CInv, Apart, Placed

(* A result is collected: a candidate, another try, or no more. *)
LEMMA GatherBlame ==
  ASSUME FanoutInv, FanoutInv', HandoffInv, BlameInv, GatherNext
  PROVE  BlameInv'
<1> DEFINE t == Head(todo)
           new == [task |-> t, attempt |-> count[t], outcome |-> outcome[t]]
<1>1. /\ t \in running /\ t \in Members(plan) /\ t \in Tasks /\ t \notin pending
      /\ t \notin candidates /\ t \notin Merged
  BY GatherFacts DEF FanoutInv
<1>2. /\ pc = "gather" /\ todo # <<>> /\ running' = running \ {t}
      /\ history' = history \cup {new} /\ UNCHANGED <<plan, progress>>
  BY DEF GatherNext
<1>3. ~Closed /\ results[t] = NoResult /\ progress
  BY <1>1, <1>2 DEF BlameInv, OpenResults, Closed, Placed, Rounds
<1>4. /\ pc' \in {"gather", "apply"} /\ UNCHANGED merged
      /\ \A u \in Tasks \ {t} : results'[u] = results[u]
      /\ \/ candidates' = candidates /\ pending' = pending /\ results'[t].status = "failed"
         \/ candidates' = candidates \cup {t} /\ pending' = pending /\ results' = results
         \/ candidates' = candidates /\ pending' = pending \cup {t} /\ results' = results
         \/ /\ candidates' = candidates /\ pending' = pending /\ results' = results
            /\ FrontierTerminal
  <2>1. CASE IntegrateCandidate(t) /\ UNCHANGED pending
    <3>1. /\ CandidateFate(t) /\ UNCHANGED merged
          /\ \A u \in Tasks \ {t} : results'[u] = results[u]
      BY <1>1, <2>1, IntegrateEffect DEF FanoutInv
    <3>2. candidates \ {t} = candidates
      BY <1>1
    <3> QED
      BY <2>1, <3>1, <3>2 DEF CandidateFate
  <2>2. CASE /\ pending' = IF RetryAllowed(t) /\ ~FrontierTerminal THEN pending \cup {t}
                                                                   ELSE pending
             /\ results' = IF \/ RetryAllowed(t) /\ ~FrontierTerminal
                              \/ outcome[t] = "retryable" /\ FrontierTerminal
                           THEN results ELSE [results EXCEPT ![t] = Failed(t, "other")]
             /\ UNCHANGED <<liveVars, candidates, merged, tree, deciding, pc>>
    <3>1. CASE RetryAllowed(t) /\ ~FrontierTerminal
      BY <1>2, <2>2, <3>1
    <3>2. CASE FrontierTerminal /\ outcome[t] = "retryable"
      BY <1>2, <2>2, <3>2
    <3>3. CASE /\ ~(RetryAllowed(t) /\ ~FrontierTerminal)
               /\ ~(outcome[t] = "retryable" /\ FrontierTerminal)
      <4>1. results' = [results EXCEPT ![t] = Failed(t, "other")] /\ pending' = pending
        BY <2>2, <3>3
      <4>2. results'[t].status = "failed" /\ \A u \in Tasks \ {t} : results'[u] = results[u]
        BY <1>1, <4>1, FailedFits DEF FanoutInv
      <4> QED
        BY <1>2, <2>2, <4>1, <4>2
    <3> QED
      BY <3>1, <3>2, <3>3
  <2> QED
    BY <2>1, <2>2 DEF GatherNext
<1>5. new \in history' /\ new.task = t /\ history \subseteq history'
  BY <1>2
<1> HIDE DEF t, new
<1>6. /\ ~Closed' /\ Placed' \subseteq Members(plan) /\ Members(plan) \subseteq Tasks
  BY <1>2, <1>4, PlacedFits, PlacedFitsNext DEF Closed
<1>7. \A u \in Members(plan) \ {t} : u \in Placed' <=> u \in Placed
  BY <1>2, <1>4 DEF Placed
<1>8. TrustedResults' /\ OpenResults' /\ Verdicts'
  <2>1. \E r \in history' : r.task = t
    BY <1>5
  <2>2. \/ results'[t].status = "failed" /\ t \notin Placed'
        \/ results'[t] = NoResult
    BY <1>1, <1>2, <1>3, <1>4 DEF Placed
  <2>3. t \notin Placed' /\ results'[t] = NoResult => FrontierTerminal
    <3>1. NoResult.status = "none"
      BY DEF NoResult
    <3> QED
      BY <1>4, <3>1 DEF Placed
  <2>4. \A u \in Members(plan) \ {t} : results'[u] = results[u]
    BY <1>4, <1>6
  <2> QED
    BY <1>1, <1>2, <1>3, <1>4, <1>5, <1>6, <1>7, <2>1, <2>2, <2>3, <2>4, ResultStep DEF BlameInv
<1>9. Rounds'
  BY <1>2, <1>3, <1>4, <1>6 DEF Rounds
<1> QED
  BY <1>8, <1>9 DEF BlameInv

(* The frontier fails: that is the reason. *)
LEMMA FailureBlame ==
  ASSUME FanoutInv, FanoutInv', HandoffInv, BlameInv, UNCHANGED <<plan, merged, pending, running>>,
         pc \in {"gather", "apply"}, pc' = "gather", UNCHANGED <<todo, progress, history>>,
         Frontier \in candidates, candidates' = candidates \ {Frontier},
         results'[Frontier].status = "failed",
         \A u \in Tasks \ {Frontier} : results'[u] = results[u]
  PROVE  BlameInv'
<1> DEFINE t == Frontier
<1>1. /\ t \in Members(plan) /\ t \notin Merged /\ Members(plan) \subseteq Tasks
      /\ Placed' \subseteq Members(plan) /\ t \in Placed
  BY PlacedFits, PlacedFitsNext DEF Placed
<1>2. ~Closed /\ ~Closed' /\ results[t] = NoResult
  BY <1>1 DEF Closed, BlameInv, OpenResults
<1>3. \E r \in history' : r.task = t
  <2>1. SoundRecord(t) \in history
    BY DEF FanoutInv, CInv, CandidatesSound
  <2> QED
    BY <2>1 DEF SoundRecord
<1>4. Frontier' = t
  BY DEF Frontier, Order
<1> HIDE DEF t
<1>5. t \notin Placed' /\ \A u \in Members(plan) \ {t} : u \in Placed' <=> u \in Placed
  <2>1. t \notin pending \cup running
    BY DEF FanoutInv, CInv, Apart, t
  <2> QED
    BY <2>1 DEF Placed, t
<1>6. results'[t].status = "failed" /\ \A u \in Members(plan) \ {t} : results'[u] = results[u]
  BY <1>1 DEF t
<1>7. results'[t] # NoResult
  <2>1. NoResult.status = "none"
    BY DEF NoResult
  <2> QED
    BY <1>6, <2>1
<1>8. TrustedResults' /\ OpenResults' /\ Verdicts'
  <2>1. TrustedResults /\ OpenResults /\ history \subseteq history'
    BY DEF BlameInv
  <2>2. \A u \in Members(plan) \ {t} : results'[u] = results[u] /\ (u \in Placed' <=> u \in Placed)
    BY <1>5, <1>6
  <2>3. \/ results'[t].status = "failed" /\ t \notin Placed'
        \/ results'[t] = NoResult
    BY <1>5, <1>6
  <2> QED
    BY <1>1, <1>2, <1>3, <1>7, <2>1, <2>2, <2>3, ResultStep
<1>9. Blame'
  BY <1>4, <1>6 DEF Blame
<1>10. Rounds'
  BY <1>2, <1>9 DEF BlameInv, Rounds
<1> QED
  BY <1>8, <1>10 DEF BlameInv

LEMMA AdvanceBlame ==
  ASSUME FanoutInv, FanoutInv', HandoffInv, BlameInv, Advance
  PROVE  BlameInv'
<1> DEFINE t == Frontier
<1>1. /\ pc = "gather" /\ todo = <<>> /\ t \in candidates /\ ~Deferred(t)
      /\ IntegrateCandidate(t)
      /\ UNCHANGED <<plan, pending, running, history, todo, progress>>
  BY DEF Advance, Advanceable
<1>2. t \in Tasks
  BY <1>1 DEF FanoutInv, CInv, CoordinatorTypeOK
<1>3. /\ UNCHANGED merged /\ CandidateFate(t)
      /\ \A u \in Tasks \ {t} : results'[u] = results[u]
  BY <1>1, <1>2, IntegrateEffect DEF FanoutInv
<1>4. CASE pc' = "gather" /\ candidates' = candidates \ {t} /\ results'[t].status = "failed"
  BY <1>1, <1>3, <1>4, FailureBlame
<1>5. CASE pc' = "apply" /\ candidates' = candidates \cup {t} /\ results' = results
  <2>1. candidates' = candidates
    BY <1>1, <1>5
  <2>2. Placed' = Placed /\ Closed' = Closed /\ ~Closed'
    BY <1>1, <1>5, <2>1 DEF Placed, Closed
  <2>3. TrustedResults' /\ OpenResults' /\ Verdicts'
    BY <1>1, <1>3, <1>5, <2>2, ResultsStay DEF BlameInv
  <2>4. Rounds'
    BY <1>1, <1>5, <2>2 DEF Rounds
  <2> QED
    BY <2>3, <2>4 DEF BlameInv
<1> QED
  BY <1>1, <1>3, <1>4, <1>5 DEF CandidateFate

LEMMA ApplyBlame ==
  ASSUME FanoutInv, FanoutInv', HandoffInv, BlameInv, ApplySucceeds \/ ApplyFails
  PROVE  BlameInv'
<1> DEFINE t == deciding
<1>1. /\ pc = "apply" /\ pc' = "gather" /\ candidates' = candidates \ {t}
      /\ UNCHANGED <<plan, pending, running, history, todo>>
  BY DEF ApplySucceeds, ApplyFails
<1>2. /\ t \in candidates /\ t \in Tasks /\ t \in Members(plan) /\ t \notin Merged
      /\ t \notin pending \cup running /\ t = Frontier /\ Members(plan) \subseteq Tasks
  <2>1. t \in candidates
    BY <1>1 DEF FanoutInv, CInv, DecidingWaits
  <2>2. t = Frontier
    BY <1>1 DEF FanoutInv, IInv, ApplyOK, Frontier
  <2> QED
    BY <2>1, <2>2, TypeFacts DEF FanoutInv, CInv, Apart
<1>3. CASE ApplyFails
  <2>1. UNCHANGED <<merged, progress>> /\ results' = [results EXCEPT ![t] = Failed(t, "conflict")]
    BY <1>3 DEF ApplyFails
  <2>2. results'[t].status = "failed" /\ \A u \in Tasks \ {t} : results'[u] = results[u]
    BY <1>2, <2>1, FailedFits DEF FanoutInv
  <2> QED
    BY <1>1, <1>2, <2>1, <2>2, FailureBlame
<1>4. CASE ApplySucceeds
  <2> DEFINE done == [status |-> "integrated", kind |-> "", final |-> count[t]]
  <2>1. /\ merged' = Append(merged, t) /\ progress' = TRUE
        /\ results' = [results EXCEPT ![t] = done]
    BY <1>4 DEF ApplySucceeds
  <2>2. results'[t].status = "integrated" /\ \A u \in Tasks \ {t} : results'[u] = results[u]
    <3>1. done.status = "integrated"
      OBVIOUS
    <3>2. results \in [Tasks -> Results] /\ t \in Tasks
      BY <1>2, TypeFacts DEF FanoutInv
    <3> HIDE DEF done, t
    <3>3. results'[t] = done /\ \A u \in Tasks \ {t} : results'[u] = results[u]
      BY <2>1, <3>2
    <3> QED
      BY <3>1, <3>3
  <2>3. Merged' = Merged \cup {t}
    <3>1. merged \in Seq(Tasks) /\ t \in Tasks
      BY <1>2, TypeFacts DEF FanoutInv
    <3>2. merged' = Append(merged, t)
      BY <2>1
    <3> HIDE DEF t
    <3> QED
      BY <3>1, <3>2, AppendSet DEF Merged
  <2>4. /\ ~Closed /\ ~Closed' /\ results[t] = NoResult /\ ~FrontierTerminal
        /\ TrustedResults /\ OpenResults
    <3>1. NoResult.status = "none"
      BY DEF NoResult
    <3>2. ~Closed /\ ~Closed' /\ t \in Placed /\ TrustedResults /\ OpenResults
      BY <1>1, <1>2 DEF Closed, Placed, BlameInv
    <3>3. results[t] = NoResult
      BY <3>2 DEF OpenResults
    <3> QED
      BY <1>2, <3>1, <3>2, <3>3 DEF FrontierTerminal
  <2>5. Placed' = Placed \ {t}
    BY <1>1, <1>2 DEF Placed
  <2> HIDE DEF t
  <2>6. TrustedResults'
    <3> SUFFICES ASSUME NEW u \in Members(plan)
                 PROVE  /\ u \notin Merged' => results'[u].status # "integrated"
                        /\ results'[u].status = "failed" => \E r \in history' : r.task = u
      BY <1>1 DEF TrustedResults
    <3>1. CASE u = t
      BY <2>2, <2>3, <3>1
    <3>2. CASE u # t
      BY <1>1, <1>2, <2>2, <2>3, <2>4, <3>2 DEF TrustedResults
    <3> QED
      BY <3>1, <3>2
  <2>7. OpenResults'
    <3>1. \A u \in Members(plan) : \/ results'[u] = NoResult
                                   \/ results'[u].status \in {"integrated", "failed"}
      BY <1>2, <2>2, <2>4 DEF OpenResults
    <3>2. \A u \in Placed' : results'[u] = NoResult
      BY <1>2, <2>2, <2>4, <2>5, PlacedFits DEF OpenResults
    <3>3. \A u \in Members(plan) \ (Placed' \cup Merged') : results'[u] # NoResult
      BY <1>2, <2>2, <2>3, <2>4, <2>5 DEF OpenResults
    <3>4. Members(plan') = Members(plan)
      BY <1>1
    <3> QED
      BY <3>1, <3>2, <3>3, <3>4 DEF OpenResults
  <2>8. Verdicts' /\ Rounds'
    BY <1>1, <2>1, <2>4 DEF Verdicts, Rounds
  <2> QED
    BY <2>6, <2>7, <2>8 DEF BlameInv
<1> QED
  BY <1>3, <1>4

LEMMA LaunchBlame ==
  ASSUME FanoutInv, HandoffInv, BlameInv, LaunchNext
  PROVE  BlameInv'
<1> DEFINE t == Head(todo)
<1>1. /\ pc = "launch" /\ pc' = "launch" /\ todo # <<>>
      /\ pending' = pending \ {t} /\ running' = running \cup {t}
      /\ UNCHANGED <<plan, candidates, history, results, merged>>
  BY DEF LaunchNext
<1>2. t \in pending
  BY <1>1, TypeFacts, HeadAndTail DEF FanoutInv, CInv, Todos
<1> HIDE DEF t
<1>3. Placed' = Placed /\ Closed' = Closed /\ ~Closed' /\ running' # {}
  BY <1>1, <1>2 DEF Placed, Closed
<1>4. TrustedResults' /\ OpenResults' /\ Verdicts'
  BY <1>1, <1>3, ResultsStay DEF BlameInv
<1>5. Rounds'
  BY <1>1, <1>3 DEF Rounds
<1> QED
  BY <1>4, <1>5 DEF BlameInv

LEMMA SettleBlame == ASSUME FanoutInv, HandoffInv, BlameInv, Settle PROVE BlameInv'
<1>1. /\ pc = "settle" /\ pc' = "close" /\ UNCHANGED <<plan, liveVars, merged, history>>
      /\ results' = [u \in Tasks |-> IF u \in Members(plan) /\ results[u] = NoResult
                                     THEN Untrusted(u) ELSE results[u]]
  BY DEF Settle
<1>2. /\ ~Closed /\ Closed' /\ TrustedResults /\ OpenResults /\ Blame
  BY <1>1 DEF Closed, BlameInv, Rounds
<1>3. /\ Merged' = Merged /\ Frontier' = Frontier /\ Members(plan') = Members(plan)
      /\ Members(plan) \subseteq Tasks
  BY <1>1, TypeFacts DEF Merged, Frontier, Order, FanoutInv
<1>4. \A u \in Members(plan) : /\ results[u] = NoResult => results'[u] = Untrusted(u)
                               /\ results[u] # NoResult => results'[u] = results[u]
  BY <1>1, <1>3
<1>5. \A d \in Members(plan) : results[d].status # "integrated" <=> d \notin Merged
  BY <1>2 DEF TrustedResults, FanoutInv, CInv, MergedSound
<1>6. ASSUME NEW u \in Members(plan)
      PROVE  /\ Untrusted(u).status \in {"blocked", "not_integrated"}
             /\ Untrusted(u).status = "blocked" <=>
                  /\ ~\E r \in history : r.task = u
                  /\ \E d \in Upstream(plan.hard, u) : d \notin Merged
  <2>1. Upstream(plan.hard, u) \subseteq Members(plan)
    <3>1. \A e \in plan.hard : e[1] \in Members(plan)
      BY TypeFacts, PlanFacts DEF FanoutInv
    <3> QED
      BY <3>1 DEF Upstream
  <2>2. (\E d \in Upstream(plan.hard, u) : results[d].status # "integrated")
          <=> \E d \in Upstream(plan.hard, u) : d \notin Merged
    BY <1>5, <2>1
  <2> DEFINE attempted == \E r \in history : r.task = u
             hardFailed == \E d \in Upstream(plan.hard, u) : results[d].status # "integrated"
  <2>3. Untrusted(u).status = IF hardFailed /\ ~attempted THEN "blocked" ELSE "not_integrated"
    BY DEF Untrusted
  <2> QED
    BY <2>2, <2>3
<1>7. TrustedResults'
  <2> SUFFICES ASSUME NEW u \in Members(plan)
               PROVE  /\ u \notin Merged => results'[u].status # "integrated"
                      /\ results'[u].status = "failed" => \E r \in history : r.task = u
    BY <1>1, <1>3 DEF TrustedResults
  <2> QED
    BY <1>2, <1>4, <1>6 DEF TrustedResults
<1>8. Verdicts'
  <2> SUFFICES ASSUME NEW u \in Members(plan)
               PROVE  results'[u].status = "blocked" <=>
                        /\ ~\E r \in history : r.task = u
                        /\ \E d \in Upstream(plan.hard, u) : d \notin Merged
    BY <1>1, <1>3 DEF Verdicts
  <2>1. CASE results[u] = NoResult
    BY <1>4, <1>6, <2>1
  <2>2. CASE results[u] # NoResult
    <3>1. results'[u] = results[u] /\ results[u].status \in {"integrated", "failed"}
      BY <1>2, <1>4, <2>2 DEF OpenResults
    <3>2. \E r \in history : r.task = u
      <4>1. CASE u \in Merged
        BY <4>1 DEF FanoutInv, CInv, MergedSound, SoundRecord
      <4>2. CASE u \notin Merged
        BY <1>2, <3>1, <4>2 DEF TrustedResults
      <4> QED
        BY <4>1, <4>2
    <3> QED
      BY <3>1, <3>2
  <2> QED
    BY <2>1, <2>2
<1>9. OpenResults'
  BY <1>2 DEF OpenResults
<1>10. Blame'
  <2>1. Touches({}) /\ {} \cap Merged = {}
    BY <1>1 DEF Touches, liveVars
  <2>2. Frontier # NoTask /\ results[Frontier].status = "failed"
          => results'[Frontier].status = "failed"
    <3> SUFFICES ASSUME results[Frontier].status = "failed", Frontier # NoTask
                 PROVE  results'[Frontier] = results[Frontier]
      OBVIOUS
    <3>1. NoResult.status = "none"
      BY DEF NoResult
    <3> QED
      BY <1>4, <3>1, FrontierFacts
  <2> QED
    BY <1>1, <1>2, <2>1, <2>2, BlameStays
<1>11. Rounds'
  BY <1>1, <1>10 DEF Rounds
<1> QED
  BY <1>7, <1>8, <1>9, <1>11 DEF BlameInv

(* At the start of a run, or of what is left of it. *)
LEMMA AnewBlame ==
  ASSUME pc' \in {"off", "save", "down"},
         \A t \in (Members(plan) \cap Merged)' : results'[t].status = "integrated",
         (Placed = Members(plan) \ Merged)', \A t \in Placed' : results'[t] = NoResult
  PROVE  BlameInv'
<1>1. NoResult.status = "none"
  BY DEF NoResult
<1>2. ~Closed'
  BY DEF Closed
<1>3. TrustedResults'
  BY <1>1 DEF TrustedResults
<1>4. OpenResults'
  BY <1>2 DEF OpenResults
<1>5. Verdicts' /\ Rounds'
  BY <1>2 DEF Verdicts, Rounds
<1> QED
  BY <1>3, <1>4, <1>5 DEF BlameInv

LEMMA ResumeBlame == ASSUME FanoutInv, Resume, FanoutInv' PROVE BlameInv'
<1> DEFINE kept == ToSet(checkpoint.merged)
<1>1. /\ pc = "down" /\ pc' = "save" /\ Resumable(checkpoint) /\ Restore(checkpoint)
      /\ UNCHANGED <<plan, running, candidates>>
  BY DEF Resume
<1>2. /\ merged' = checkpoint.merged /\ pending' = Members(plan) \ kept
      /\ results' = [t \in Tasks |-> IF t \in kept THEN checkpoint.results[t] ELSE NoResult]
  BY <1>1 DEF Restore
<1>3. running = {} /\ candidates = {} /\ Members(plan) \subseteq Tasks
  BY <1>1, TypeFacts DEF FanoutInv, CInv, Idle, EmptyState
<1>4. Merged' = kept /\ Placed' = Members(plan) \ kept
  BY <1>1, <1>2, <1>3 DEF Merged, Placed
<1>5. \A t \in Merged' : results'[t].status = "integrated"
  BY DEF FanoutInv, CInv, MergedSound
<1> HIDE DEF kept
<1>6. \A t \in Members(plan) \ kept : results'[t] = NoResult
  BY <1>2, <1>3
<1> QED
  BY <1>1, <1>4, <1>5, <1>6, AnewBlame

LEMMA CrashBlame == ASSUME FanoutInv, Crash PROVE BlameInv'
<1>1. /\ pc' = "down" /\ plan' = plan /\ merged' = <<>> /\ pending' = Members(plan)
      /\ running' = {} /\ candidates' = {} /\ results' = [t \in Tasks |-> NoResult]
  BY DEF Crash
<1>2. Merged' = {} /\ Placed' = Members(plan) /\ Members(plan) \subseteq Tasks
  BY <1>1, TypeFacts DEF Merged, ToSet, Placed, FanoutInv
<1> QED
  BY <1>1, <1>2, AnewBlame

LEMMA BlameKeeps ==
  ASSUME FanoutInv, FanoutInv', HandoffInv, BlameInv, [Next]_vars
  PROVE  BlameInv'
<1>1. CASE \/ UNCHANGED vars \/ CleanTree \/ Coordinate \/ \E t \in Tasks : FinishWorker(t)
  BY <1>1, OutsideBlame
<1>2. CASE \/ Start \/ LeaveLoop \/ CollectDone \/ AdvanceDone \/ SaveCheckpoint \/ Wait
           \/ SaveOutcome \/ WriteSummary
  BY <1>2, LoopBlame
<1>3. CASE SelectReady \/ LaunchNext
  BY <1>3, SelectBlame, LaunchBlame
<1>4. CASE GatherNext \/ Advance
  BY <1>4, GatherBlame, AdvanceBlame
<1>5. CASE ApplySucceeds \/ ApplyFails
  BY <1>5, ApplyBlame
<1>6. CASE Settle
  BY <1>6, SettleBlame
<1>7. CASE Crash \/ Resume
  BY <1>7, CrashBlame, ResumeBlame
<1> QED
  BY <1>1, <1>2, <1>3, <1>4, <1>5, <1>6, <1>7 DEF Next, Coordinator, Stopped

LEMMA BlameHolds == Spec => [](FanoutInv /\ HandoffInv /\ BlameInv)
<1>1. Init => BlameInv
  <2> SUFFICES ASSUME Init PROVE BlameInv
    OBVIOUS
  <2>1. NoResult.status = "none" /\ Members(plan) \subseteq Tasks
    BY PlanFacts DEF NoResult, Init
  <2>2. ~Closed /\ Merged = {} /\ Placed = Members(plan) /\ results = [t \in Tasks |-> NoResult]
    BY DEF Init, EmptyState, Closed, Merged, ToSet, Placed
  <2>3. \A t \in Members(plan) : results[t] = NoResult
    BY <2>1, <2>2
  <2>4. TrustedResults /\ OpenResults
    BY <2>1, <2>2, <2>3 DEF TrustedResults, OpenResults
  <2>5. Verdicts /\ Rounds
    BY <2>2 DEF Verdicts, Rounds, Init
  <2> QED
    BY <2>4, <2>5 DEF BlameInv
<1>2. FanoutInv /\ HandoffInv /\ BlameInv /\ FanoutInv' /\ [Next]_vars => BlameInv'
  BY BlameKeeps
<1> QED
  BY <1>1, <1>2, HandoffInvHolds, PTL DEF Spec

(* A fanout that gives up has a reason in the task it could not integrate  *)
(* next, and every other task that is not integrated is told the truth:    *)
(* blocked, if it was never tried for want of a predecessor.               *)
THEOREM GivesUpForAReason == Spec => []FrontierIsToBlame
<1>1. FanoutInv /\ BlameInv => FrontierIsToBlame
  <2> SUFFICES ASSUME FanoutInv, BlameInv, Closed PROVE FrontierIsToBlame
    BY DEF FrontierIsToBlame, Closed
  <2>1. \A t \in Members(plan) : results[t].status = "integrated" <=> t \in Merged
    BY DEF BlameInv, TrustedResults, FanoutInv, CInv, MergedSound
  <2>2. \A t \in Members(plan) : results[t].status = "blocked" <=>
          /\ ~\E r \in history : r.task = t
          /\ \E d \in Upstream(plan.hard, t) : d \notin Merged
    BY DEF BlameInv, Verdicts
  <2>3. Blame
    BY DEF BlameInv, Rounds
  <2> QED
    BY <2>1, <2>2, <2>3 DEF FrontierIsToBlame, Blame
<1> QED
  BY <1>1, BlameHolds, PTL
============================================================================
