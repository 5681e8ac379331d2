------------------------------ MODULE KitNaturals ------------------------------
(***************************************************************************)
(* Natural numbers, for the proofs about definitions that choose one or    *)
(* count with one: the least and the greatest of a set, upward induction   *)
(* as a set that is closed, recursive functions on an interval, division.  *)
(* The library's induction theorems take an operator, which the provers    *)
(* cannot instantiate; that the strict subsets of finite sets are          *)
(* well-founded does not need one.                                         *)
(***************************************************************************)
EXTENDS Integers, Sequences, SequencesExt, FiniteSets, FiniteSetsExt, FiniteSetTheorems, WellFoundedInduction, TLAPS

(* A set of natural numbers that is not empty has a least one.             *)
LEMMA LeastNatural ==
  ASSUME NEW S \in SUBSET Nat, S # {}
  PROVE  \E i \in S : \A j \in S : i <= j
<1> DEFINE below == {1 .. i : i \in S}
<1>1. ASSUME NEW i \in S PROVE 1 .. i \in FiniteSubsetsOf(Nat)
  <2>1. IsFiniteSet(1 .. i) /\ 1 .. i \subseteq Nat
    BY FS_Interval
  <2> QED BY <2>1 DEF FiniteSubsetsOf
<1>2. below \subseteq FiniteSubsetsOf(Nat) /\ below # {}
  BY <1>1
<1>3. PICK x \in below : \A y \in below : <<y, x>> \notin StrictSubsetOrdering(Nat)
  BY <1>2, WFMin, FS_StrictSubsetOrderingWellFounded, Zenon
<1>4. PICK i \in S : x = 1 .. i
  OBVIOUS
<1>5. ASSUME NEW j \in S, j < i PROVE FALSE
  <2>1. 1 .. j \subseteq 1 .. i /\ 1 .. j # 1 .. i /\ 1 .. i \subseteq Nat
    BY <1>5
  <2>2. <<1 .. j, 1 .. i>> \in StrictSubsetOrdering(Nat)
    BY <2>1 DEF StrictSubsetOrdering
  <2> QED BY <2>2, <1>3, <1>4
<1> QED BY <1>5

(* If it is bounded, it has a greatest one.                                *)
LEMMA GreatestNatural ==
  ASSUME NEW S \in SUBSET Nat, S # {}, NEW n \in Nat, \A i \in S : i <= n
  PROVE  \E i \in S : \A j \in S : j <= i
<1> DEFINE above == {n - i : i \in S}
<1>1. \A i \in S : n - i \in Nat
  OBVIOUS
<1>2. above \subseteq Nat /\ above # {}
  BY <1>1
<1>3. PICK m \in above : \A y \in above : m <= y
  BY <1>2, LeastNatural
<1>4. PICK i \in S : m = n - i
  OBVIOUS
<1>5. \A j \in S : n - i <= n - j
  BY <1>3, <1>4
<1>6. \A j \in S : j <= i
  BY <1>5
<1> QED BY <1>6

(* What Min and Max choose.                                                *)
LEMMA MinIsLeast ==
  ASSUME NEW S \in SUBSET Nat, S # {}
  PROVE  Min(S) \in S /\ \A j \in S : Min(S) <= j
<1>1. \E i \in S : \A j \in S : i <= j
  BY LeastNatural
<1> QED BY <1>1 DEF Min

(* Max is the greatest of a finite set that is not empty.                  *)
LEMMA MaxIsGreatest ==
  ASSUME NEW S \in SUBSET Nat, S # {}, NEW n \in Nat, \A i \in S : i <= n
  PROVE  Max(S) \in S /\ \A j \in S : j <= Max(S)
<1>1. \E i \in S : \A j \in S : j <= i
  BY GreatestNatural
<1>2. \E i \in S : \A j \in S : i >= j
  BY <1>1
<1>3. Max(S) \in S /\ \A j \in S : Max(S) >= j
  BY <1>2 DEF Max
<1> QED BY <1>3

(* The number of smaller elements is the place of an element in a finite   *)
(* set: every place is taken, and by one element only.                     *)
LEMMA RankIsBijective ==
  ASSUME NEW S \in SUBSET Nat, IsFiniteSet(S)
  PROVE  /\ \A u, v \in S :
              Cardinality({w \in S : w < u}) = Cardinality({w \in S : w < v})
                => u = v
         /\ \A k \in 1 .. Cardinality(S) : \E u \in S :
              Cardinality({w \in S : w < u}) = k - 1
         /\ \A u \in S : Cardinality({w \in S : w < u}) + 1 \in 1 .. Cardinality(S)
<1> DEFINE below(u) == {w \in S : w < u}
           places   == 0 .. Cardinality(S) - 1
           rank     == [u \in S |-> Cardinality(below(u))]
<1>1. Cardinality(S) \in Nat
  BY FS_CardinalityType
<1>2. ASSUME NEW u \in S
      PROVE  /\ IsFiniteSet(below(u)) /\ Cardinality(below(u)) \in Nat
             /\ Cardinality(below(u)) < Cardinality(S)
  <2>1. below(u) \in SUBSET S /\ below(u) # S
    OBVIOUS
  <2>2. IsFiniteSet(below(u)) /\ Cardinality(below(u)) <= Cardinality(S)
        /\ Cardinality(S) # Cardinality(below(u))
    BY <2>1, FS_Subset
  <2>3. Cardinality(below(u)) \in Nat
    BY <2>2, FS_CardinalityType
  <2> QED BY <1>1, <2>2, <2>3
<1>3. ASSUME NEW u \in S, NEW v \in S, u < v
      PROVE  Cardinality(below(u)) < Cardinality(below(v))
  <2>1. u \in below(v) /\ u \notin below(u) /\ \A w \in below(u) : w \in below(v)
    BY <1>3
  <2>2. Cardinality(below(u)) <= Cardinality(below(v))
        /\ Cardinality(below(v)) # Cardinality(below(u))
    <3>1. below(u) \in SUBSET below(v) /\ below(u) # below(v)
      BY <2>1, Zenon
    <3> QED BY <1>2, <3>1, FS_Subset
  <2> QED BY <1>2, <2>2
<1>4. ASSUME NEW u \in S, NEW v \in S, Cardinality(below(u)) = Cardinality(below(v))
      PROVE  u = v
  <2>1. ~(u < v) /\ ~(v < u)
    BY <1>2, <1>3, <1>4
  <2> QED BY <2>1
<1>5. rank \in Injection(S, places)
  <2>1. \A u \in S : Cardinality(below(u)) \in places
    BY <1>1, <1>2
  <2>2. rank \in [S -> places]
    BY <2>1
  <2>3. \A u, v \in S : rank[u] = rank[v] => u = v
    BY <1>4
  <2> QED BY <2>2, <2>3 DEF Injection, IsInjective
<1>6. IsFiniteSet(places) /\ Cardinality(places) = Cardinality(S)
  <2>1. IsFiniteSet(places) /\ Cardinality(places)
          = IF 0 > Cardinality(S) - 1 THEN 0 ELSE Cardinality(S) - 1 - 0 + 1
    BY <1>1, FS_Interval
  <2> QED BY <1>1, <2>1, SMTT(30)
<1>7. rank \in Surjection(S, places)
  BY <1>5, <1>6, FS_Injection
<1>8. ASSUME NEW k \in 1 .. Cardinality(S)
      PROVE  \E u \in S : Cardinality(below(u)) = k - 1
  <2>1. k - 1 \in places
    BY <1>1
  <2> HIDE DEF places
  <2>2. PICK u \in S : rank[u] = k - 1
    BY <1>7, <2>1 DEF Surjection
  <2> QED BY <2>2
<1>9. \A u \in S : Cardinality(below(u)) + 1 \in 1 .. Cardinality(S)
  BY <1>1, <1>2
<1> QED BY <1>4, <1>8, <1>9
-----------------------------------------------------------------------------
(* Induction up to a number, for a set given by what is to be shown.       *)
LEMMA Upward ==
  ASSUME NEW n \in Nat, NEW good, 0 \in good,
         \A i \in 1 .. n : i - 1 \in good => i \in good
  PROVE  \A i \in 0 .. n : i \in good
<1> DEFINE bad == {i \in 0 .. n : i \notin good}
<1> SUFFICES ASSUME bad # {} PROVE FALSE
  OBVIOUS
<1>1. PICK i \in bad : \A j \in bad : i <= j
  <2>1. bad \in SUBSET Nat
    OBVIOUS
  <2> QED BY <2>1, LeastNatural
<1>2. i \in 1 .. n /\ i - 1 \in 0 .. n /\ ~(i <= i - 1)
  BY <1>1
<1>3. i - 1 \in good
  BY <1>1, <1>2
<1> QED BY <1>1, <1>2, <1>3

(* A function that begins in a set and does not leave it.                  *)
LEMMA StaysIn ==
  ASSUME NEW n \in Nat, NEW S, NEW f, f[0] \in S,
         \A i \in 1 .. n : f[i - 1] \in S => f[i] \in S
  PROVE  f[n] \in S
<1> DEFINE good == {i \in 0 .. n : f[i] \in S}
<1>1. 0 \in good /\ \A i \in 1 .. n : i - 1 \in good => i \in good
  OBVIOUS
<1> HIDE DEF good
<1>2. n \in good
  BY <1>1, Upward
<1> QED BY <1>2 DEF good

(* A function that is defined by recursion over the numbers up to n.       *)
Recursive(f, S, base, n, step) ==
  /\ f \in [0 .. n -> S]
  /\ f[0] = base /\ \A i \in 1 .. n : f[i] = step[<<i, f[i - 1]>>]

(* There is one.                                                           *)
LEMMA RecursionExists ==
  ASSUME NEW S, NEW base, base \in S, NEW n, n \in Nat,
         NEW step, step \in [(1 .. n) \X S -> S]
  PROVE  \E f : Recursive(f, S, base, n, step)
<1> DEFINE Steps(f, k) == f[0] = base /\ \A i \in 1 .. k : f[i] = step[<<i, f[i - 1]>>]
           good == {k \in 0 .. n : \E f \in [0 .. k -> S] : Steps(f, k)}
<1>1. 0 \in good
  <2> DEFINE f == [i \in 0 .. 0 |-> base]
  <2>1. f \in [0 .. 0 -> S] /\ Steps(f, 0)
    OBVIOUS
  <2> HIDE DEF f
  <2> QED BY <2>1
<1>2. ASSUME NEW k \in 1 .. n, k - 1 \in good PROVE k \in good
  <2>1. PICK f \in [0 .. k - 1 -> S] : Steps(f, k - 1)
    BY <1>2
  <2> DEFINE g == [i \in 0 .. k |-> IF i = k THEN step[<<k, f[k - 1]>>] ELSE f[i]]
  <2>2. f[k - 1] \in S /\ step[<<k, f[k - 1]>>] \in S
    OBVIOUS
  <2>3. g \in [0 .. k -> S]
    BY <2>2
  <2>4. \A i \in 0 .. k - 1 : g[i] = f[i]
    OBVIOUS
  <2>5. g[k] = step[<<k, f[k - 1]>>] /\ g[k - 1] = f[k - 1] /\ g[0] = f[0]
    OBVIOUS
  <2> HIDE DEF g
  <2>6. ASSUME NEW i \in 1 .. k PROVE g[i] = step[<<i, g[i - 1]>>]
    <3>1. CASE i = k
      BY <2>5, <3>1
    <3>2. CASE i # k
      <4>1. i \in 1 .. k - 1 /\ i - 1 \in 0 .. k - 1 /\ i \in 0 .. k - 1
        BY <3>2
      <4> QED BY <2>1, <2>4, <4>1
    <3> QED BY <3>1, <3>2
  <2>7. Steps(g, k)
    BY <2>1, <2>5, <2>6
  <2> QED BY <2>3, <2>7
<1> HIDE DEF good
<1>3. n \in good
  BY <1>1, <1>2, Upward
<1> QED BY <1>3 DEF good, Recursive

-----------------------------------------------------------------------------
(* FlattenSeq by its partial results: f[i] is the first i of them together. *)
(* It is a recursive function, which exists because there is no least      *)
(* number of sequences it is not defined for.                              *)
LEMMA FlattenExists ==
  ASSUME NEW ss, Len(ss) \in Nat
  PROVE  \E f : /\ \A i \in 1 .. Len(ss) : f[i] = IF i = 1 THEN ss[i] ELSE f[i - 1] \o ss[i]
               /\ FlattenSeq(ss) = IF Len(ss) = 0 THEN ss ELSE f[Len(ss)]
<1> DEFINE N == Len(ss)
           Upto(f, n) ==
             f = [i \in 1 .. n |-> IF i = 1 THEN ss[i] ELSE f[i - 1] \o ss[i]]
           missing == {n \in Nat : ~ \E f : Upto(f, n)}
           flatten == CHOOSE f : Upto(f, N)
<1>1. N \in Nat
  OBVIOUS
<1>2. missing = {}
  <2> SUFFICES ASSUME missing # {} PROVE FALSE
    OBVIOUS
  <2>1. PICK n \in missing : \A m \in missing : n <= m
    BY LeastNatural
  <2>2. n \in Nat /\ n # 0
    <3>1. Upto([i \in 1 .. 0 |-> ss[i]], 0)
      OBVIOUS
    <3> QED BY <3>1
  <2>3. n - 1 \in Nat /\ n - 1 \notin missing
    <3> HIDE DEF missing
    <3>1. n - 1 \in Nat /\ ~(n <= n - 1)
      BY <2>2
    <3> QED BY <2>1, <3>1
  <2>4. PICK f : Upto(f, n - 1)
    BY <2>3
  <2> DEFINE g == [i \in 1 .. n |-> IF i < n THEN f[i]
                                    ELSE IF i = 1 THEN ss[i] ELSE f[i - 1] \o ss[i]]
  <2>5. ASSUME NEW i \in 1 .. n
        PROVE  g[i] = IF i = 1 THEN ss[i] ELSE g[i - 1] \o ss[i]
    <3>1. CASE i < n /\ i = 1
      BY <2>2, <2>4, <3>1
    <3>2. CASE i < n /\ i # 1
      <4>1. i \in 1 .. n - 1 /\ i - 1 \in 1 .. n /\ i - 1 < n
        BY <2>2, <3>2
      <4>2. g[i] = f[i] /\ g[i - 1] = f[i - 1]
        BY <3>2, <4>1
      <4>3. f[i] = f[i - 1] \o ss[i]
        BY <2>4, <3>2, <4>1
      <4> QED BY <3>2, <4>2, <4>3
    <3>3. CASE i = n /\ i = 1
      BY <2>2, <3>3
    <3>4. CASE i = n /\ i # 1
      <4>1. i - 1 \in 1 .. n /\ i - 1 < n
        BY <2>2, <3>4
      <4>2. g[i - 1] = f[i - 1]
        BY <4>1
      <4>3. i \in 1 .. n /\ ~(i < n)
        BY <2>2, <3>4
      <4>4. g[i] = f[i - 1] \o ss[i]
        BY <3>4, <4>3
      <4> QED BY <3>4, <4>2, <4>4
    <3> QED BY <2>2, <3>1, <3>2, <3>3, <3>4
  <2>6. Upto(g, n)
    <3>1. g = [i \in 1 .. n |-> g[i]]
      OBVIOUS
    <3> HIDE DEF g
    <3> QED BY <2>5, <3>1, Zenon
  <2> QED BY <2>1, <2>6
<1>3. Upto(flatten, N)
  <2> HIDE DEF N
  <2> QED BY <1>1, <1>2, ZenonT(30)
<1>4. N # 0 => FlattenSeq(ss) = flatten[N]
  BY DEF FlattenSeq
<1>5. N = 0 => FlattenSeq(ss) = ss
  BY DEF FlattenSeq
<1>6. \A i \in 1 .. N : flatten[i] = IF i = 1 THEN ss[i] ELSE flatten[i - 1] \o ss[i]
  BY <1>3
<1> HIDE DEF flatten
<1> QED BY <1>4, <1>5, <1>6

-----------------------------------------------------------------------------
(* Division, as far as the provers do not know it.                         *)
LEMMA Division ==
  ASSUME NEW m \in Nat, NEW n \in Nat \ {0}
  PROVE  /\ m \div n \in Nat
         /\ (m \div n) * n \in Nat /\ (m \div n) * n <= m /\ m < (m \div n) * n + n
         /\ \A p \in Nat : p * n <= m /\ m < p * n + n => p = m \div n
OBVIOUS

(* The remainder, by the multiple that a number lies behind.               *)
LEMMA Remainder ==
  ASSUME NEW p \in Nat, NEW n \in Nat \ {0}, NEW r \in 0 .. n - 1
  PROVE  (p * n + r) % n = r
OBVIOUS

================================================================================
