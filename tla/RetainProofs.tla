---------------------------- MODULE RetainProofs ----------------------------
(***************************************************************************)
(* What retain returns: the kept elements in the old order.  The positions *)
(* are finite, rank numbers them without gaps, so it has an inverse.       *)
(***************************************************************************)
EXTENDS Retain, Integers, FiniteSetTheorems, TLAPS

\* rank orders the positions as they are ordered.
LEMMA RankMonotone ==
    ASSUME NEW n \in Nat, NEW at \in SUBSET (1 .. n), NEW i \in at, NEW j \in at, i < j
    PROVE  rank(at, i) < rank(at, j)
<1> DEFINE A == {k \in at : k <= i}
           B == {k \in at : k <= j}
<1>0. at \subseteq Nat
  OBVIOUS
<1>1. IsFiniteSet(at)
  <2>1. IsFiniteSet(1 .. n)
    BY FS_Interval
  <2> QED
    BY <2>1, FS_Subset
<1>2. IsFiniteSet(B) /\ A \in SUBSET B
  <2>0. \A k \in at : k <= i => k <= j
    BY <1>0
  <2>1. B \in SUBSET at /\ A \in SUBSET B
    BY <2>0
  <2> QED
    BY <1>1, <2>1, FS_Subset
<1>3. A # B
  <2>1. j \in B /\ j \notin A
    OBVIOUS
  <2> QED
    BY <2>1
<1>4. Cardinality(A) <= Cardinality(B) /\ Cardinality(B) # Cardinality(A)
  BY <1>2, <1>3, FS_Subset
<1>5. Cardinality(A) \in Nat /\ Cardinality(B) \in Nat
  BY <1>2, FS_Subset, FS_CardinalityType
<1> QED
  BY <1>4, <1>5 DEF rank

\* rank numbers the positions from 1 on.
LEMMA RankBijection ==
    ASSUME NEW n \in Nat, NEW at \in SUBSET (1 .. n)
    PROVE  /\ Cardinality(at) \in 0 .. n
           /\ \A i \in at : rank(at, i) \in 1 .. Cardinality(at)
           /\ \A k \in 1 .. Cardinality(at) : \E i \in at : rank(at, i) = k
<1> DEFINE m == Cardinality(at)
           f == [i \in at |-> rank(at, i)]
<1>0. \A i, j \in at : i < j => rank(at, i) < rank(at, j)
  BY RankMonotone
<1>1. IsFiniteSet(at) /\ m \in 0 .. n
  <2>1. IsFiniteSet(1 .. n) /\ Cardinality(1 .. n) = n
    BY FS_Interval
  <2>2. IsFiniteSet(at) /\ Cardinality(at) <= n
    BY <2>1, FS_Subset
  <2> QED
    BY <2>2, FS_CardinalityType
<1>2. \A i \in at : rank(at, i) \in 1 .. m
  <2> TAKE i \in at
  <2> DEFINE A == {j \in at : j <= i}
  <2>1. A \in SUBSET at /\ i \in A
    OBVIOUS
  <2>2. IsFiniteSet(A) /\ Cardinality(A) <= m
    BY <1>1, <2>1, FS_Subset
  <2>3. Cardinality(A) \in Nat /\ Cardinality(A) # 0
    BY <2>1, <2>2, FS_CardinalityType, FS_EmptySet
  <2> QED
    BY <1>1, <2>2, <2>3 DEF rank
<1>3. IsFiniteSet(1 .. m) /\ Cardinality(1 .. m) = m
  BY <1>1, FS_Interval
<1>4. f \in Injection(at, 1 .. m)
  <2>1. f \in [at -> 1 .. m]
    BY <1>2
  <2>2. ASSUME NEW i \in at, NEW j \in at, f[i] = f[j] PROVE i = j
    <3>1. rank(at, i) = rank(at, j)
      BY <2>2
    <3>2. rank(at, i) \in Nat /\ i \in Nat /\ j \in Nat
      BY <1>1, <1>2
    <3>3. ~(i < j) /\ ~(j < i)
      BY <3>1, <3>2, <1>0
    <3> QED
      BY <3>2, <3>3
  <2> QED
    BY <2>1, <2>2 DEF Injection, IsInjective
<1> HIDE DEF f, m
<1>5. f \in Surjection(at, 1 .. m)
  BY <1>1, <1>3, <1>4, FS_Injection DEF m
<1>6. \A k \in 1 .. m : \E i \in at : f[i] = k
  BY <1>5 DEF Surjection
<1> QED
  BY <1>1, <1>2, <1>6 DEF f, m

\* retain picks its elements by an increasing map onto the positions.
LEMMA Retained ==
    ASSUME NEW S, NEW s \in Seq(S), NEW at \in SUBSET (1 .. Len(s))
    PROVE  /\ Cardinality(at) \in 0 .. Len(s)
           /\ \E f \in [1 .. Cardinality(at) -> at] :
                /\ retain(s, at) = [k \in 1 .. Cardinality(at) |-> s[f[k]]]
                /\ \A j, k \in 1 .. Cardinality(at) : j < k => f[j] < f[k]
                /\ \A i \in at : \E k \in 1 .. Cardinality(at) : f[k] = i
<1> DEFINE m == Cardinality(at)
           f == [k \in 1 .. m |-> CHOOSE i \in at : rank(at, i) = k]
<1>0. Len(s) \in Nat /\ at \subseteq Nat
  OBVIOUS
<1>7. \A i, j \in at : i < j => rank(at, i) < rank(at, j)
  BY <1>0, RankMonotone
<1>1. /\ m \in 0 .. Len(s)
      /\ \A i \in at : rank(at, i) \in 1 .. m
      /\ \A k \in 1 .. m : \E i \in at : rank(at, i) = k
  BY <1>0, RankBijection
<1>8. m \in Nat
  BY <1>0, <1>1
<1>2. \A k \in 1 .. m : f[k] \in at /\ rank(at, f[k]) = k
  BY <1>1
<1>3. f \in [1 .. m -> at]
  BY <1>2
<1>4. retain(s, at) = [k \in 1 .. m |-> s[f[k]]]
  BY DEF retain
<1> HIDE DEF f, m
<1>5. ASSUME NEW j \in 1 .. m, NEW k \in 1 .. m, j < k PROVE f[j] < f[k]
  <2>1. f[j] \in Nat /\ f[k] \in Nat /\ j \in Nat /\ k \in Nat
    <3>1. f[j] \in at /\ f[k] \in at
      BY <1>2
    <3>2. j \in Nat /\ k \in Nat
      BY <1>8
    <3> QED
      BY <1>0, <3>1, <3>2, Zenon
  <2>2. ~(f[k] < f[j])
    BY <1>2, <1>5, <1>7, <2>1
  <2>3. f[k] # f[j]
    BY <1>2, <1>5, <2>1
  <2> QED
    BY <2>1, <2>2, <2>3
<1>6. ASSUME NEW i \in at PROVE \E k \in 1 .. m : f[k] = i
  <2> DEFINE k == rank(at, i)
  <2>1. k \in 1 .. m /\ rank(at, f[k]) = k
    BY <1>1, <1>2
  <2>2. i \in Nat /\ f[k] \in Nat /\ f[k] \in at /\ k \in Nat
    <3>1. f[k] \in at
      BY <1>2, <2>1
    <3>2. k \in Nat
      BY <1>8, <2>1
    <3> QED
      BY <1>0, <3>1, <3>2, Zenon
  <2> HIDE DEF k
  <2>3. ~(f[k] < i) /\ ~(i < f[k])
    BY <1>7, <2>1, <2>2 DEF k
  <2> QED
    BY <2>1, <2>2, <2>3
<1> QED
  BY <1>1, <1>3, <1>4, <1>5, <1>6 DEF m

\* A set of positions has a last one: the one whose rank is the number of them.
LEMMA LastPosition ==
    ASSUME NEW n \in Nat, NEW at \in SUBSET (1 .. n), at # {}
    PROVE  \E i \in at : \A j \in at : j <= i
<1> DEFINE m == Cardinality(at)
<1>1. /\ m \in 0 .. n
      /\ \A i \in at : rank(at, i) \in 1 .. m
      /\ \A k \in 1 .. m : \E i \in at : rank(at, i) = k
  BY RankBijection
<1>2. /\ at \subseteq Nat
      /\ \A i, j \in at : i < j => rank(at, i) < rank(at, j)
  <2>1. at \subseteq Nat
    OBVIOUS
  <2>2. \A i, j \in at : i < j => rank(at, i) < rank(at, j)
    BY RankMonotone
  <2> QED
    BY <2>1, <2>2
<1>3. m \in 1 .. m
  <2>1. PICK i : i \in at
    OBVIOUS
  <2>2. rank(at, i) \in 1 .. m /\ m \in Nat
    BY <1>1, <2>1
  <2> QED
    BY <2>2
<1>4. PICK i \in at : rank(at, i) = m
  BY <1>1, <1>3
<1>5. ASSUME NEW j \in at PROVE j <= i
  <2>1. rank(at, j) \in 1 .. m /\ m \in Nat /\ i \in Nat /\ j \in Nat
    BY <1>1, <1>2
  <2>2. ~(i < j)
    BY <1>2, <1>4, <2>1
  <2> QED
    BY <2>1, <2>2
<1> QED
  BY <1>5

\* So has a set of numbers up to n.
LEMMA Greatest ==
    ASSUME NEW n \in Nat, NEW T \in SUBSET (0 .. n), T # {}
    PROVE  \E x \in T : \A y \in T : y <= x
<1> DEFINE at == {x + 1 : x \in T}
<1>1. at \in SUBSET (1 .. n + 1) /\ at # {} /\ n + 1 \in Nat
  <2>1. \A x \in T : x + 1 \in 1 .. n + 1
    OBVIOUS
  <2>2. at # {}
    <3>1. PICK x : x \in T
      OBVIOUS
    <3>2. x + 1 \in at
      BY <3>1
    <3> QED
      BY <3>2
  <2> QED
    BY <2>1, <2>2
<1>2. \A x \in T : x \in Nat /\ x + 1 \in at
  OBVIOUS
<1>3. \A i \in at : i - 1 \in T /\ i \in Nat
  <2> TAKE i \in at
  <2>1. PICK x \in T : i = x + 1
    OBVIOUS
  <2> QED
    BY <1>2, <2>1
<1> HIDE DEF at
<1>4. PICK i \in at : \A j \in at : j <= i
  BY <1>1, LastPosition
<1>5. ASSUME NEW y \in T PROVE y <= i - 1
  BY <1>2, <1>3, <1>4
<1> QED
  BY <1>3, <1>5

\* f lists the positions in at in their order, and r is s read along f.
ReadAlong(s, at, m, f, r) ==
    /\ f \in [1 .. m -> at]
    /\ r = [k \in 1 .. m |-> s[f[k]]]
    /\ \A j, k \in 1 .. m : j < k => f[j] < f[k]
    /\ \A i \in at : \E k \in 1 .. m : f[k] = i

\* retain reads along such a list.
LEMMA RetainedAlong ==
    ASSUME NEW S, NEW s \in Seq(S), NEW at \in SUBSET (1 .. Len(s)), NEW r, r = retain(s, at)
    PROVE  Cardinality(at) \in 0 .. Len(s) /\ \E f : ReadAlong(s, at, Cardinality(at), f, r)
<1>1. /\ Cardinality(at) \in 0 .. Len(s)
      /\ \E f \in [1 .. Cardinality(at) -> at] :
            /\ r = [k \in 1 .. Cardinality(at) |-> s[f[k]]]
            /\ \A j, k \in 1 .. Cardinality(at) : j < k => f[j] < f[k]
            /\ \A i \in at : \E k \in 1 .. Cardinality(at) : f[k] = i
  BY Retained
<1> QED
  BY <1>1, Zenon DEF ReadAlong

\* r has the elements of s at the positions in at, and in their order.
Picked(s, at, r) ==
    /\ \A k \in 1 .. Len(r) : \E i \in at : r[k] = s[i]
    /\ \A i \in at : \E k \in 1 .. Len(r) : r[k] = s[i]
    /\ \A j, k \in 1 .. Len(r) : j < k => \E a, b \in at : a < b /\ r[j] = s[a] /\ r[k] = s[b]

\* Retained, as its users need it.
LEMMA RetainedSeq ==
    ASSUME NEW S, NEW s \in Seq(S), NEW at \in SUBSET (1 .. Len(s)), NEW r, r = retain(s, at)
    PROVE  r \in Seq(S) /\ Len(r) \in Nat /\ Picked(s, at, r)
<1> DEFINE m == Cardinality(at)
<1>1. /\ m \in 0 .. Len(s)
      /\ \E f \in [1 .. m -> at] :
            /\ r = [k \in 1 .. m |-> s[f[k]]]
            /\ \A j, k \in 1 .. m : j < k => f[j] < f[k]
            /\ \A i \in at : \E k \in 1 .. m : f[k] = i
  BY Retained
<1> HIDE DEF m
<1>2. m \in Nat
  BY <1>1
<1>3. PICK f \in [1 .. m -> at] :
            /\ r = [k \in 1 .. m |-> s[f[k]]]
            /\ \A j, k \in 1 .. m : j < k => f[j] < f[k]
            /\ \A i \in at : \E k \in 1 .. m : f[k] = i
  BY <1>1
<1>4. \A k \in 1 .. m : f[k] \in 1 .. Len(s) /\ s[f[k]] \in S
  <2>1. \A i \in at : i \in 1 .. Len(s)
    OBVIOUS
  <2>2. \A i \in 1 .. Len(s) : s[i] \in S
    OBVIOUS
  <2>3. \A k \in 1 .. m : f[k] \in at
    OBVIOUS
  <2> QED
    BY <2>1, <2>2, <2>3
<1>5. r \in Seq(S) /\ Len(r) = m
  BY <1>2, <1>3, <1>4
<1>6. \A k \in 1 .. m : r[k] = s[f[k]] /\ f[k] \in at
  BY <1>3
<1>7. \A k \in 1 .. m : \E i \in at : r[k] = s[i]
  BY <1>6
<1>8. \A i \in at : \E k \in 1 .. m : r[k] = s[i]
  BY <1>3, <1>6
<1>9. ASSUME NEW j \in 1 .. m, NEW k \in 1 .. m, j < k
      PROVE  \E a, b \in at : a < b /\ r[j] = s[a] /\ r[k] = s[b]
  <2>1. f[j] < f[k]
    BY <1>3, <1>9
  <2> QED
    BY <1>6, <2>1
<1> QED
  BY <1>2, <1>5, <1>7, <1>8, <1>9 DEF Picked

\* What is dropped makes the sequence shorter.
LEMMA RetainedShorter ==
    ASSUME NEW S, NEW s \in Seq(S), NEW at \in SUBSET (1 .. Len(s)), NEW r, r = retain(s, at)
    PROVE  /\ Len(r) <= Len(s)
           /\ \A i \in 1 .. Len(s) : i \notin at => Len(r) < Len(s)
<1>1. Len(s) \in Nat /\ IsFiniteSet(1 .. Len(s)) /\ Cardinality(1 .. Len(s)) = Len(s)
  BY FS_Interval
<1>2. /\ Cardinality(at) \in Nat /\ Cardinality(at) <= Len(s)
      /\ Cardinality(at) = Len(s) => at = 1 .. Len(s)
  BY <1>1, FS_Subset, FS_CardinalityType
<1> DEFINE m == Cardinality(at)
           g == [k \in 1 .. m |-> s[CHOOSE i \in at : rank(at, i) = k]]
<1>3. r = g
  BY DEF retain
<1> HIDE DEF m
<1>4. DOMAIN g = 1 .. m /\ m \in Nat
  BY <1>2 DEF m
<1>5. r \in Seq(S)
  BY RetainedSeq
<1>6. Len(r) = m
  BY <1>3, <1>4, <1>5
<1> QED
  BY <1>1, <1>2, <1>6 DEF m
=============================================================================
