-------------------------- MODULE FragmentsProofs --------------------------
(***************************************************************************)
(* Proofs about Fragments, for every length of bodies and packets, every   *)
(* number of fragments and of postings.                                    *)
(***************************************************************************)
EXTENDS Fragments, RetainProofs, SequenceTheorems, TLAPS

-----------------------------------------------------------------------------
(* The room of a packet *)

\* The constants, one by one.
LEMMA Constants ==
    /\ Pad \in Nat /\ HeadLen \in Nat /\ XorLen \in Nat /\ WideFrom \in Nat
    /\ MaxFrags \in Nat /\ MaxPostings \in Nat /\ LenPerVariant \in Nat
    /\ FillerCost \in {0, 1} /\ Variants \subseteq Nat
BY FragmentsAssumption

\* Max of a set of numbers with a bound.
LEMMA MaxOf ==
    ASSUME NEW n \in Nat, NEW S \in SUBSET (0 .. n), S # {}
    PROVE  Max(S) \in S /\ \A y \in S : y <= Max(S)
<1>1. \E x \in S : \A y \in S : y <= x
  BY Greatest
<1>2. \E x \in S : \A y \in S : x >= y
  BY <1>1
<1>3. Max(S) \in S /\ \A y \in S : Max(S) >= y
  BY <1>2 DEF Max
<1> QED
  BY <1>3

\* largest_frag is at most Pad, whatever a filler byte takes.
LEMMA LargestFrag ==
    ASSUME NEW kind \in {"TxFragMore", "TxFragLast"}, NEW s \in Nat
    PROVE  largest_frag(kind, s) \in 0 .. Pad
<1> DEFINE S == {n \in 0 .. Pad : packed_packet(kind, s, n, FillerCost) <= Pad} \cup {0}
<1>1. S \in SUBSET (0 .. Pad) /\ S # {}
  BY Constants
<1>2. Max(S) \in S /\ \A y \in S : y <= Max(S)
  BY <1>1, MaxOf, Constants
<1>3. largest_frag(kind, s) = Max(S)
  BY DEF largest_frag
<1> QED
  BY <1>1, <1>2, <1>3

\* The rooms of the two kinds of packets are numbers.
LEMMA Rooms ==
    ASSUME NEW s \in Nat
    PROVE  largest_frag("TxFragLast", s) \in Nat /\ largest_frag("TxFragMore", s) \in Nat
<1>1. largest_frag("TxFragLast", s) \in 0 .. Pad /\ largest_frag("TxFragMore", s) \in 0 .. Pad
  BY LargestFrag, Zenon
<1>2. \A x \in 0 .. Pad : x \in Nat
  BY Constants
<1> QED
  BY <1>1, <1>2, Zenon

\* Min of two numbers.
LEMMA MinOf ==
    ASSUME NEW x \in Nat, NEW y \in Nat
    PROVE  Min({x, y}) = IF x <= y THEN x ELSE y
<1> DEFINE m == IF x <= y THEN x ELSE y
<1>1. m \in {x, y} /\ \A z \in {x, y} : m =< z
  OBVIOUS
<1>2. \A w \in {x, y} : (\A z \in {x, y} : w =< z) => w = m
  OBVIOUS
<1> QED
  BY <1>1, <1>2 DEF Min

\* What next_fragment returns, with a and b for the rooms of the last and of
\* another fragment.
Cases(out, left, i, a, b) ==
    out = IF i >= MaxFrags THEN {}
          ELSE IF left <= a THEN {[kind |-> "TxFragLast", take |-> left]}
          ELSE IF b = 0 THEN {}
          ELSE {[kind |-> "TxFragMore", take |-> IF left <= b THEN left ELSE b]}

LEMMA NextFragmentCases ==
    ASSUME NEW left \in Nat, NEW s \in Nat, NEW i \in Nat
    PROVE  Cases(next_fragment(left, s, i), left, i, largest_frag("TxFragLast", s), largest_frag("TxFragMore", s))
<1>1. largest_frag("TxFragMore", s) \in Nat
  BY Rooms, Zenon
<1>2. Min({left, largest_frag("TxFragMore", s)}) = IF left <= largest_frag("TxFragMore", s) THEN left ELSE largest_frag("TxFragMore", s)
  BY <1>1, MinOf, Zenon
<1> QED
  BY <1>2, Zenon DEF next_fragment, Cases

\* A fragment is not longer than what is left, and the last one is all of it.
LEMMA CasesFragment ==
    ASSUME NEW left \in Nat, NEW i \in Nat, NEW a \in Nat, NEW b \in Nat, NEW out, NEW f \in out,
           Cases(out, left, i, a, b)
    PROVE  /\ out = {f}
           /\ f.kind \in {"TxFragMore", "TxFragLast"} /\ f.take \in 0 .. left
           /\ f.kind = "TxFragLast" => f.take = left
           /\ i < MaxFrags
<1>1. i < MaxFrags
  BY Constants DEF Cases
<1>2. CASE left <= a
  <2>1. out = {[kind |-> "TxFragLast", take |-> left]}
    BY <1>1, <1>2, Constants DEF Cases
  <2>2. out = {f} /\ f.kind = "TxFragLast" /\ f.take = left
    BY <2>1
  <2> QED
    BY <1>1, <2>2
<1>3. CASE ~(left <= a)
  <2>1. out = {[kind |-> "TxFragMore", take |-> IF left <= b THEN left ELSE b]}
    BY <1>1, <1>3, Constants DEF Cases
  <2>2. out = {f} /\ f.kind = "TxFragMore" /\ f.take = IF left <= b THEN left ELSE b
    BY <2>1
  <2> QED
    BY <1>1, <2>2
<1> QED
  BY <1>2, <1>3

LEMMA NextFragment ==
    ASSUME NEW left \in Nat, NEW s \in Nat, NEW i \in Nat, NEW f \in next_fragment(left, s, i)
    PROVE  /\ next_fragment(left, s, i) = {f}
           /\ f.kind \in {"TxFragMore", "TxFragLast"} /\ f.take \in 0 .. left
           /\ f.kind = "TxFragLast" => f.take = left
           /\ i < MaxFrags
<1> DEFINE a == largest_frag("TxFragLast", s)
           b == largest_frag("TxFragMore", s)
           out == next_fragment(left, s, i)
<1>1. a \in Nat /\ b \in Nat
  BY Rooms
<1>2. Cases(out, left, i, a, b) /\ f \in out
  BY NextFragmentCases
<1> HIDE DEF a, b, out
<1>3. /\ out = {f}
      /\ f.kind \in {"TxFragMore", "TxFragLast"} /\ f.take \in 0 .. left
      /\ f.kind = "TxFragLast" => f.take = left
      /\ i < MaxFrags
  BY <1>1, <1>2, CasesFragment
<1> QED
  BY <1>3 DEF out

\* What is taken is a part of what is left.
LEMMA Taken ==
    ASSUME NEW left \in Nat, NEW s \in Nat, NEW i \in Nat
    PROVE  /\ taken(left, s, i) \in 0 .. left
           /\ \A f \in next_fragment(left, s, i) : taken(left, s, i) = f.take
<1>1. CASE next_fragment(left, s, i) = {}
  BY <1>1 DEF taken
<1>2. CASE next_fragment(left, s, i) # {}
  <2>1. PICK f \in next_fragment(left, s, i) : TRUE
    BY <1>2
  <2>2. next_fragment(left, s, i) = {f} /\ f.take \in 0 .. left
    BY <2>1, NextFragment
  <2>3. taken(left, s, i) = f.take
    BY <2>2, Zenon DEF taken
  <2> QED
    BY <2>2, <2>3
<1> QED
  BY <1>1, <1>2

-----------------------------------------------------------------------------
(* The loop of write_chain_packets *)

\* g is the offsets of the first n rounds of the loop.
Loop(len, s, n, g) ==
    g = [k \in 0 .. n |-> IF k = 0 THEN 0 ELSE g[k - 1] + taken(len - g[k - 1], s + k - 1, k - 1)]

\* The loop can always go on: the greatest number of rounds for which there
\* are offsets is MaxFrags.
LEMMA LoopExists ==
    ASSUME NEW len \in Nat, NEW s \in Nat
    PROVE  \E g : Loop(len, s, MaxFrags, g)
<1> DEFINE T == {n \in 0 .. MaxFrags : \E g : Loop(len, s, n, g)}
<1>1. 0 \in T
  <2> DEFINE g == [k \in 0 .. 0 |-> 0]
  <2>1. Loop(len, s, 0, g)
    BY DEF Loop
  <2> QED
    BY <2>1, Constants
<1>2. PICK m \in T : \A n \in T : n <= m
  BY <1>1, Greatest, Constants
<1>3. PICK g : Loop(len, s, m, g)
  BY <1>2
<1>4. m \in 0 .. MaxFrags
  BY <1>2
<1>5. ASSUME m # MaxFrags PROVE FALSE
  <2> DEFINE h == [k \in 0 .. m + 1 |->
                    IF k <= m THEN g[k] ELSE g[m] + taken(len - g[m], s + m, m)]
  <2>0. m \in Nat /\ m + 1 \in 0 .. MaxFrags
    BY <1>4, <1>5, Constants
  <2>1. ASSUME NEW k \in 0 .. m + 1
        PROVE  h[k] = IF k = 0 THEN 0 ELSE h[k - 1] + taken(len - h[k - 1], s + k - 1, k - 1)
    <3>1. CASE k = 0
      BY <1>3, <2>0, <3>1 DEF Loop
    <3>2. CASE k # 0 /\ k <= m
      <4>1. k \in 0 .. m /\ k - 1 \in 0 .. m /\ k - 1 \in 0 .. m + 1 /\ k - 1 <= m
        BY <2>0, <3>2
      <4>2. h[k] = g[k] /\ h[k - 1] = g[k - 1]
        BY <3>2, <4>1
      <4>3. g[k] = g[k - 1] + taken(len - g[k - 1], s + k - 1, k - 1)
        BY <1>3, <3>2, <4>1 DEF Loop
      <4> QED
        BY <3>2, <4>2, <4>3
    <3>3. CASE k = m + 1
      <4>1. k - 1 = m /\ s + k - 1 = s + m /\ m \in 0 .. m + 1
        BY <2>0, <3>3
      <4>2. h[k] = g[m] + taken(len - g[m], s + m, m) /\ h[m] = g[m]
        BY <2>0, <3>3, <4>1
      <4>3. k # 0
        BY <2>0, <3>3
      <4> HIDE DEF h
      <4> QED
        BY <4>1, <4>2, <4>3
    <3> QED
      BY <2>0, <3>1, <3>2, <3>3
  <2>2. DOMAIN h = 0 .. m + 1 /\ h = [k \in 0 .. m + 1 |-> h[k]]
    OBVIOUS
  <2> HIDE DEF h
  <2>3. h = [k \in 0 .. m + 1 |-> IF k = 0 THEN 0 ELSE h[k - 1] + taken(len - h[k - 1], s + k - 1, k - 1)]
    BY <2>1, <2>2
  <2>4. Loop(len, s, m + 1, h)
    BY <2>3, Zenon DEF Loop
  <2>5. m + 1 \in T
    BY <2>0, <2>4
  <2> QED
    BY <1>2, <2>0, <2>5
<1> QED
  BY <1>3, <1>5

\* offset is the loop.
LEMMA OffsetLoop ==
    ASSUME NEW len \in Nat, NEW s \in Nat
    PROVE  Loop(len, s, MaxFrags, offset(len, s))
<1>1. \E g : Loop(len, s, MaxFrags, g)
  BY LoopExists
<1>2. offset(len, s) = CHOOSE g : Loop(len, s, MaxFrags, g)
  BY Zenon DEF offset, Loop
<1> QED
  BY <1>1, <1>2, Zenon

\* The offsets rise and do not pass the end of the body.
Offsets(at, len, s) ==
    /\ at \in [0 .. MaxFrags -> 0 .. len] /\ at[0] = 0
    /\ \A k \in 1 .. MaxFrags : at[k] = at[k - 1] + taken(len - at[k - 1], s + k - 1, k - 1)
    /\ \A k \in 1 .. MaxFrags : at[k - 1] <= at[k]

\* offset has these offsets.
LEMMA OffsetBounds ==
    ASSUME NEW len \in Nat, NEW s \in Nat, NEW at, at = offset(len, s)
    PROVE  Offsets(at, len, s)
<1>0. Loop(len, s, MaxFrags, at)
  BY OffsetLoop
<1>1. at = [k \in 0 .. MaxFrags |-> IF k = 0 THEN 0 ELSE at[k - 1] + taken(len - at[k - 1], s + k - 1, k - 1)]
  BY <1>0, Zenon DEF Loop
<1>2. at[0] = 0
  BY <1>1, Constants
<1>3. \A k \in 1 .. MaxFrags : at[k] = at[k - 1] + taken(len - at[k - 1], s + k - 1, k - 1)
  <2> TAKE k \in 1 .. MaxFrags
  <2>1. k \in 0 .. MaxFrags /\ k # 0
    BY Constants
  <2> QED
    BY <1>1, <2>1
<1>4. ASSUME NEW k \in 1 .. MaxFrags, at[k - 1] \in 0 .. len
      PROVE  at[k] \in 0 .. len /\ at[k - 1] <= at[k]
  <2>1. PICK x \in 0 .. len : x = at[k - 1]
    BY <1>4
  <2>2. PICK y \in Int : y = taken(len - x, s + k - 1, k - 1) /\ y \in 0 .. len - x
    <3>1. len - x \in Nat /\ s + k - 1 \in Nat /\ k - 1 \in Nat
      BY Constants
    <3>2. taken(len - x, s + k - 1, k - 1) \in 0 .. len - x
      BY <3>1, Taken
    <3> QED
      BY <3>1, <3>2
  <2>3. at[k] = x + y
    BY <1>3, <2>1, <2>2
  <2> QED
    BY <2>1, <2>2, <2>3
<1> DEFINE T == {n \in 0 .. MaxFrags : \A k \in 0 .. n : at[k] \in 0 .. len}
<1>5. 0 \in T
  BY <1>2, Constants
<1>6. PICK m \in T : \A n \in T : n <= m
  BY <1>5, Greatest, Constants
<1>7. m = MaxFrags
  <2> SUFFICES ASSUME m # MaxFrags PROVE FALSE
    OBVIOUS
  <2>1. m \in Nat /\ m + 1 \in 1 .. MaxFrags /\ m + 1 \in 0 .. MaxFrags /\ m \in 0 .. m
    BY <1>6, Constants
  <2>2. at[m] \in 0 .. len /\ m = (m + 1) - 1
    BY <1>6, <2>1
  <2>3. at[m + 1] \in 0 .. len
    BY <1>4, <2>1, <2>2
  <2>4. \A k \in 0 .. m + 1 : at[k] \in 0 .. len
    BY <1>6, <2>1, <2>3
  <2>5. m + 1 \in T
    BY <2>1, <2>4
  <2> QED
    BY <1>6, <2>1, <2>5
<1>8. \A k \in 0 .. MaxFrags : at[k] \in 0 .. len
  BY <1>6, <1>7
<1>9. at \in [0 .. MaxFrags -> 0 .. len]
  BY <1>1, <1>8, Zenon
<1>10. \A k \in 1 .. MaxFrags : at[k - 1] <= at[k]
  <2> TAKE k \in 1 .. MaxFrags
  <2>1. k - 1 \in 0 .. MaxFrags
    BY Constants
  <2> QED
    BY <1>4, <1>8, <2>1
<1> QED
  BY <1>2, <1>3, <1>9, <1>10 DEF Offsets

-----------------------------------------------------------------------------
(* Joining the parts *)

\* g joins the first n of the sequences step by step.
Flat(seqs, n, g) == g = [i \in 1 .. n |-> IF i = 1 THEN seqs[i] ELSE g[i - 1] \o seqs[i]]

\* FlattenSeq is such a joining.
LEMMA FlattenSeqFlat ==
    ASSUME NEW seqs, NEW n \in Nat \ {0}, Len(seqs) = n, NEW f, Flat(seqs, n, f)
    PROVE  \E g : Flat(seqs, n, g) /\ FlattenSeq(seqs) = g[n]
<1>1. FlattenSeq(seqs) = (CHOOSE g : Flat(seqs, n, g))[n]
  <2>1. Len(seqs) # 0
    OBVIOUS
  <2> QED
    BY <2>1, Zenon DEF FlattenSeq, Flat
<1>2. Flat(seqs, n, CHOOSE g : Flat(seqs, n, g))
  BY Zenon
<1> QED
  BY <1>1, <1>2, Zenon

\* There is only one.
LEMMA FlatUnique ==
    ASSUME NEW seqs, NEW n \in Nat \ {0}, NEW f, NEW g, Flat(seqs, n, f), Flat(seqs, n, g)
    PROVE  f[n] = g[n]
<1>1. \A k \in 1 .. n : f[k] = IF k = 1 THEN seqs[k] ELSE f[k - 1] \o seqs[k]
  BY DEF Flat
<1>2. \A k \in 1 .. n : g[k] = IF k = 1 THEN seqs[k] ELSE g[k - 1] \o seqs[k]
  BY DEF Flat
<1> DEFINE T == {k \in 0 .. n : \A j \in 1 .. k : g[j] = f[j]}
<1>3. 0 \in T
  OBVIOUS
<1>4. PICK m \in T : \A k \in T : k <= m
  BY <1>3, Greatest
<1>5. m = n
  <2> SUFFICES ASSUME m # n PROVE FALSE
    OBVIOUS
  <2>1. m + 1 \in 1 .. n /\ m + 1 \in 0 .. n /\ (m + 1) - 1 = m /\ m \in Nat
    BY <1>4
  <2>2. g[m + 1] = f[m + 1]
    <3>1. CASE m = 0
      BY <1>1, <1>2, <2>1, <3>1
    <3>2. CASE m # 0
      <4>1. g[m] = f[m] /\ m + 1 # 1
        BY <1>4, <2>1, <3>2
      <4>2. g[m + 1] = g[m] \o seqs[m + 1]
        BY <1>2, <2>1, <4>1
      <4>3. f[m + 1] = f[m] \o seqs[m + 1]
        BY <1>1, <2>1, <4>1
      <4> QED
        BY <4>1, <4>2, <4>3
    <3> QED
      BY <3>1, <3>2
  <2>3. \A j \in 1 .. m + 1 : g[j] = f[j]
    BY <1>4, <2>1, <2>2
  <2>4. m + 1 \in T
    BY <2>1, <2>3
  <2> QED
    BY <1>4, <2>1, <2>4
<1> QED
  BY <1>4, <1>5

\* Offsets that rise from the start of the body to its end.
Rising(n, e, len) ==
    /\ e \in [0 .. n -> 0 .. len] /\ e[0] = 0 /\ e[n] = len
    /\ \A k \in 1 .. n : e[k - 1] <= e[k]

\* The slices of a body, cut at rising offsets from its start to its end, are
\* joined to the body.
LEMMA SlicesJoin ==
    ASSUME NEW S, NEW b \in Seq(S), NEW n \in Nat \ {0}, NEW len \in Nat, len = Len(b),
           NEW e, Rising(n, e, len),
           NEW parts, parts = [k \in 1 .. n |-> SubSeq(b, e[k - 1] + 1, e[k])]
    PROVE  FlattenSeq(parts) = b
<1> DEFINE F == [k \in 1 .. n |-> SubSeq(b, 1, e[k])]
<1>0. ASSUME NEW k \in 1 .. n
      PROVE  \E x \in 0 .. len, y \in 0 .. len : x = e[k - 1] /\ y = e[k] /\ x <= y
  <2>1. k - 1 \in 0 .. n /\ k \in 0 .. n
    OBVIOUS
  <2> QED
    BY <2>1 DEF Rising
<1>1. ASSUME NEW k \in 1 .. n PROVE F[k] = IF k = 1 THEN parts[k] ELSE F[k - 1] \o parts[k]
  <2>1. CASE k = 1
    <3>1. k - 1 = 0 /\ e[k - 1] + 1 = 1
      BY <2>1 DEF Rising
    <3> QED
      BY <2>1, <3>1
  <2>2. CASE k # 1
    <3>1. k - 1 \in 1 .. n
      BY <2>2
    <3>2. PICK x \in 0 .. len, y \in 0 .. len : x = e[k - 1] /\ y = e[k] /\ x <= y
      BY <1>0
    <3>3. 1 \in 1 .. Len(b) + 1 /\ x \in 1 - 1 .. Len(b) /\ y \in x .. Len(b)
      BY <3>2
    <3>4. SubSeq(b, 1, x) \o SubSeq(b, x + 1, y) = SubSeq(b, 1, y)
      BY <3>3, ConcatAdjacentSubSeq
    <3> QED
      BY <2>2, <3>1, <3>2, <3>4
  <2> QED
    BY <2>1, <2>2
<1>2. F = [k \in 1 .. n |-> F[k]]
  OBVIOUS
<1>3. F[n] = b
  <2>1. SubSeq(b, 1, Len(b)) = b
    BY SubSeqFull
  <2> QED
    BY <2>1 DEF Rising
<1> HIDE DEF F
<1>4. F = [k \in 1 .. n |-> IF k = 1 THEN parts[k] ELSE F[k - 1] \o parts[k]]
  BY <1>1, <1>2
<1>5. Flat(parts, n, F)
  BY <1>4, Zenon DEF Flat
<1>6. Len(parts) = n
  OBVIOUS
<1>7. PICK g : Flat(parts, n, g) /\ FlattenSeq(parts) = g[n]
  BY <1>5, <1>6, FlattenSeqFlat
<1>8. g[n] = F[n]
  BY <1>5, <1>7, FlatUnique
<1> QED
  BY <1>3, <1>7, <1>8

-----------------------------------------------------------------------------
(* What the packets on the channel are *)

\* q is fragment k of the n that b is cut into at the offsets e.
Piece(q, k, n, b, e) ==
    q.i = k - 1 /\ q.kind = kind_of(k, n) /\ q.frag = SubSeq(b, e[k - 1] + 1, e[k])

\* x is b, cut into n fragments at the offsets e.
Sliced(x, b, n, e) ==
    /\ \A q \in x : \E k \in 1 .. n : Piece(q, k, n, b, e)
    /\ \A k \in 1 .. n : \E q \in x : Piece(q, k, n, b, e)

Whole(x, b, len) == \E n \in Nat \ {0} : \E e : Rising(n, e, len) /\ Sliced(x, b, n, e)

\* The bytes of a body.
LEMMA Packed ==
    ASSUME NEW p \in Items, NEW h \in Authors
    PROVE  /\ packed_len(p) \in Nat
           /\ packed_tx(p, h) \in Seq(Authors \X Nat) /\ Len(packed_tx(p, h)) = packed_len(p)
<1>1. p.n \in Nat
  BY Constants DEF Items
<1>2. packed_len(p) \in Nat
  BY <1>1, Constants DEF packed_len
<1>3. PICK len \in Nat : len = packed_len(p)
  BY <1>2
<1>4. packed_tx(p, h) = [u \in 1 .. len |-> <<h, u>>]
  BY <1>3 DEF packed_tx
<1>5. \A u \in 1 .. len : <<h, u>> \in Authors \X Nat
  BY <1>3
<1> QED
  BY <1>3, <1>4, <1>5

\* The bytes of a body name its timestamp.
LEMMA PackedStamp ==
    ASSUME NEW p \in Items, NEW h \in Authors, NEW g \in Authors, packed_tx(p, g) = packed_tx(p, h)
    PROVE  g = h
<1>1. p.n \in Nat
  BY Constants DEF Items
<1>2. PICK len \in Nat : len = packed_len(p) /\ len >= 1
  BY <1>1, Constants DEF packed_len
<1>3. packed_tx(p, h) = [u \in 1 .. len |-> <<h, u>>] /\ packed_tx(p, g) = [u \in 1 .. len |-> <<g, u>>]
  BY <1>2 DEF packed_tx
<1>4. packed_tx(p, h)[1] = <<h, 1>> /\ packed_tx(p, g)[1] = <<g, 1>>
  BY <1>2, <1>3
<1> QED
  BY <1>4

\* What write_chain_packets posts is the whole body: the slices are adjacent
\* and the last one ends where the body does.
LEMMA PostedWhole ==
    ASSUME NEW p \in Items, NEW a \in Authors, wall \in [Authors -> Authors], seq \in [Authors -> Nat],
           NEW n \in cut(packed_len(p), seq[a])
    PROVE  Whole(packets(a, p, n), packed_tx(p, wall[a]), packed_len(p)) /\ n \in Nat
<1>1. PICK s \in Nat : s = seq[a]
  OBVIOUS
<1>2. PICK h \in Authors : h = wall[a]
  OBVIOUS
<1>3. PICK len \in Nat : len = packed_len(p)
  BY Packed, <1>2
<1>4. PICK b : b = packed_tx(p, h) /\ Len(b) = len
  BY Packed, <1>3
<1>5. PICK at : at = offset(len, s)
  OBVIOUS
<1>6. Offsets(at, len, s)
  BY <1>5, OffsetBounds
<1>7. /\ n \in 1 .. MaxFrags
      /\ \A k \in 1 .. n : \E f \in next_fragment(len - at[k - 1], s + k - 1, k - 1) :
            seal_packet(f, s + k - 1) /\ f.kind = kind_of(k, n)
  BY <1>1, <1>3, <1>5, Zenon DEF cut
<1>8. n \in Nat \ {0} /\ n \in 1 .. n /\ n - 1 \in 0 .. MaxFrags /\ n - 1 \in Nat /\ s + n - 1 \in Nat
  BY <1>7, Constants
<1> DEFINE e == [k \in 0 .. n |-> at[k]]
<1>9. at[n] = len
  <2>1. PICK f \in next_fragment(len - at[n - 1], s + n - 1, n - 1) : f.kind = "TxFragLast"
    BY <1>7, <1>8 DEF kind_of
  <2>2. PICK x \in 0 .. len : x = at[n - 1]
    BY <1>6, <1>8 DEF Offsets
  <2>3. PICK left \in Nat : left = len - x
    BY <2>2
  <2>4. PICK i \in Nat, t \in Nat : i = n - 1 /\ t = s + n - 1
    BY <1>8
  <2>5. f \in next_fragment(left, t, i)
    BY <2>1, <2>2, <2>3, <2>4
  <2>6. f.take = left
    BY <2>1, <2>5, NextFragment
  <2>7. taken(left, t, i) = f.take
    BY <2>5, Taken
  <2>8. at[n] = x + taken(left, t, i)
    BY <1>6, <1>7, <2>2, <2>3, <2>4 DEF Offsets
  <2> QED
    BY <2>2, <2>3, <2>6, <2>7, <2>8
<1>10. Rising(n, e, len)
  <2>1. \A k \in 0 .. n : k \in 0 .. MaxFrags /\ e[k] = at[k] /\ at[k] \in 0 .. len
    BY <1>6, <1>7, Constants DEF Offsets
  <2>2. \A k \in 1 .. n : e[k - 1] <= e[k]
    <3> TAKE k \in 1 .. n
    <3>1. k \in 1 .. MaxFrags /\ k - 1 \in 0 .. n /\ k \in 0 .. n
      BY <1>7, <1>8, Constants
    <3>2. at[k - 1] <= at[k]
      BY <1>6, <3>1 DEF Offsets
    <3> QED
      BY <2>1, <3>1, <3>2
  <2>3. e[0] = 0 /\ e[n] = len
    BY <1>6, <1>8, <1>9 DEF Offsets
  <2> QED
    BY <2>1, <2>2, <2>3 DEF Rising
<1> DEFINE pkt(k) == [by |-> a, seq |-> s + k - 1, i |-> k - 1, kind |-> kind_of(k, n),
                      frag |-> SubSeq(b, at[k - 1] + 1, at[k])]
<1>11. packets(a, p, n) = {pkt(k) : k \in 1 .. n}
  BY <1>1, <1>2, <1>4, <1>5 DEF packets
<1>12. ASSUME NEW k \in 1 .. n PROVE Piece(pkt(k), k, n, b, e)
  <2>1. e[k - 1] = at[k - 1] /\ e[k] = at[k]
    BY <1>8
  <2> QED
    BY <2>1 DEF Piece
<1> HIDE DEF pkt, e
<1>13. Sliced(packets(a, p, n), b, n, e)
  BY <1>11, <1>12 DEF Sliced
<1> QED
  BY <1>2, <1>3, <1>4, <1>8, <1>10, <1>13 DEF Whole

-----------------------------------------------------------------------------
(* Reassembly *)

\* new is set with the fragment of p.
Added(new, set, p) ==
    /\ DOMAIN new.parts = {p.i} \cup DOMAIN set.parts
    /\ new.parts[p.i] = p.frag
    /\ \A i \in DOMAIN set.parts : i # p.i => new.parts[i] = set.parts[i]
    /\ new.last_i = IF p.kind = "TxFragLast" THEN {p.i} ELSE set.last_i

\* What with_part does to the set.
LEMMA WithPart ==
    ASSUME NEW set, NEW p
    PROVE  Added(with_part(set, p), set, p)
<1>1. PICK new : new = with_part(set, p)
  OBVIOUS
<1>2. new.parts = [i \in {p.i} \cup DOMAIN set.parts |-> IF i = p.i THEN p.frag ELSE set.parts[i]]
  BY <1>1 DEF with_part
<1>3. new.last_i = IF p.kind = "TxFragLast" THEN {p.i} ELSE set.last_i
  BY <1>1 DEF with_part
<1> QED
  BY <1>1, <1>2, <1>3 DEF Added

\* The fragments of a set are those of packets on the channel.
FromChan(set, C) ==
    /\ \A i \in DOMAIN set.parts : \E q \in C : q.i = i /\ q.frag = set.parts[i]
    /\ \A l \in set.last_i : \E q \in C : q.i = l /\ q.kind = "TxFragLast"

\* A fragment of the channel keeps it so.
LEMMA WithPartFrom ==
    ASSUME NEW C, NEW p \in C, NEW set, FromChan(set, C), NEW new, Added(new, set, p)
    PROVE  FromChan(new, C)
BY DEF FromChan, Added

\* Where every packet is a piece of one cut of b, a complete set is joined to b.
LEMMA CompleteJoins ==
    ASSUME NEW S, NEW b \in Seq(S), NEW len \in Nat, len = Len(b), NEW n \in Nat \ {0}, NEW e, Rising(n, e, len),
           NEW C, \A q \in C : \E k \in 1 .. n : Piece(q, k, n, b, e),
           NEW set, FromChan(set, C), complete(set)
    PROVE  joined(set) = b
<1>1. \A l \in set.last_i : l = n - 1
  <2> TAKE l \in set.last_i
  <2>1. PICK q \in C : q.i = l /\ q.kind = "TxFragLast"
    BY DEF FromChan
  <2>2. PICK k \in 1 .. n : q.i = k - 1 /\ q.kind = kind_of(k, n)
    BY <2>1 DEF Piece
  <2>3. k = n
    BY <2>1, <2>2 DEF kind_of
  <2> QED
    BY <2>1, <2>2, <2>3
<1>2. PICK l \in set.last_i : 0 .. l \subseteq DOMAIN set.parts
  BY DEF complete
<1>3. (CHOOSE k \in set.last_i : TRUE) = n - 1 /\ l = n - 1
  BY <1>1, <1>2
<1> DEFINE parts == [k \in 1 .. n |-> set.parts[k - 1]]
<1>4. joined(set) = FlattenSeq(parts)
  <2>1. PICK c \in Nat : c = (CHOOSE k \in set.last_i : TRUE) /\ c + 1 = n
    BY <1>3
  <2> QED
    BY <2>1 DEF joined
<1>5. ASSUME NEW k \in 1 .. n PROVE set.parts[k - 1] = SubSeq(b, e[k - 1] + 1, e[k])
  <2>1. k - 1 \in DOMAIN set.parts
    BY <1>2, <1>3
  <2>2. PICK q \in C : q.i = k - 1 /\ q.frag = set.parts[k - 1]
    BY <2>1 DEF FromChan
  <2>3. PICK j \in 1 .. n : q.i = j - 1 /\ q.frag = SubSeq(b, e[j - 1] + 1, e[j])
    BY <2>2 DEF Piece
  <2>4. j = k
    BY <2>2, <2>3
  <2> QED
    BY <2>2, <2>3, <2>4
<1>6. parts = [k \in 1 .. n |-> SubSeq(b, e[k - 1] + 1, e[k])]
  BY <1>5
<1> HIDE DEF parts
<1>7. FlattenSeq(parts) = b
  BY <1>6, SlicesJoin, SMTT(20)
<1> QED
  BY <1>4, <1>7

\* Where every packet is a piece of one cut, none equivocates.
LEMMA NoEquivocation ==
    ASSUME NEW b, NEW n \in Nat \ {0}, NEW e,
           NEW C, \A q \in C : \E k \in 1 .. n : Piece(q, k, n, b, e),
           NEW set, FromChan(set, C), NEW p \in C
    PROVE  ~equivocates(set, p)
<1>1. PICK k \in 1 .. n : Piece(p, k, n, b, e)
  OBVIOUS
<1>2. ASSUME p.i \in DOMAIN set.parts PROVE set.parts[p.i] = p.frag
  <2>1. PICK q \in C : q.i = p.i /\ q.frag = set.parts[p.i]
    BY <1>2 DEF FromChan
  <2>2. PICK j \in 1 .. n : Piece(q, j, n, b, e)
    OBVIOUS
  <2>3. j = k
    BY <1>1, <2>1, <2>2 DEF Piece
  <2> QED
    BY <1>1, <2>1, <2>2, <2>3 DEF Piece
<1>3. ASSUME p.kind = "TxFragLast", NEW l \in set.last_i PROVE l = p.i
  <2>1. PICK q \in C : q.i = l /\ q.kind = "TxFragLast"
    BY DEF FromChan
  <2>2. PICK j \in 1 .. n : Piece(q, j, n, b, e)
    OBVIOUS
  <2>3. j = n /\ k = n
    BY <1>1, <1>3, <2>1, <2>2 DEF Piece, kind_of
  <2> QED
    BY <1>1, <2>1, <2>2, <2>3 DEF Piece
<1> QED
  BY <1>2, <1>3 DEF equivocates

-----------------------------------------------------------------------------
(* The invariant *)

\* Every posting is the whole of the body, as some author stamped it.
PostInv ==
    /\ item = {} \/ \E p \in Items : item = {p}
    /\ wall \in [Authors -> Authors] /\ seq \in [Authors -> Nat]
    /\ \A x \in posted : \E p \in item, a \in Authors : Whole(x, packed_tx(p, wall[a]), packed_len(p))
    /\ chan = UNION posted /\ seen \subseteq chan

\* The set of fragments comes from the channel and is not complete.
SetInv ==
    /\ frags = {} \/ \E set : frags = {set}
    /\ \A set \in frags : FromChan(set, chan) /\ ~complete(set)

\* The set has the fragment of q.
Holds(set, q) == q.i \in DOMAIN set.parts /\ (q.kind = "TxFragLast" => q.i \in set.last_i)

\* What was read of the body as some author stamped it.
Stamped(body) == \A b \in body : \E p \in item, a \in Authors : b \in durable_body(p, wall[a])

\* Postings that are cut alike cause no error and are read as what was minted,
\* and until the body is merged no fragment that was taken is forgotten.
HeldInv ==
    Uniform =>
        /\ ~failed /\ ~error
        /\ Stamped(merged)
        /\ merged = {} => \A q \in seen : \E set \in frags : Holds(set, q)

IInv == PostInv /\ SetInv /\ HeldInv

\* Where all postings are cut alike, all packets are pieces of one cut.
LEMMA OneCut ==
    ASSUME PostInv, Uniform, chan # {}
    PROVE  \E p \in item, a \in Authors, n \in Nat \ {0} : \E e :
                /\ Rising(n, e, packed_len(p))
                /\ \A q \in chan : \E k \in 1 .. n : Piece(q, k, n, packed_tx(p, wall[a]), e)
<1>1. PICK x \in posted : TRUE
  BY DEF PostInv
<1>2. PICK p \in item, a \in Authors : Whole(x, packed_tx(p, wall[a]), packed_len(p))
  BY <1>1 DEF PostInv
<1>2a. PICK n \in Nat \ {0} : \E e : Rising(n, e, packed_len(p)) /\ Sliced(x, packed_tx(p, wall[a]), n, e)
  BY <1>2 DEF Whole
<1>3. PICK e : Rising(n, e, packed_len(p)) /\ Sliced(x, packed_tx(p, wall[a]), n, e)
  BY <1>2a
<1>4. ASSUME NEW q \in chan PROVE \E k \in 1 .. n : Piece(q, k, n, packed_tx(p, wall[a]), e)
  <2>1. PICK y \in posted : q \in y
    BY DEF PostInv
  <2>2. bare(q) \in {bare(r) : r \in x}
    BY <1>1, <2>1, Zenon DEF Uniform
  <2>3. PICK r \in x : bare(r) = bare(q)
    BY <2>2, Zenon
  <2>4. r.i = q.i /\ r.kind = q.kind /\ r.frag = q.frag
    BY <2>3 DEF bare
  <2>5. PICK k \in 1 .. n : Piece(r, k, n, packed_tx(p, wall[a]), e)
    BY <1>3 DEF Sliced
  <2>6. Piece(q, k, n, packed_tx(p, wall[a]), e)
    BY <2>4, <2>5 DEF Piece
  <2> QED
    BY <2>6
<1> QED
  BY <1>2, <1>3, <1>4

\* The set that the receiver has comes from the channel.
LEMMA FragSet ==
    ASSUME SetInv
    PROVE  /\ FromChan(frag_set, chan)
           /\ \A set \in frags : frag_set = set
<1>1. CASE frags = {}
  <2>1. frag_set = NoFrags
    BY <1>1 DEF frag_set
  <2>2. DOMAIN NoFrags.parts = {} /\ NoFrags.last_i = {}
    BY DEF NoFrags
  <2> QED
    BY <1>1, <2>1, <2>2 DEF FromChan
<1>2. CASE frags # {}
  <2>1. PICK set : frags = {set}
    BY <1>2 DEF SetInv
  <2>2. frag_set = set
    BY <2>1 DEF frag_set
  <2> QED
    BY <2>1, <2>2 DEF SetInv
<1> QED
  BY <1>1, <1>2

\* What a packet does to the set of fragments when all postings are cut alike.
LEMMA UniformTakes ==
    ASSUME PostInv, SetInv, Uniform, NEW p \in chan, NEW new, new = with_part(frag_set, p)
    PROVE  /\ ~equivocates(frag_set, p)
           /\ complete(new) => \A body \in bodies_of(new) : body # {} /\ Garbled \notin body /\ Stamped(body)
           /\ Holds(new, p)
           /\ \A q \in chan : Holds(frag_set, q) => Holds(new, q)
<1>0. PICK t \in item, a \in Authors, n \in Nat \ {0} : \E e :
                /\ Rising(n, e, packed_len(t))
                /\ \A q \in chan : \E k \in 1 .. n : Piece(q, k, n, packed_tx(t, wall[a]), e)
  BY OneCut
<1>0a. PICK h \in Authors : h = wall[a]
  BY DEF PostInv
<1>1. PICK e : /\ Rising(n, e, packed_len(t))
               /\ \A q \in chan : \E k \in 1 .. n : Piece(q, k, n, packed_tx(t, h), e)
  BY <1>0, <1>0a
<1>2. t \in Items /\ item = {t}
  BY <1>0 DEF PostInv
<1>3. PICK b : b = packed_tx(t, h)
  OBVIOUS
<1>4. PICK len \in Nat : len = packed_len(t) /\ b \in Seq(Authors \X Nat) /\ Len(b) = len
  BY <1>1, <1>2, <1>3, Packed
<1>5. \A q \in chan : \E k \in 1 .. n : Piece(q, k, n, b, e)
  BY <1>1, <1>3
<1>6. FromChan(frag_set, chan)
  BY FragSet
<1>7. Added(new, frag_set, p)
  BY WithPart
<1>8. FromChan(new, chan)
  BY <1>6, <1>7, WithPartFrom
<1>9. ~equivocates(frag_set, p)
  BY <1>1, <1>5, <1>6, NoEquivocation
<1>10. ASSUME complete(new), NEW body \in bodies_of(new)
       PROVE  body # {} /\ Garbled \notin body /\ Stamped(body)
  <2>1. joined(new) = b
    BY <1>1, <1>4, <1>5, <1>8, <1>10, CompleteJoins
  <2>2. body \in unpack(t, b)
    BY <1>2, <1>10, <2>1 DEF bodies_of
  <2>3. h \in {g \in Authors : packed_tx(t, g) = b}
    BY <1>3
  <2>4. PICK g \in Authors : packed_tx(t, g) = b /\ body = durable_body(t, g)
    BY <2>2, <2>3, Zenon DEF unpack
  <2>5. g = h
    BY <1>2, <1>3, <2>4, PackedStamp
  <2>6. body = durable_body(t, wall[a])
    BY <1>0a, <2>4, <2>5
  <2>7. body # {} /\ Garbled \notin body
    BY <1>2, <2>4, FragmentsAssumption
  <2>8. Stamped(body)
    BY <1>0, <2>6, Zenon DEF Stamped
  <2> QED
    BY <2>7, <2>8
<1>11. Holds(new, p)
  BY <1>7 DEF Added, Holds
<1>12. ASSUME NEW q \in chan, Holds(frag_set, q) PROVE Holds(new, q)
  <2>1. q.i \in DOMAIN new.parts
    BY <1>7, <1>12 DEF Added, Holds
  <2>2. ASSUME q.kind = "TxFragLast" PROVE q.i \in new.last_i
    <3>1. q.i \in frag_set.last_i
      BY <1>12, <2>2 DEF Holds
    <3>2. CASE p.kind = "TxFragLast"
      BY <1>7, <1>9, <3>1, <3>2 DEF equivocates, Added
    <3>3. CASE p.kind # "TxFragLast"
      BY <1>7, <3>1, <3>3 DEF Added
    <3> QED
      BY <3>2, <3>3
  <2> QED
    BY <2>1, <2>2 DEF Holds
<1> QED
  BY <1>9, <1>10, <1>11, <1>12

-----------------------------------------------------------------------------
(* The steps *)

\* The first state.
LEMMA InitIInv == CarryInit => IInv
<1> SUFFICES ASSUME CarryInit PROVE IInv
  OBVIOUS
<1>1. PostInv
  BY DEF CarryInit, PostInv, Authors
<1>2. SetInv
  BY DEF CarryInit, SetInv
<1>3. HeldInv
  BY DEF CarryInit, HeldInv, Stamped
<1> QED
  BY <1>1, <1>2, <1>3 DEF IInv

\* Nothing is posted before the body is minted.
LEMMA MintIInv ==
    ASSUME IInv, NEW t \in PayloadTypes, NEW n \in Variants, NEW same \in BOOLEAN, Mint(t, n, same)
    PROVE  IInv'
<1>1. item = {} /\ posted = {} /\ chan = {}
  BY DEF IInv, PostInv, Mint
<1>2. UNCHANGED <<seq, chan, posted, recv, frags, merged, failed, error, tooLarge, seen>>
  BY DEF Mint
<1>3. PostInv'
  <2>1. [type |-> t, n |-> n] \in Items /\ item' = {[type |-> t, n |-> n]}
    BY DEF Items, Mint
  <2>2. wall' \in [Authors -> Authors]
    <3>1. wall' = [a \in Authors |-> 1] \/ wall' = wall
      BY DEF Mint
    <3> QED
      BY <3>1 DEF IInv, PostInv, Authors
  <2> QED
    BY <1>1, <1>2, <2>1, <2>2 DEF IInv, PostInv
<1>4. SetInv'
  BY <1>2 DEF IInv, SetInv
<1>5. HeldInv'
  <2>1. Uniform
    BY <1>1 DEF Uniform
  <2>2. merged = {}
    BY <1>1, <2>1 DEF IInv, HeldInv, Stamped
  <2>3. Stamped(merged)'
    BY <1>2, <2>2 DEF Stamped
  <2> QED
    BY <1>2, <2>1, <2>3 DEF IInv, HeldInv
<1> QED
  BY <1>3, <1>4, <1>5 DEF IInv

\* Posting: what is added is whole, and a set of fragments is not touched.
LEMMA PostIInv ==
    ASSUME IInv, NEW a \in Authors, Post(a)
    PROVE  IInv'
<1>1. UNCHANGED <<item, path, wall, recv, frags, merged, failed, error, seen>>
  BY DEF Post
<1>2. PICK p \in item :
        \/ /\ cut(packed_len(p), seq[a]) = {}
           /\ tooLarge' = tooLarge \cup {a}
           /\ UNCHANGED <<seq, chan, posted>>
        \/ \E n \in cut(packed_len(p), seq[a]) :
            /\ posted' = posted \cup {packets(a, p, n)}
            /\ chan' = chan \cup packets(a, p, n)
            /\ seq' = [seq EXCEPT ![a] = @ + n]
            /\ UNCHANGED tooLarge
  BY DEF Post
<1>3. p \in Items /\ item = {p} /\ wall \in [Authors -> Authors] /\ seq \in [Authors -> Nat]
  BY <1>2 DEF IInv, PostInv
<1>4. CASE /\ cut(packed_len(p), seq[a]) = {}
           /\ tooLarge' = tooLarge \cup {a}
           /\ UNCHANGED <<seq, chan, posted>>
  <2>1. PostInv'
    BY <1>1, <1>4 DEF IInv, PostInv
  <2>2. SetInv'
    BY <1>1, <1>4 DEF IInv, SetInv
  <2>3. HeldInv'
    BY <1>1, <1>4 DEF IInv, HeldInv, Uniform, Stamped
  <2> QED
    BY <2>1, <2>2, <2>3 DEF IInv
<1>5. CASE \E n \in cut(packed_len(p), seq[a]) :
            /\ posted' = posted \cup {packets(a, p, n)}
            /\ chan' = chan \cup packets(a, p, n)
            /\ seq' = [seq EXCEPT ![a] = @ + n]
            /\ UNCHANGED tooLarge
  <2>1. PICK n \in cut(packed_len(p), seq[a]) :
            /\ posted' = posted \cup {packets(a, p, n)}
            /\ chan' = chan \cup packets(a, p, n)
            /\ seq' = [seq EXCEPT ![a] = @ + n]
            /\ UNCHANGED tooLarge
    BY <1>5
  <2>2. PICK x : x = packets(a, p, n)
    OBVIOUS
  <2>3. Whole(x, packed_tx(p, wall[a]), packed_len(p)) /\ n \in Nat
    BY <1>3, <2>2, PostedWhole
  <2>4. posted' = posted \cup {x} /\ chan' = chan \cup x
    BY <2>1, <2>2
  <2>5. PostInv'
    <3>1. \A y \in posted' : \E q \in item, c \in Authors : Whole(y, packed_tx(q, wall[c]), packed_len(q))
      BY <1>3, <2>3, <2>4 DEF IInv, PostInv
    <3>2. chan' = UNION posted' /\ seen' \subseteq chan'
      BY <1>1, <2>4 DEF IInv, PostInv
    <3>3. seq' \in [Authors -> Nat]
      BY <1>3, <2>1, <2>3
    <3> QED
      BY <1>1, <1>3, <3>1, <3>2, <3>3 DEF PostInv
  <2>6. SetInv'
    <3>1. ASSUME NEW set \in frags PROVE FromChan(set, chan')
      <4>1. FromChan(set, chan) /\ chan \subseteq chan'
        BY <2>4 DEF IInv, SetInv
      <4> QED
        BY <4>1 DEF FromChan
    <3> QED
      BY <1>1, <3>1 DEF IInv, SetInv
  <2>7. HeldInv'
    <3>1. Uniform' => Uniform
      BY <2>4 DEF Uniform
    <3> QED
      BY <1>1, <3>1 DEF IInv, HeldInv, Stamped
  <2> QED
    BY <2>5, <2>6, <2>7 DEF IInv
<1> QED
  BY <1>2, <1>4, <1>5

\* The fragment of a packet is added to the set, and the set is not complete.
LEMMA FragmentKept ==
    ASSUME IInv, NEW p \in chan, NEW new, new = with_part(frag_set, p), ~complete(new),
           frags' = {new}, seen' = seen \cup {p},
           UNCHANGED <<item, wall, seq, chan, posted, merged, failed, error, tooLarge>>
    PROVE  IInv'
<1>1. PostInv'
  BY DEF IInv, PostInv
<1>2. SetInv'
  <2>1. FromChan(frag_set, chan)
    BY FragSet DEF IInv
  <2>2. Added(new, frag_set, p)
    BY WithPart
  <2>3. FromChan(new, chan)
    BY <2>1, <2>2, WithPartFrom
  <2> QED
    BY <2>3 DEF SetInv
<1>3. HeldInv'
  <2> SUFFICES ASSUME Uniform
               PROVE  /\ ~failed /\ ~error /\ Stamped(merged)
                      /\ merged = {} => \A q \in seen \cup {p} : Holds(new, q)
    BY DEF HeldInv, Uniform, Stamped
  <2>1. Holds(new, p) /\ \A q \in chan : Holds(frag_set, q) => Holds(new, q)
    BY UniformTakes DEF IInv
  <2>2. ASSUME merged = {}, NEW q \in seen PROVE Holds(new, q)
    <3>1. PICK set \in frags : Holds(set, q)
      BY <2>2 DEF IInv, HeldInv
    <3>2. frag_set = set
      BY <3>1, FragSet DEF IInv
    <3> QED
      BY <2>1, <3>1, <3>2 DEF IInv, PostInv
  <2>3. ~failed /\ ~error /\ Stamped(merged)
    BY DEF IInv, HeldInv
  <2> QED
    BY <2>1, <2>2, <2>3
<1> QED
  BY <1>1, <1>2, <1>3 DEF IInv

\* The set is complete and was read as a body.
LEMMA BodyMerged ==
    ASSUME IInv, NEW p \in chan, NEW new, new = with_part(frag_set, p),
           frags' = {}, seen' = seen \cup {p},
           Uniform => merged' # {} /\ Stamped(merged') /\ ~failed' /\ ~error',
           UNCHANGED <<item, wall, seq, chan, posted, tooLarge>>
    PROVE  IInv'
<1>1. PostInv'
  BY DEF IInv, PostInv
<1>2. SetInv'
  BY DEF SetInv
<1>3. HeldInv'
  BY DEF HeldInv, Uniform, Stamped
<1> QED
  BY <1>1, <1>2, <1>3 DEF IInv

\* The packet is refused with an error, which cut alike would not be.
LEMMA PacketRefused ==
    ASSUME IInv, ~Uniform, UNCHANGED <<item, wall, seq, chan, posted, frags, seen, tooLarge>>
    PROVE  IInv'
<1>1. PostInv'
  BY DEF IInv, PostInv
<1>2. SetInv'
  BY DEF IInv, SetInv
<1>3. HeldInv'
  BY DEF HeldInv, Uniform
<1> QED
  BY <1>1, <1>2, <1>3 DEF IInv

\* What a complete set of fragments is read as when all postings are cut alike:
\* what an author minted, which clashes with nothing.
LEMMA ReadsMinted ==
    ASSUME IInv, Uniform, NEW p \in chan, NEW new, new = with_part(frag_set, p), complete(new),
           NEW body \in bodies_of(new)
    PROVE  body # {} /\ Stamped(body) /\ ~clashes(body)
<1>1. body # {} /\ Garbled \notin body /\ Stamped(body)
  BY UniformTakes DEF IInv
<1>2. Garbled \notin merged
  <2>1. Stamped(merged)
    BY DEF IInv, HeldInv
  <2>2. \A q \in item, a \in Authors : q \in Items /\ wall[a] \in Authors
    BY DEF IInv, PostInv
  <2>3. \A q \in item, a \in Authors : Garbled \notin durable_body(q, wall[a])
    BY <2>2, FragmentsAssumption
  <2> QED
    BY <2>1, <2>3, Zenon DEF Stamped
<1> QED
  BY <1>1, <1>2, Zenon DEF clashes

\* A handshake row.
LEMMA IngestHandshakeIInv ==
    ASSUME IInv, NEW p \in chan, IngestHandshake(p)
    PROVE  IInv'
<1>1. PICK new : new = with_part(frag_set, p)
  OBVIOUS
<1>2. UNCHANGED <<item, path, wall, seq, chan, posted, recv, tooLarge>>
  BY DEF IngestHandshake
<1>3. \/ /\ equivocates(frag_set, p)
         /\ UNCHANGED <<frags, merged, failed, seen>>
      \/ /\ ~complete(new)
         /\ frags' = {new} /\ seen' = seen \cup {p}
         /\ UNCHANGED <<merged, failed, error>>
      \/ /\ complete(new)
         /\ \E body \in bodies_of(new) :
              \/ /\ frags' = {} /\ seen' = seen \cup {p}
                 /\ failed' = (body = {})
                 /\ merged' = IF merged = {} THEN body ELSE merged
                 /\ UNCHANGED error
              \/ /\ clashes(body)
                 /\ UNCHANGED <<frags, merged, failed, seen>>
  BY <1>1, Zenon DEF IngestHandshake
<1>4. Uniform => ~equivocates(frag_set, p)
  BY <1>1, UniformTakes DEF IInv
<1>5. CASE equivocates(frag_set, p) /\ UNCHANGED <<frags, merged, failed, seen>>
  BY <1>2, <1>4, <1>5, PacketRefused
<1>6. CASE ~complete(new) /\ frags' = {new} /\ seen' = seen \cup {p} /\ UNCHANGED <<merged, failed, error>>
  BY <1>1, <1>2, <1>6, FragmentKept
<1>7. ASSUME complete(new), NEW body \in bodies_of(new),
             frags' = {}, seen' = seen \cup {p},
             failed' = (body = {}),
             merged' = IF merged = {} THEN body ELSE merged,
             UNCHANGED error
      PROVE  IInv'
  <2>1. ASSUME Uniform PROVE merged' # {} /\ Stamped(merged') /\ ~failed' /\ ~error'
    <3>1. body # {} /\ Stamped(body)
      BY <1>1, <1>7, <2>1, ReadsMinted
    <3>2. ~error /\ Stamped(merged)
      BY <2>1 DEF IInv, HeldInv
    <3>3. merged' # {} /\ (merged' = body \/ merged' = merged)
      BY <1>7, <3>1
    <3> QED
      BY <1>7, <3>1, <3>2, <3>3
  <2> QED
    BY <1>1, <1>2, <1>7, <2>1, BodyMerged
<1>8. ASSUME complete(new), NEW body \in bodies_of(new), clashes(body), UNCHANGED <<frags, merged, failed, seen>>
      PROVE  IInv'
  <2>1. ~Uniform
    BY <1>1, <1>8, ReadsMinted
  <2> QED
    BY <1>2, <1>8, <2>1, PacketRefused
<1> QED
  BY <1>3, <1>5, <1>6, <1>7, <1>8, Zenon

\* An established row.
LEMMA AcceptFragmentIInv ==
    ASSUME IInv, NEW p \in chan, AcceptFragment(p)
    PROVE  IInv'
<1>1. PICK new : new = with_part(frag_set, p)
  OBVIOUS
<1>2. UNCHANGED <<item, path, wall, seq, chan, posted, failed, tooLarge>>
  BY DEF AcceptFragment
<1>3. \/ /\ ~complete(new)
         /\ frags' = {new} /\ seen' = seen \cup {p}
         /\ UNCHANGED <<merged, error>>
      \/ /\ complete(new) /\ {} \in bodies_of(new)
         /\ UNCHANGED <<frags, merged, seen, recv>>
      \/ /\ complete(new)
         /\ \E body \in bodies_of(new) \ {{}} :
              \/ merged' = IF merged = {} THEN body ELSE merged
              \/ clashes(body) /\ merged' = body
         /\ frags' = {} /\ seen' = seen \cup {p}
         /\ UNCHANGED error
  BY <1>1, Zenon DEF AcceptFragment
<1>4. CASE ~complete(new) /\ frags' = {new} /\ seen' = seen \cup {p} /\ UNCHANGED <<merged, error>>
  BY <1>1, <1>2, <1>4, FragmentKept
<1>5. CASE complete(new) /\ {} \in bodies_of(new) /\ UNCHANGED <<frags, merged, seen, recv>>
  <2>1. ~Uniform
    BY <1>1, <1>5, ReadsMinted
  <2> QED
    BY <1>2, <1>5, <2>1, PacketRefused
<1>6. CASE /\ complete(new)
           /\ \E body \in bodies_of(new) \ {{}} :
                \/ merged' = IF merged = {} THEN body ELSE merged
                \/ clashes(body) /\ merged' = body
           /\ frags' = {} /\ seen' = seen \cup {p}
           /\ UNCHANGED error
  <2>1. ASSUME Uniform PROVE merged' # {} /\ Stamped(merged') /\ ~failed' /\ ~error'
    <3>1. PICK body \in bodies_of(new) \ {{}} :
                \/ merged' = IF merged = {} THEN body ELSE merged
                \/ clashes(body) /\ merged' = body
      BY <1>6
    <3>2. body # {} /\ Stamped(body) /\ ~clashes(body)
      BY <1>1, <1>6, <2>1, <3>1, ReadsMinted
    <3>3. ~failed /\ ~error /\ Stamped(merged)
      BY <2>1 DEF IInv, HeldInv
    <3>4. merged' # {} /\ (merged' = body \/ merged' = merged)
      BY <3>1, <3>2
    <3> QED
      BY <1>2, <1>6, <3>2, <3>3, <3>4
  <2> QED
    BY <1>1, <1>2, <1>6, <2>1, BodyMerged
<1> QED
  BY <1>3, <1>4, <1>5, <1>6

\* The invariant holds in every reachable state.
LEMMA Inductive == CarrySpec => []IInv
<1>1. IInv /\ [Carry]_tvars => IInv'
  <2> SUFFICES ASSUME IInv, [Carry]_tvars PROVE IInv'
    OBVIOUS
  <2>1. ASSUME NEW t \in PayloadTypes, NEW n \in Variants, NEW same \in BOOLEAN, Mint(t, n, same)
        PROVE  IInv'
    BY <2>1, MintIInv
  <2>2. ASSUME NEW a \in Authors, Post(a) PROVE IInv'
    BY <2>2, PostIInv
  <2>3. ASSUME NEW p \in chan, IngestHandshake(p) PROVE IInv'
    BY <2>3, IngestHandshakeIInv
  <2>4. ASSUME NEW p \in chan, AcceptFragment(p) PROVE IInv'
    BY <2>4, AcceptFragmentIInv
  <2>5. CASE UNCHANGED tvars
    BY <2>5 DEF tvars, IInv, PostInv, SetInv, HeldInv, Uniform, Stamped
  <2> QED
    BY <2>1, <2>2, <2>3, <2>4, <2>5, Zenon DEF Carry
<1> QED
  BY <1>1, InitIInv, PTL DEF CarrySpec

-----------------------------------------------------------------------------
(* The theorems *)

\* A body of which every fragment was taken is merged: otherwise the set of
\* fragments would be complete.
LEMMA WholeMerged ==
    ASSUME IInv, Uniform, NEW x \in posted, {bare(p) : p \in x} \subseteq {bare(p) : p \in seen}
    PROVE  merged # {}
<1> SUFFICES ASSUME merged = {} PROVE FALSE
  OBVIOUS
<1>1. PICK p \in item, a \in Authors : Whole(x, packed_tx(p, wall[a]), packed_len(p))
  BY DEF IInv, PostInv
<1>2. PICK b : b = packed_tx(p, wall[a])
  OBVIOUS
<1>2a. PICK n \in Nat \ {0} : \E e : Sliced(x, b, n, e)
  BY <1>1, <1>2 DEF Whole
<1>3. PICK e : Sliced(x, b, n, e)
  BY <1>2a
<1>4. ASSUME NEW k \in 1 .. n
      PROVE  \E set \in frags : k - 1 \in DOMAIN set.parts /\ (k = n => k - 1 \in set.last_i)
  <2>1. PICK q \in x : Piece(q, k, n, b, e)
    BY <1>3 DEF Sliced
  <2>2. bare(q) \in {bare(r) : r \in seen}
    BY <2>1
  <2>3. PICK r \in seen : bare(r) = bare(q)
    BY <2>2, Zenon
  <2>4. r.i = k - 1 /\ r.kind = kind_of(k, n)
    BY <2>1, <2>3 DEF bare, Piece
  <2>5. PICK set \in frags : Holds(set, r)
    BY <2>3 DEF IInv, HeldInv
  <2> QED
    BY <2>4, <2>5 DEF Holds, kind_of
<1>5. n \in 1 .. n
  BY <1>3
<1>6. PICK set : frags = {set}
  BY <1>4, <1>5 DEF IInv, SetInv
<1>7. n - 1 \in set.last_i /\ \A k \in 1 .. n : k - 1 \in DOMAIN set.parts
  BY <1>4, <1>5, <1>6
<1>8. 0 .. n - 1 \subseteq DOMAIN set.parts
  <2> SUFFICES ASSUME NEW i \in 0 .. n - 1 PROVE i \in DOMAIN set.parts
    OBVIOUS
  <2>1. i + 1 \in 1 .. n /\ (i + 1) - 1 = i
    BY <1>3
  <2> QED
    BY <1>7, <2>1
<1>9. complete(set)
  BY <1>7, <1>8 DEF complete
<1> QED
  BY <1>6, <1>9 DEF IInv, SetInv

\* For every body, every room of a packet and every interleaving of postings,
\* lost, repeated and overtaken fragments: as long as the postings are cut
\* alike no row and no ingest fails, and a body that arrived is merged.
THEOREM UniformMergesAlways == CarrySpec => []UniformMerges
<1>1. IInv => UniformMerges
  <2> SUFFICES ASSUME IInv, Uniform
               PROVE  /\ ~failed /\ ~error
                      /\ (\E x \in posted : {bare(p) : p \in x} \subseteq {bare(p) : p \in seen}) => merged # {}
    BY DEF UniformMerges
  <2>1. ~failed /\ ~error
    BY DEF IInv, HeldInv
  <2> QED
    BY <2>1, WholeMerged, Zenon
<1> QED
  BY <1>1, Inductive, PTL

-----------------------------------------------------------------------------
(* Whose body is merged *)

\* Where the postings are cut alike, what is merged was read of the body as an
\* author stamped it.
MergedFrom == Uniform => Stamped(merged)

\* For every body, every room of a packet and every order in which fragments
\* are lost, repeated or overtaken: as long as the postings are cut alike, the
\* parts that open_and_merge or accept_fragment join, from whichever postings,
\* are those of one body in order, so that what is inserted is what
\* durable_body_from_json reads of it.  MergedAsMinted of Transfer adds what
\* that reading is.
THEOREM MergedFromAlways == CarrySpec => []MergedFrom
<1>1. IInv => MergedFrom
  BY DEF IInv, HeldInv, MergedFrom
<1> QED
  BY <1>1, Inductive, PTL
=============================================================================
