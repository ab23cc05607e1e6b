----------------------------- MODULE HealProofs -----------------------------
(***************************************************************************)
(* Proofs about Heal, for every pair of parties, space of ids, set of      *)
(* transactions and bound.                                                 *)
(*                                                                         *)
(* An action changes one row by a chain of helpers, so the invariant is a  *)
(* statement RowInv about one row and about the packets it has to post,    *)
(* and one lemma for each helper says that the helper keeps it and leaves  *)
(* the set of transactions alone.                                          *)
(***************************************************************************)
EXTENDS Heal, FiniteSetTheorems, SequenceTheorems, TLAPS

\* The ids that some party holds.
Known == Sync!Everywhere

\* A half names ids of its own range only.
InRange(p) == p.kind = "half" => p.ids \subseteq range_xor(Ids, p.lo, p.hi)

\* Packets of the search, packets of the durable channels if the transactions
\* of K exist, packets of the ephemeral channels if there are such channels,
\* and those of the search among them.
Searches     == {p \in Packets : p.kind \in {"half", "want", "have"} /\ InRange(p)}
Durables(K)  == {p \in Packets : p.kind # "ack" /\ InRange(p) /\ (p.kind = "tx" => p.lo \in K)}
Ephemerals   == {p \in Packets : Ephemeral /\ p.kind # "tx" /\ InRange(p)}
Volatile     == {p \in Searches : Ephemeral}

\* The stashed copies are those of the probes at the position of the chain, and
\* a search on the ephemeral path is open.
Current(h) ==
    /\ h.ready # <<>> => h.on_ephemeral /\ h.sealed = "same" /\ Len(h.ready) = Len(h.probes)
    /\ h.on_ephemeral => h.probes # <<>> /\ ~h.fell_back

\* A row whose transactions, and those it posts, are of K; its search may be
\* about to be posted.
RowTypes(r, K) ==
    /\ r \in Rows
    /\ r.have \subseteq K
    /\ r.heal.ready \in Seq(Searches)
    /\ r.writes \in Seq(Durables(K))
    /\ r.eph_writes \in Seq(Volatile)

RowInv(r, K) == RowTypes(r, K) /\ Current(r.heal)

\* s comes of r by a helper that leaves the transactions alone.
Same(r, s, K) == RowInv(s, K) /\ s.have = r.have

IInv ==
    /\ TypeOK
    /\ \A p \in Parties : RowInv(row[p], Known) /\ row[p].writes = <<>>
    /\ posted \subseteq Durables(Known)
    /\ air \in [Parties -> Seq(Ephemerals)]

-----------------------------------------------------------------------------
(* Sets of ids *)

\* SetToSeq enumerates a finite set.
LEMMA SetToSeqType ==
    ASSUME NEW S, IsFiniteSet(S)
    PROVE  /\ SetToSeq(S) \in Seq(S)
           /\ DOMAIN SetToSeq(S) = 1 .. Cardinality(S)
<1>1. PICK f \in [1 .. Cardinality(S) -> S] : IsInjective(f)
  <2>1. \E f : f \in Bijection(1 .. Cardinality(S), S)
    BY FS_CardinalityType DEF ExistsBijection
  <2> QED
    BY <2>1 DEF Bijection, Injection, Surjection, IsInjective
<1>2. SetToSeq(S) \in [1 .. Cardinality(S) -> S]
  BY <1>1 DEF SetToSeq
<1>3. Cardinality(S) \in Nat
  BY FS_CardinalityType
<1> QED
  BY <1>2, <1>3

\* Sets of ids are finite.
LEMMA IdsFinite == \A S \in SUBSET Ids : IsFiniteSet(S)
<1>1. IsFiniteSet((Zero + 1) .. (Top - 1))
  BY HealAssumption, FS_Interval DEF Zero
<1> QED
  BY <1>1, HealAssumption, FS_Subset

\* Ids are inside the space of ids.
LEMMA IdBounds == Ids \subseteq Bounds
BY HealAssumption DEF Bounds, Zero

\* What a device has of a range are ids of the range.
LEMMA RangeXor ==
    ASSUME NEW have \in SUBSET Ids, NEW lo, NEW hi
    PROVE  /\ range_xor(have, lo, hi) \subseteq range_xor(Ids, lo, hi)
           /\ range_xor(have, lo, hi) \in SUBSET Ids
BY DEF range_xor

\* A range of one id that differs names a transaction: the open end is none.
LEMMA SingleId ==
    ASSUME NEW lo \in Bounds, NEW hi \in Bounds, single_id(lo, hi),
           NEW ours, NEW theirs, ours # theirs,
           ours \subseteq range_xor(Ids, lo, hi), theirs \subseteq range_xor(Ids, lo, hi)
    PROVE  lo \in Ids
<1>1. \A id \in range_xor(Ids, lo, hi) : id = lo
  BY HealAssumption DEF range_xor, in_range, single_id, Bounds, Zero
<1>2. PICK id : id \in ours \cup theirs
  OBVIOUS
<1> QED
  BY <1>1, <1>2 DEF range_xor

\* The middle of a range is an id.
LEMMA Midpoint ==
    ASSUME NEW lo \in Bounds, NEW hi \in Bounds
    PROVE  mid_of(lo, hi) \in Bounds
BY HealAssumption DEF mid_of, Bounds, Zero

-----------------------------------------------------------------------------
(* Probes and packets *)

\* What the constructors make.
LEMMA ProbeTypes ==
    ASSUME NEW lo \in Bounds, NEW hi \in Bounds, NEW ids \in SUBSET Ids
    PROVE  /\ Half(lo, hi) \in Probes
           /\ Want(lo, hi, ids) \in Probes
           /\ Have(lo, hi, ids) \in Probes
BY DEF Half, Want, Have, Probes

\* Packets of the search may go out on both kinds of channels.
LEMMA SearchTypes ==
    ASSUME NEW K
    PROVE  /\ Searches \subseteq Durables(K)
           /\ Searches \subseteq Packets
           /\ Volatile \subseteq Ephemerals
           /\ Volatile \subseteq Packets
BY DEF Searches, Volatile, Durables, Ephemerals, Packets

\* A probe goes out with ids of its range.
LEMMA ProbePlain ==
    ASSUME NEW probe \in Probes, NEW have \in SUBSET Ids, NEW at \in Nat
    PROVE  probe_plain(probe, have, at) \in Searches
<1> DEFINE ids == IF probe.kind = "half" THEN range_xor(have, probe.lo, probe.hi) ELSE probe.ids
           pkt == [kind |-> probe.kind, lo |-> probe.lo, hi |-> probe.hi, at |-> at, ids |-> ids]
<1>1. /\ ids \in SUBSET Ids
      /\ probe.kind = "half" => ids \subseteq range_xor(Ids, probe.lo, probe.hi)
  BY RangeXor DEF Probes
<1>2. probe_plain(probe, have, at) = pkt
  BY DEF probe_plain
<1> HIDE DEF ids
<1>3. pkt \in Packets /\ pkt.kind \in {"half", "want", "have"}
  BY <1>1 DEF Probes, Packets
<1>4. InRange(pkt)
  BY <1>1 DEF InRange
<1> QED
  BY <1>2, <1>3, <1>4 DEF Searches

-----------------------------------------------------------------------------
(* The helpers, row to row *)

\* The fields of a row.
LEMMA RowFields ==
    ASSUME NEW r, NEW K, RowTypes(r, K)
    PROVE  /\ r = [have |-> r.have, heal |-> r.heal, live |-> r.live, chain |-> r.chain,
                   writes |-> r.writes, eph_writes |-> r.eph_writes]
           /\ r.have \in SUBSET Ids /\ r.have \subseteq K /\ r.live \in Lives /\ r.chain \in Chains
           /\ r.heal \in Heals
           /\ r.heal.probes \in Seq(Probes)
           /\ r.heal.ready \in Seq(Searches)
           /\ r.writes \in Seq(Durables(K))
           /\ r.eph_writes \in Seq(Volatile)
BY DEF RowTypes, Rows, Heals

\* A row is of its type if its fields are.
LEMMA RowFromFields ==
    ASSUME NEW K, NEW have \in SUBSET Ids, have \subseteq K, NEW heal \in Heals,
           NEW live \in Lives, NEW chain \in Chains, heal.ready \in Seq(Searches),
           NEW writes \in Seq(Durables(K)), NEW eph_writes \in Seq(Volatile), NEW r,
           r = [have |-> have, heal |-> heal, live |-> live, chain |-> chain,
                writes |-> writes, eph_writes |-> eph_writes]
    PROVE  /\ RowTypes(r, K)
           /\ Current(heal) => RowInv(r, K)
<1>1. writes \in Seq(Packets) /\ eph_writes \in Seq(Packets)
  <2>1. Durables(K) \subseteq Packets /\ Volatile \subseteq Packets
    BY SearchTypes DEF Durables
  <2> QED
    BY <2>1, SeqMonotonic
<1>2. RowTypes(r, K)
  BY <1>1 DEF RowTypes, Rows
<1>3. r.heal = heal
  OBVIOUS
<1> QED
  BY <1>2, <1>3 DEF RowInv

\* A chain that sends n packets more.
LEMMA Sends ==
    ASSUME NEW c \in Chains, NEW n \in Nat
    PROVE  [c EXCEPT !.send = @ + n] \in Chains
BY DEF Chains

\* A search that is on the durable path.
LEMMA Fallen ==
    ASSUME NEW h \in Heals, NEW ready \in Seq(Packets), NEW g,
           g = [h EXCEPT !.late = FALSE, !.on_ephemeral = FALSE, !.needs_reseal = FALSE,
                         !.ready = ready, !.sealed = "none", !.fell_back = TRUE]
    PROVE  g \in Heals /\ g.ready = ready /\ ~g.on_ephemeral
BY Zenon DEF Heals

\* The packets of the probes, at the positions given by at.
LEMMA Plains ==
    ASSUME NEW probes \in Seq(Probes), NEW have \in SUBSET Ids,
           NEW at, \A i \in 1 .. Len(probes) : at[i] \in Nat, NEW packets,
           packets = [i \in 1 .. Len(probes) |-> probe_plain(probes[i], have, at[i])]
    PROVE  packets \in Seq(Searches)
<1>1. PICK n \in Nat : n = Len(probes)
  OBVIOUS
<1>2. \A i \in 1 .. n : probe_plain(probes[i], have, at[i]) \in Searches
  BY <1>1, ProbePlain
<1> QED
  BY <1>1, <1>2

\* post_heal posts the probes of the search on one of the paths; on the durable
\* one if the search is marked.
LEMMA PostHeal ==
    ASSUME NEW K, NEW r, RowTypes(r, K), r.heal.probes # <<>>
    PROVE  /\ RowInv(post_heal(r), K) /\ post_heal(r).have = r.have
           /\ r.heal.needs_reseal => /\ ~post_heal(r).heal.on_ephemeral
                                    /\ Len(post_heal(r).writes) = Len(r.writes) + Len(r.heal.probes)
<1> DEFINE h       == r.heal
           use_eph == r.live = "live" /\ Ephemeral /\ ~h.fell_back /\ ~h.needs_reseal
           packets == [i \in 1 .. Len(h.probes) |->
                         probe_plain(h.probes[i], r.have, r.chain.send + i - 1)]
           eph     == [i \in 1 .. Len(h.probes) |-> probe_plain(h.probes[i], r.have, r.chain.send)]
<1>0. /\ h \in Heals /\ h.probes \in Seq(Probes) /\ r.have \in SUBSET Ids
      /\ r.writes \in Seq(Durables(K)) /\ r.eph_writes \in Seq(Volatile)
      /\ r.live \in Lives /\ r.have \subseteq K /\ r.chain \in Chains
  BY RowFields
<1>1. /\ packets \in Seq(Searches) /\ Len(packets) = Len(h.probes)
      /\ eph \in Seq(Searches)
  <2>1. PICK send \in Nat : send = r.chain.send
    BY <1>0 DEF Chains
  <2> DEFINE at   == [i \in 1 .. Len(h.probes) |-> send + i - 1]
             here == [i \in 1 .. Len(h.probes) |-> send]
  <2>2. PICK probes \in Seq(Probes) : probes = h.probes
    BY <1>0
  <2>6. PICK n \in Nat : n = Len(probes)
    OBVIOUS
  <2>7. /\ \A i \in 1 .. n : at[i] \in Nat
        /\ \A i \in 1 .. n : here[i] \in Nat
    BY <2>1, <2>2, <2>6
  <2>3. /\ packets = [i \in 1 .. Len(probes) |-> probe_plain(probes[i], r.have, at[i])]
        /\ eph = [i \in 1 .. Len(probes) |-> probe_plain(probes[i], r.have, here[i])]
    BY <2>1, <2>2
  <2> HIDE DEF at, here, packets, eph, h
  <2>4. packets \in Seq(Searches) /\ Len(packets) = Len(probes)
    <3>1. \A i \in 1 .. Len(probes) : at[i] \in Nat
      BY <2>6, <2>7
    <3>2. packets = [i \in 1 .. Len(probes) |-> probe_plain(probes[i], r.have, at[i])]
      BY <2>3
    <3>3. r.have \in SUBSET Ids
      BY <1>0
    <3>4. packets \in Seq(Searches)
      BY <3>1, <3>2, <3>3, Plains
    <3>5. DOMAIN packets = 1 .. n
      BY <2>6, <3>2
    <3> HIDE DEF packets, at
    <3>6. Len(packets) = n
      BY <3>4, <3>5
    <3> QED
      BY <2>6, <3>4, <3>6
  <2>5. eph \in Seq(Searches)
    BY <1>0, <2>3, <2>6, <2>7, Plains
  <2> QED
    BY <2>2, <2>4, <2>5
<1>2. packets \in Seq(Packets) /\ packets \in Seq(Durables(K)) /\ Len(packets) \in Nat
  BY <1>1, SearchTypes, SeqMonotonic
<1>4. CASE use_eph
  <2> DEFINE g == [h EXCEPT !.late = FALSE, !.on_ephemeral = TRUE, !.needs_reseal = FALSE,
                            !.ready = packets, !.sealed = "same"]
  <2>1. post_heal(r) = [r EXCEPT !.eph_writes = @ \o eph, !.heal = g]
    BY <1>4 DEF post_heal
  <2>2. g \in Heals /\ g.ready = packets /\ Current(g)
    <3>1. g \in Heals /\ g.ready = packets /\ g.sealed = "same" /\ g.probes = h.probes
      <4> HIDE DEF packets
      <4> QED
        BY <1>0, <1>2 DEF Heals
    <3>2. g.on_ephemeral /\ ~g.fell_back
      <4> HIDE DEF packets
      <4> QED
        BY <1>0, <1>4, Zenon DEF Heals
    <3>3. h.probes # <<>>
      OBVIOUS
    <3> HIDE DEF g, packets, h
    <3> QED
      BY <1>1, <3>1, <3>2, <3>3, Zenon DEF Current
  <2>3. r.eph_writes \o eph \in Seq(Volatile)
    <3>1. Volatile = Searches
      BY <1>4 DEF Volatile
    <3> HIDE DEF eph
    <3> QED
      BY <1>0, <1>1, <3>1
  <2> HIDE DEF g, packets, eph
  <2>4. post_heal(r) = [have |-> r.have, heal |-> g, live |-> r.live, chain |-> r.chain,
                        writes |-> r.writes, eph_writes |-> r.eph_writes \o eph]
    BY <2>1, RowFields
  <2>5. RowInv(post_heal(r), K)
    BY <1>0, <1>1, <2>2, <2>3, <2>4, RowFromFields
  <2>6. ~r.heal.needs_reseal
    BY <1>4, Zenon
  <2>7. post_heal(r).have = r.have
    BY <2>4
  <2> QED
    BY <2>5, <2>6, <2>7, Zenon
<1>5. CASE ~use_eph
  <2> DEFINE g == [h EXCEPT !.late = FALSE, !.on_ephemeral = FALSE, !.needs_reseal = FALSE,
                            !.ready = <<>>, !.sealed = "none", !.fell_back = TRUE]
             chain == [r.chain EXCEPT !.send = @ + Len(packets)]
  <2>1. post_heal(r) = [r EXCEPT !.writes = @ \o packets, !.chain = chain, !.heal = g]
    <3>1. post_heal(r) = [r EXCEPT !.writes = @ \o packets, !.chain.send = @ + Len(packets), !.heal = g]
      BY <1>5 DEF post_heal
    <3> HIDE DEF g, packets
    <3> QED
      BY <3>1
  <2>2. g \in Heals /\ g.ready = <<>> /\ ~g.on_ephemeral /\ Current(g)
    <3>0. <<>> \in Seq(Packets)
      OBVIOUS
    <3>1. PICK none : none \in Seq(Packets) /\ none = <<>>
      BY <3>0, Zenon
    <3>2. g = [h EXCEPT !.late = FALSE, !.on_ephemeral = FALSE, !.needs_reseal = FALSE,
                        !.ready = none, !.sealed = "none", !.fell_back = TRUE]
      BY <3>1
    <3> HIDE DEF g
    <3>3. none \in Seq(Packets) /\ h \in Heals
      BY <3>1, <1>0
    <3> HIDE DEF h
    <3>4. g \in Heals /\ g.ready = none /\ ~g.on_ephemeral
      BY <3>3, <3>2, Fallen
    <3> QED
      BY <3>1, <3>4 DEF Current
  <2>3. r.writes \o packets \in Seq(Durables(K)) /\ Len(r.writes \o packets) = Len(r.writes) + Len(packets)
    <3> HIDE DEF packets
    <3> QED
      BY <1>0, <1>2
  <2>6. chain \in Chains
    <3> HIDE DEF packets
    <3> QED
      BY <1>0, <1>2, Sends
  <2> HIDE DEF g, packets, chain
  <2>4. post_heal(r) = [have |-> r.have, heal |-> g, live |-> r.live, chain |-> chain,
                        writes |-> r.writes \o packets, eph_writes |-> r.eph_writes]
    BY <2>1, RowFields
  <2>5. g.ready \in Seq(Searches)
    BY <2>2
  <2>7. RowInv(post_heal(r), K)
    BY <1>0, <2>2, <2>3, <2>4, <2>5, <2>6, RowFromFields
  <2>8. post_heal(r).have = r.have /\ post_heal(r).heal = g /\ post_heal(r).writes = r.writes \o packets
    BY <2>4
  <2>9. Len(post_heal(r).writes) = Len(r.writes) + Len(r.heal.probes)
    BY <1>1, <2>3, <2>8
  <2>10. ~post_heal(r).heal.on_ephemeral
    BY <2>2, <2>8, Zenon
  <2> QED
    BY <2>7, <2>8, <2>9, <2>10, Zenon
<1> QED
  BY <1>4, <1>5

\* A row whose search is replaced by another value of Heal.
LEMMA SetHeal ==
    ASSUME NEW K, NEW r, RowInv(r, K), NEW g \in Heals, g.ready \in Seq(Searches), NEW s,
           s = [r EXCEPT !.heal = g]
    PROVE  /\ RowTypes(s, K) /\ s.have = r.have /\ s.heal = g
           /\ s.writes = r.writes /\ s.chain = r.chain
           /\ Current(g) => Same(r, s, K)
<1>1. s = [have |-> r.have, heal |-> g, live |-> r.live, chain |-> r.chain,
           writes |-> r.writes, eph_writes |-> r.eph_writes]
  BY RowFields DEF RowInv
<1>2. RowTypes(s, K) /\ (Current(g) => RowInv(s, K))
  BY <1>1, RowFields, RowFromFields DEF RowInv
<1> QED
  BY <1>1, <1>2 DEF Same

\* An ended search.
LEMMA SetIdle ==
    ASSUME NEW K, NEW r, RowInv(r, K)
    PROVE  Same(r, [r EXCEPT !.heal = Idle], K)
<1>1. Idle \in Heals /\ Idle.ready \in Seq(Searches) /\ Current(Idle)
  BY DEF Idle, Heals, Current
<1> QED
  BY <1>1, SetHeal

\* replace_probes opens a search.
LEMMA ReplaceProbes ==
    ASSUME NEW K, NEW r, RowInv(r, K), NEW probes \in Seq(Probes), probes # <<>>
    PROVE  Same(r, replace_probes(r, probes), K)
<1> DEFINE g == [r.heal EXCEPT !.probes = probes, !.fell_back = FALSE]
           s == [r EXCEPT !.heal = g]
<1>1. r.heal \in Heals /\ r.heal.ready \in Seq(Searches)
  BY RowFields DEF RowInv
<1>2. g \in Heals /\ g.ready \in Seq(Searches) /\ g.probes # <<>>
  BY <1>1 DEF Heals
<1>3. replace_probes(r, probes) = post_heal(s)
  <2>1. s = [r EXCEPT !.heal.probes = probes, !.heal.fell_back = FALSE]
    BY <1>1, RowFields DEF Heals, RowInv
  <2> QED
    BY <2>1 DEF replace_probes
<1> HIDE DEF g
<1>4. RowTypes(s, K) /\ s.have = r.have /\ s.heal.probes # <<>>
  BY <1>2, SetHeal
<1> HIDE DEF s
<1>5. RowInv(post_heal(s), K) /\ post_heal(s).have = s.have
  BY <1>4, PostHeal
<1> QED
  BY <1>3, <1>4, <1>5 DEF Same

\* note_set_xor ends, keeps or starts a search.
LEMMA NoteSetXor ==
    ASSUME NEW K, NEW r, RowInv(r, K), NEW remote
    PROVE  Same(r, note_set_xor(r, remote), K)
<1>1. CASE r.have = remote
  BY <1>1, SetIdle DEF note_set_xor
<1>2. CASE r.have # remote /\ r.heal.probes # <<>>
  BY <1>2 DEF note_set_xor, Same
<1>3. CASE r.have # remote /\ r.heal.probes = <<>>
  <2>1. Half(Zero, Top) \in Probes
    BY HealAssumption, ProbeTypes DEF Bounds, Zero
  <2>2. <<Half(Zero, Top)>> \in Seq(Probes) /\ <<Half(Zero, Top)>> # <<>>
    BY <2>1
  <2>3. note_set_xor(r, remote) = replace_probes(r, <<Half(Zero, Top)>>)
    BY <1>3 DEF note_set_xor
  <2> QED
    BY <2>2, <2>3, ReplaceProbes
<1> QED
  BY <1>1, <1>2, <1>3

\* A search whose copies are gone.
LEMMA Cleared ==
    ASSUME NEW h \in Heals, NEW reseal \in BOOLEAN, NEW g,
           g = [h EXCEPT !.ready = <<>>, !.sealed = "none", !.needs_reseal = reseal]
    PROVE  /\ g \in Heals /\ g.ready = <<>>
           /\ g.on_ephemeral = h.on_ephemeral /\ g.fell_back = h.fell_back /\ g.probes = h.probes
<1>1. <<>> \in Seq(Packets)
  OBVIOUS
<1> QED
  BY <1>1, Zenon DEF Heals

\* write_chain_packets posts transactions that the device has, and the copies
\* of an open search go.
LEMMA WriteChain ==
    ASSUME NEW K, NEW r, RowInv(r, K), NEW txs \in Seq(r.have)
    PROVE  Same(r, write_chain_packets(r, txs), K)
<1> DEFINE h     == r.heal
           clear == [h EXCEPT !.ready = <<>>, !.sealed = "none", !.needs_reseal = @ \/ h.late]
           g     == IF h.on_ephemeral THEN clear ELSE moved(h)
           out   == [i \in 1 .. Len(txs) |-> TxFragLast(txs[i], r.have, r.chain.send + i - 1)]
           chain == [r.chain EXCEPT !.send = @ + Len(txs)]
<1>1. /\ h \in Heals /\ h.ready \in Seq(Searches) /\ Current(h)
      /\ r.have \in SUBSET Ids /\ r.have \subseteq K
      /\ r.writes \in Seq(Durables(K)) /\ r.eph_writes \in Seq(Volatile) /\ r.live \in Lives
      /\ r.chain \in Chains
  BY RowFields DEF RowInv
<1>0. chain \in Chains
  <2>1. Len(txs) \in Nat
    OBVIOUS
  <2> QED
    BY <1>1, <2>1, Sends
<1>2. \A id \in r.have, at \in Nat : TxFragLast(id, r.have, at) \in Durables(K)
  <2> TAKE id \in r.have, at \in Nat
  <2>1. id \in Bounds /\ id \in K
    BY <1>1, IdBounds
  <2>2. TxFragLast(id, r.have, at) \in Packets
    BY <1>1, <2>1 DEF TxFragLast, Packets
  <2> QED
    BY <2>1, <2>2 DEF TxFragLast, Durables, InRange
<1>3. out \in Seq(Durables(K))
  <2>1. PICK send \in Nat : send = r.chain.send
    BY <1>1 DEF Chains
  <2>2. \A i \in 1 .. Len(txs) : send + i - 1 \in Nat /\ txs[i] \in r.have
    BY <2>1
  <2>3. \A i \in 1 .. Len(txs) : TxFragLast(txs[i], r.have, send + i - 1) \in Durables(K)
    BY <1>2, <2>2
  <2> QED
    BY <2>1, <2>3
<1>4. g \in Heals /\ g.ready \in Seq(Searches) /\ Current(g)
  <2>1. CASE h.on_ephemeral
    <3>1. PICK reseal \in BOOLEAN : reseal = (h.needs_reseal \/ h.late)
      BY Zenon
    <3>2. clear = [h EXCEPT !.ready = <<>>, !.sealed = "none", !.needs_reseal = reseal]
      BY <3>1, Zenon
    <3>3. /\ clear \in Heals /\ clear.ready = <<>>
          /\ clear.on_ephemeral = h.on_ephemeral /\ clear.fell_back = h.fell_back
          /\ clear.probes = h.probes
      <4>1. h \in Heals
        BY <1>1
      <4> HIDE DEF clear, h
      <4> QED
        BY <3>2, <4>1, Cleared
    <3>4. g = clear
      BY <2>1
    <3>5. <<>> \in Seq(Searches)
      OBVIOUS
    <3>6. h.on_ephemeral => h.probes # <<>> /\ ~h.fell_back
      BY <1>1, Zenon DEF Current
    <3> HIDE DEF g, clear, h
    <3> QED
      BY <3>3, <3>4, <3>5, <3>6, Zenon DEF Current
  <2>2. CASE ~h.on_ephemeral
    BY <1>1, <2>2 DEF Heals, Current, moved
  <2> QED
    BY <2>1, <2>2
<1>5. write_chain_packets(r, txs) = [r EXCEPT !.writes = @ \o out, !.chain = chain, !.heal = g]
  <2>1. write_chain_packets(r, txs) =
            [r EXCEPT !.writes = @ \o out, !.chain.send = @ + Len(txs), !.heal = g]
    BY DEF write_chain_packets
  <2> HIDE DEF g, out
  <2> QED
    BY <2>1
<1>6. r.writes \o out \in Seq(Durables(K))
  BY <1>1, <1>3
<1> HIDE DEF g, out, chain
<1>7. write_chain_packets(r, txs) = [have |-> r.have, heal |-> g, live |-> r.live, chain |-> chain,
                                     writes |-> r.writes \o out, eph_writes |-> r.eph_writes]
  BY <1>5, RowFields DEF RowInv
<1>8. RowInv(write_chain_packets(r, txs), K)
  BY <1>0, <1>1, <1>4, <1>6, <1>7, RowFromFields
<1> QED
  BY <1>7, <1>8 DEF Same

\* retransmit sends what the device has.
LEMMA Retransmit ==
    ASSUME NEW K, NEW r, RowInv(r, K), NEW ids \in SUBSET r.have
    PROVE  Same(r, retransmit(r, ids), K)
<1>1. CASE ids = {}
  BY <1>1 DEF retransmit, Same
<1>2. CASE ids # {}
  <2>1. IsFiniteSet(ids)
    BY IdsFinite, RowFields DEF RowInv
  <2>2. SetToSeq(ids) \in Seq(r.have)
    BY <2>1, SetToSeqType, SeqMonotonic
  <2> QED
    BY <1>2, <2>2, WriteChain DEF retransmit
<1> QED
  BY <1>1, <1>2

\* have_local: an unsplittable range names some of the own ids.
LEMMA HaveLocal ==
    ASSUME NEW K, NEW r, RowInv(r, K), NEW lo \in Bounds, NEW hi \in Bounds
    PROVE  Same(r, have_local(r, lo, hi), K)
<1> DEFINE ids  == range_xor(r.have, lo, hi)
           some == CHOOSE s \in SUBSET ids : s = ids \/ Cardinality(s) = IdCap
<1>1. ids \in SUBSET Ids
  BY RangeXor, RowFields DEF RowInv
<1>2. some \in SUBSET Ids
  <2>1. \E s \in SUBSET ids : s = ids \/ Cardinality(s) = IdCap
    OBVIOUS
  <2>2. some \in SUBSET ids
    BY <2>1
  <2> QED
    BY <1>1, <2>2
<1>3. have_local(r, lo, hi) = replace_probes(r, <<Have(lo, hi, some)>>)
  BY DEF have_local
<1> HIDE DEF some
<1>4. <<Have(lo, hi, some)>> \in Seq(Probes) /\ <<Have(lo, hi, some)>> # <<>>
  BY <1>2, ProbeTypes
<1> QED
  BY <1>3, <1>4, ReplaceProbes

\* on_half bisects, names one id, or stops.
LEMMA OnHalf ==
    ASSUME NEW K, NEW r, RowInv(r, K), NEW p \in Searches, p.kind = "half"
    PROVE  Same(r, on_half(r, p), K)
<1> DEFINE ours == range_xor(r.have, p.lo, p.hi)
           mid  == mid_of(p.lo, p.hi)
<1>0. p.lo \in Bounds /\ p.hi \in Bounds /\ p.ids \subseteq range_xor(Ids, p.lo, p.hi)
  BY DEF Searches, Packets, InRange
<1>1. CASE ours = p.ids
  BY <1>1 DEF on_half, Same
<1>2. CASE ours # p.ids /\ single_id(p.lo, p.hi)
  <2> DEFINE name == IF ours = {p.lo} THEN Have(p.lo, p.hi, {p.lo}) ELSE Want(p.lo, p.hi, {p.lo})
  <2>1. ours \subseteq range_xor(Ids, p.lo, p.hi)
    BY RangeXor, RowFields DEF RowInv
  <2>2. p.lo \in Ids
    BY <1>0, <1>2, <2>1, SingleId
  <2>3. name \in Probes
    BY <1>0, <2>2, ProbeTypes
  <2>4. on_half(r, p) = replace_probes(r, <<name>>)
    BY <1>2 DEF on_half
  <2> HIDE DEF name
  <2>5. <<name>> \in Seq(Probes) /\ <<name>> # <<>>
    BY <2>3
  <2> QED
    BY <2>4, <2>5, ReplaceProbes
<1>3. CASE ours # p.ids /\ ~single_id(p.lo, p.hi) /\ splits(p.lo, p.hi)
  <2> DEFINE probes == <<Half(p.lo, mid), Half(mid, p.hi)>>
  <2>1. on_half(r, p) = replace_probes(r, probes)
    BY <1>3 DEF on_half
  <2>2. Half(p.lo, mid) \in Probes /\ Half(mid, p.hi) \in Probes
    BY <1>0, Midpoint, ProbeTypes
  <2>3. probes \in Seq(Probes) /\ probes # <<>>
    BY <2>2
  <2> HIDE DEF probes
  <2> QED
    BY <2>1, <2>3, ReplaceProbes
<1>4. CASE ours # p.ids /\ ~single_id(p.lo, p.hi) /\ ~splits(p.lo, p.hi)
  <2>1. on_half(r, p) = have_local(r, p.lo, p.hi)
    BY <1>4 DEF on_half
  <2> QED
    BY <1>0, <2>1, HaveLocal
<1> QED
  BY <1>1, <1>2, <1>3, <1>4

\* A search that an answer ended.
LEMMA Answered ==
    ASSUME NEW h \in Heals, NEW g,
           g = [h EXCEPT !.probes = <<>>, !.ready = <<>>, !.on_ephemeral = FALSE]
    PROVE  g \in Heals /\ g.ready = <<>> /\ ~g.on_ephemeral
<1>1. <<>> \in Seq(Packets) /\ <<>> \in Seq(Probes)
  OBVIOUS
<1> QED
  BY <1>1, Zenon DEF Heals

\* on_want ends the search and sends what was asked for.
LEMMA OnWant ==
    ASSUME NEW K, NEW r, RowInv(r, K), NEW p
    PROVE  Same(r, on_want(r, p), K)
<1> DEFINE h == r.heal
           g == [h EXCEPT !.probes = <<>>, !.ready = <<>>, !.on_ephemeral = FALSE]
           s == [r EXCEPT !.heal = g]
<1>1. CASE Cardinality(p.ids) > IdCap
  BY <1>1 DEF on_want, Same
<1>2. CASE ~(Cardinality(p.ids) > IdCap)
  <2>1. h \in Heals
    BY RowFields DEF RowInv
  <2>2. on_want(r, p) = retransmit(s, p.ids \cap r.have)
    <3>1. s = [r EXCEPT !.heal.probes = <<>>, !.heal.ready = <<>>, !.heal.on_ephemeral = FALSE]
      BY <2>1, RowFields DEF Heals, RowInv
    <3> QED
      BY <1>2, <3>1 DEF on_want
  <2>3. g \in Heals /\ g.ready \in Seq(Searches) /\ Current(g)
    <3>1. g \in Heals /\ g.ready = <<>> /\ ~g.on_ephemeral
      BY <2>1, Answered, Zenon
    <3>2. <<>> \in Seq(Searches)
      OBVIOUS
    <3> HIDE DEF g
    <3> QED
      BY <3>1, <3>2, Zenon DEF Current
  <2> HIDE DEF g
  <2>4. Same(r, s, K)
    BY <2>3, SetHeal
  <2>5. p.ids \cap r.have \in SUBSET s.have
    BY <2>4 DEF Same
  <2> HIDE DEF s
  <2>6. Same(s, retransmit(s, p.ids \cap r.have), K)
    BY <2>4, <2>5, Retransmit DEF Same
  <2> QED
    BY <2>2, <2>4, <2>6 DEF Same
<1> QED
  BY <1>1, <1>2

\* on_have asks for what is missing, or ends the search.
LEMMA OnHave ==
    ASSUME NEW K, NEW r, RowInv(r, K), NEW p \in Searches
    PROVE  Same(r, on_have(r, p), K)
<1> DEFINE missing == p.ids \ r.have
<1>0. p.lo \in Bounds /\ p.hi \in Bounds /\ missing \in SUBSET Ids
  BY DEF Searches, Packets
<1>1. CASE Cardinality(p.ids) > IdCap
  BY <1>1 DEF on_have, Same
<1>2. CASE ~(Cardinality(p.ids) > IdCap) /\ missing = {}
  BY <1>2, SetIdle DEF on_have
<1>3. CASE ~(Cardinality(p.ids) > IdCap) /\ missing # {}
  <2>1. on_have(r, p) = replace_probes(r, <<Want(p.lo, p.hi, missing)>>)
    BY <1>3 DEF on_have
  <2> HIDE DEF missing
  <2>2. <<Want(p.lo, p.hi, missing)>> \in Seq(Probes) /\ <<Want(p.lo, p.hi, missing)>> # <<>>
    BY <1>0, ProbeTypes
  <2> QED
    BY <2>1, <2>2, ReplaceProbes
<1> QED
  BY <1>1, <1>2, <1>3

\* The clock of a search, and its mark for another sealing, say nothing about
\* its copies.
LEMMA SetFlags ==
    ASSUME NEW K, NEW r, RowInv(r, K), NEW late \in BOOLEAN, NEW reseal \in BOOLEAN
    PROVE  /\ Same(r, [r EXCEPT !.heal.late = late], K)
           /\ Same(r, [r EXCEPT !.heal.needs_reseal = reseal], K)
<1> DEFINE h  == r.heal
           g1 == [h EXCEPT !.late = late]
           g2 == [h EXCEPT !.needs_reseal = reseal]
<1>1. h \in Heals /\ h.ready \in Seq(Searches) /\ Current(h)
  BY RowFields DEF RowInv
<1>2. /\ g1 \in Heals /\ g1.ready \in Seq(Searches) /\ Current(g1)
      /\ g2 \in Heals /\ g2.ready \in Seq(Searches) /\ Current(g2)
  BY <1>1 DEF Heals, Current
<1>3. /\ [r EXCEPT !.heal.late = late] = [r EXCEPT !.heal = g1]
      /\ [r EXCEPT !.heal.needs_reseal = reseal] = [r EXCEPT !.heal = g2]
  BY <1>1, RowFields DEF Heals, RowInv
<1> HIDE DEF g1, g2
<1> QED
  BY <1>2, <1>3, SetHeal

\* on_heal_packet
LEMMA OnHealPacket ==
    ASSUME NEW K, NEW r, RowInv(r, K), NEW p \in Searches
    PROVE  Same(r, on_heal_packet(r, p), K)
<1> DEFINE fresh == [r EXCEPT !.heal.late = @ /\ ~r.heal.on_ephemeral]
<1>1. Same(r, fresh, K)
  <2>1. PICK late \in BOOLEAN : late = (r.heal.late /\ ~r.heal.on_ephemeral)
    BY Zenon
  <2>2. fresh = [r EXCEPT !.heal.late = late]
    BY <2>1, Zenon
  <2> HIDE DEF fresh
  <2>3. Same(r, [r EXCEPT !.heal.late = late], K)
    BY SetFlags
  <2> QED
    BY <2>2, <2>3
<1>2. on_heal_packet(r, p) = CASE p.kind = "half" -> on_half(fresh, p)
                               [] p.kind = "want" -> on_want(fresh, p)
                               [] p.kind = "have" -> on_have(fresh, p)
  BY DEF on_heal_packet
<1> HIDE DEF fresh
<1>3. RowInv(fresh, K) /\ fresh.have = r.have
  BY <1>1 DEF Same
<1>4. p.kind \in {"half", "want", "have"}
  BY DEF Searches
<1>5. CASE p.kind = "half"
  BY <1>2, <1>3, <1>5, OnHalf DEF Same
<1>6. CASE p.kind = "want"
  BY <1>2, <1>3, <1>6, OnWant DEF Same
<1>7. CASE p.kind = "have"
  BY <1>2, <1>3, <1>7, OnHave DEF Same
<1> QED
  BY <1>4, <1>5, <1>6, <1>7

\* A row to which helpers are applied one after the other.
LEMMA SameTrans ==
    ASSUME NEW K, NEW r, NEW s, NEW t, Same(r, s, K), Same(s, t, K)
    PROVE  Same(r, t, K)
BY DEF Same

\* A row gets a transaction of K.
LEMMA Gets ==
    ASSUME NEW K, NEW r, RowInv(r, K), NEW id \in K, id \in Ids
    PROVE  /\ RowInv([r EXCEPT !.have = @ \cup {id}], K)
           /\ [r EXCEPT !.have = @ \cup {id}].have = r.have \cup {id}
<1> DEFINE have == r.have \cup {id}
<1>2. r.have \subseteq K /\ Current(r.heal)
  BY DEF RowInv, RowTypes
<1>3. have \in SUBSET Ids /\ have \subseteq K
  BY <1>2, RowFields DEF RowInv
<1>0. [r EXCEPT !.have = @ \cup {id}] = [r EXCEPT !.have = have]
  OBVIOUS
<1> HIDE DEF have
<1> DEFINE s == [r EXCEPT !.have = have]
<1>1. s = [have |-> have, heal |-> r.heal, live |-> r.live, chain |-> r.chain,
                                  writes |-> r.writes, eph_writes |-> r.eph_writes]
  BY RowFields DEF RowInv
<1>5. /\ r.heal \in Heals /\ r.live \in Lives /\ r.chain \in Chains /\ r.heal.ready \in Seq(Searches)
      /\ r.writes \in Seq(Durables(K)) /\ r.eph_writes \in Seq(Volatile)
  BY RowFields DEF RowInv
<1> HIDE DEF s
<1>4. RowInv(s, K)
  BY <1>1, <1>2, <1>3, <1>5, RowFromFields
<1> QED
  BY <1>0, <1>1, <1>4 DEF have, s

\* A row whose chain changes.
LEMMA SetChain ==
    ASSUME NEW K, NEW r, RowInv(r, K), NEW chain \in Chains
    PROVE  Same(r, [r EXCEPT !.chain = chain], K)
<1> DEFINE s == [r EXCEPT !.chain = chain]
<1>1. s = [have |-> r.have, heal |-> r.heal, live |-> r.live, chain |-> chain,
                                    writes |-> r.writes, eph_writes |-> r.eph_writes]
  BY RowFields DEF RowInv
<1>3. /\ r.heal \in Heals /\ r.live \in Lives /\ r.heal.ready \in Seq(Searches) /\ Current(r.heal)
      /\ r.writes \in Seq(Durables(K)) /\ r.eph_writes \in Seq(Volatile)
      /\ r.have \in SUBSET Ids /\ r.have \subseteq K
  BY RowFields DEF RowInv
<1> HIDE DEF s
<1>2. RowInv(s, K)
  BY <1>1, <1>3, RowFromFields
<1>4. s.have = r.have
  BY <1>1
<1> QED
  BY <1>2, <1>4 DEF Same, s

\* Opening a packet leaves a chain.
LEMMA Walked ==
    ASSUME NEW c \in Chains, NEW at \in Nat
    PROVE  walked(c, at) \in Chains
<1>1. c.recv \in Nat /\ c.skipped \in SUBSET Nat
  BY DEF Chains
<1>2. c.recv .. (at - 1) \subseteq Nat /\ 0 .. (at - 1) \subseteq Nat /\ at + 1 \in Nat
  BY <1>1
<1>3. CASE at \in c.skipped
  BY <1>3 DEF walked
<1>4. CASE at \notin c.skipped /\ at \in Ahead(c)
  <2>1. walked(c, at) = [c EXCEPT !.recv = at + 1, !.skipped = @ \cup c.recv .. (at - 1)]
    BY <1>4 DEF walked
  <2>2. c.skipped \cup c.recv .. (at - 1) \in SUBSET Nat
    BY <1>1, <1>2
  <2> QED
    BY <1>2, <2>1, <2>2 DEF Chains
<1>5. CASE at \notin c.skipped /\ at \notin Ahead(c)
  <2>1. walked(c, at) = [c EXCEPT !.skipped = @ \cup 0 .. (at - 1)]
    BY <1>5 DEF walked
  <2>2. c.skipped \cup 0 .. (at - 1) \in SUBSET Nat
    BY <1>1, <1>2
  <2> QED
    BY <2>1, <2>2 DEF Chains
<1> QED
  BY <1>3, <1>4, <1>5

\* s comes of r by a packet that brings at most one transaction.
Brings(r, s, K) == RowInv(s, K) /\ (s.have = r.have \/ \E id \in K : s.have = r.have \cup {id})

\* A durable packet that opened brings at most the transaction it is of.
LEMMA Merge ==
    ASSUME NEW K \in SUBSET Ids, NEW r, RowInv(r, K), NEW p \in Durables(K)
    PROVE  Brings(r, merge(r, p), K)
<1>1. CASE p.kind = "tx"
  <2> DEFINE s == [r EXCEPT !.have = @ \cup {p.lo}]
  <2>1. p.lo \in K
    BY <1>1 DEF Durables
  <2>2. RowInv(s, K) /\ s.have = r.have \cup {p.lo}
    BY <2>1, Gets
  <2>3. merge(r, p) = note_set_xor(s, p.ids)
    BY <1>1 DEF merge
  <2> HIDE DEF s
  <2>4. Same(s, note_set_xor(s, p.ids), K)
    BY <2>2, NoteSetXor
  <2> QED
    BY <2>1, <2>2, <2>3, <2>4 DEF Same, Brings
<1>2. CASE p.kind # "tx"
  <2>1. p \in Searches
    BY <1>2 DEF Durables, Searches, Packets
  <2>2. Same(r, on_heal_packet(r, p), K)
    BY <2>1, OnHealPacket
  <2>3. merge(r, p) = on_heal_packet(r, p)
    BY <1>2 DEF merge
  <2> QED
    BY <2>2, <2>3 DEF Same, Brings
<1> QED
  BY <1>1, <1>2

\* So does a durable packet, whether or not a key opens it.
LEMMA OpenAndMerge ==
    ASSUME NEW K \in SUBSET Ids, NEW r, RowInv(r, K), NEW p \in Durables(K), NEW kept \in SUBSET Nat
    PROVE  Brings(r, open_and_merge(r, p, kept), K)
<1> DEFINE c == [r.chain EXCEPT !.skipped = kept]
           s == [r EXCEPT !.chain = walked(c, p.at)]
<1>1. c \in Chains /\ p.at \in Nat
  <2>1. r.chain \in Chains
    BY RowFields DEF RowInv
  <2>2. c \in Chains
    BY <2>1 DEF Chains
  <2> QED
    BY <2>2 DEF Durables, Packets
<1>2. walked(c, p.at) \in Chains
  <2> HIDE DEF c
  <2> QED
    BY <1>1, Walked
<1>3. open_and_merge(r, p, kept) = IF opens(c, p.at) THEN merge(s, p) ELSE r
  BY DEF open_and_merge
<1> HIDE DEF c
<1>4. Same(r, s, K)
  BY <1>2, SetChain
<1> HIDE DEF s
<1>5. Brings(s, merge(s, p), K)
  BY <1>4, Merge DEF Same
<1> QED
  BY <1>3, <1>4, <1>5 DEF Same, Brings

\* A row whose live window changes.
LEMMA SetLive ==
    ASSUME NEW K, NEW r, RowInv(r, K), NEW live \in Lives
    PROVE  Same(r, [r EXCEPT !.live = live], K)
<1> DEFINE s == [r EXCEPT !.live = live]
<1>1. s = [have |-> r.have, heal |-> r.heal, live |-> live, chain |-> r.chain,
                                  writes |-> r.writes, eph_writes |-> r.eph_writes]
  BY RowFields DEF RowInv
<1>2. r.have \subseteq K /\ Current(r.heal)
  BY DEF RowInv, RowTypes
<1>4. /\ r.heal \in Heals /\ r.chain \in Chains /\ r.heal.ready \in Seq(Searches)
      /\ r.writes \in Seq(Durables(K)) /\ r.eph_writes \in Seq(Volatile) /\ r.have \in SUBSET Ids
  BY RowFields DEF RowInv
<1> HIDE DEF s
<1>3. RowInv(s, K)
  BY <1>1, <1>2, <1>4, RowFromFields
<1>5. s.have = r.have
  BY <1>1
<1> QED
  BY <1>3, <1>5 DEF Same, s

\* An ephemeral packet brings no transaction.
LEMMA ObserveEphemeral ==
    ASSUME NEW K, NEW r, RowInv(r, K), NEW p \in Ephemerals
    PROVE  Same(r, observe_ephemeral(r, p), K)
<1>1. Same(r, note_live(r), K) /\ Same(r, r, K)
  <2>1. Ephemeral
    BY DEF Ephemerals
  <2>2. "live" \in Lives
    BY <2>1 DEF Lives
  <2> QED
    BY <2>2, SetLive DEF note_live, Same
<1>4. CASE p.at # r.chain.recv
  BY <1>1, <1>4 DEF observe_ephemeral
<1>2. CASE p.at = r.chain.recv /\ p.kind = "ack"
  <2> DEFINE s == IF r.have = p.ids THEN note_live(r) ELSE r
  <2>1. Same(r, s, K)
    BY <1>1
  <2>2. observe_ephemeral(r, p) = note_set_xor(s, p.ids)
    BY <1>2 DEF observe_ephemeral
  <2> HIDE DEF s
  <2>3. Same(s, note_set_xor(s, p.ids), K)
    BY <2>1, NoteSetXor DEF Same
  <2> QED
    BY <2>1, <2>2, <2>3, SameTrans
<1>3. CASE p.at = r.chain.recv /\ p.kind # "ack"
  <2> DEFINE s == IF r.live # "never" THEN note_live(r) ELSE r
  <2>1. Same(r, s, K)
    BY <1>1
  <2>2. observe_ephemeral(r, p) = on_heal_packet(s, p)
    BY <1>3 DEF observe_ephemeral
  <2>3. p \in Searches
    BY <1>3 DEF Ephemerals, Searches, Packets
  <2> HIDE DEF s
  <2>4. Same(s, on_heal_packet(s, p), K)
    BY <2>1, <2>3, OnHealPacket DEF Same
  <2> QED
    BY <2>1, <2>2, <2>4, SameTrans
<1> QED
  BY <1>2, <1>3, <1>4

\* reseal_due
LEMMA ResealDue ==
    ASSUME NEW K, NEW r, RowInv(r, K)
    PROVE  Same(r, reseal_due(r), K)
<1>1. CASE r.heal.on_ephemeral
  <2>1. r.heal.probes # <<>>
    BY <1>1 DEF RowInv, Current
  <2>2. Same(r, post_heal(r), K) /\ Same(r, r, K)
    BY <2>1, PostHeal DEF RowInv, Same
  <2> QED
    BY <2>2 DEF reseal_due
<1>2. CASE ~r.heal.on_ephemeral
  BY <1>2 DEF reseal_due, Same
<1> QED
  BY <1>1, <1>2

\* A search whose copies were posted.
LEMMA Committed ==
    ASSUME NEW h \in Heals, NEW g,
           g = [h EXCEPT !.ready = <<>>, !.sealed = "none", !.on_ephemeral = FALSE,
                         !.fell_back = TRUE, !.needs_reseal = FALSE]
    PROVE  /\ g \in Heals /\ g.ready = <<>>
           /\ ~g.on_ephemeral /\ ~g.needs_reseal
<1>1. <<>> \in Seq(Packets)
  OBVIOUS
<1> QED
  BY <1>1, Zenon DEF Heals

\* commit_ready posts the copies.
LEMMA CommitReady ==
    ASSUME NEW K, NEW r, RowInv(r, K)
    PROVE  /\ Same(r, commit_ready(r), K)
           /\ ~commit_ready(r).heal.on_ephemeral
           /\ commit_ready(r).writes = r.writes \o r.heal.ready
<1> DEFINE h == r.heal
           chain == [r.chain EXCEPT !.send = @ + Len(h.ready)]
           g == [h EXCEPT !.ready = <<>>, !.sealed = "none", !.on_ephemeral = FALSE,
                          !.fell_back = TRUE, !.needs_reseal = FALSE]
<1>1. /\ h \in Heals /\ r.live \in Lives /\ r.have \in SUBSET Ids /\ r.have \subseteq K
      /\ r.writes \in Seq(Durables(K)) /\ r.eph_writes \in Seq(Volatile)
      /\ h.ready \in Seq(Durables(K)) /\ r.chain \in Chains
  BY RowFields, SearchTypes, SeqMonotonic DEF RowInv
<1>0. chain \in Chains
  <2>1. Len(h.ready) \in Nat
    BY <1>1
  <2> QED
    BY <1>1, <2>1, Sends
<1>2. g \in Heals /\ g.ready \in Seq(Searches) /\ Current(g) /\ ~g.on_ephemeral
  <2>1. g \in Heals /\ g.ready = <<>> /\ ~g.on_ephemeral
    BY <1>1, Committed, Zenon
  <2>2. <<>> \in Seq(Searches)
    OBVIOUS
  <2> HIDE DEF g
  <2> QED
    BY <2>1, <2>2, Zenon DEF Current
<1>3. commit_ready(r) = [r EXCEPT !.writes = @ \o h.ready, !.chain = chain, !.heal = g]
  <2>1. commit_ready(r) = [r EXCEPT !.writes = @ \o h.ready, !.chain.send = @ + Len(h.ready), !.heal = g]
    BY DEF commit_ready
  <2> HIDE DEF g
  <2> QED
    BY <2>1
<1>4. r.writes \o h.ready \in Seq(Durables(K))
  BY <1>1
<1> HIDE DEF g, chain
<1>5. commit_ready(r) = [have |-> r.have, heal |-> g, live |-> r.live, chain |-> chain,
                         writes |-> r.writes \o h.ready, eph_writes |-> r.eph_writes]
  BY <1>3, RowFields DEF RowInv
<1>6. RowInv(commit_ready(r), K)
  BY <1>0, <1>1, <1>2, <1>4, <1>5, RowFromFields
<1>7. commit_ready(r).have = r.have /\ commit_ready(r).heal = g /\ commit_ready(r).writes = r.writes \o h.ready
  <2> DEFINE out == r.writes \o h.ready
  <2>1. commit_ready(r) = [have |-> r.have, heal |-> g, live |-> r.live, chain |-> chain,
                           writes |-> out, eph_writes |-> r.eph_writes]
    BY <1>5
  <2> HIDE DEF out
  <2>2. commit_ready(r).have = r.have /\ commit_ready(r).heal = g /\ commit_ready(r).writes = out
    BY <2>1
  <2> QED
    BY <2>2 DEF out
<1> QED
  BY <1>2, <1>6, <1>7, Zenon DEF Same

\* flush_heal
LEMMA FlushHeal ==
    ASSUME NEW K, NEW r, RowInv(r, K)
    PROVE  Same(r, flush_heal(r), K)
<1>1. Same(r, [r EXCEPT !.heal.needs_reseal = TRUE], K)
  BY SetFlags
<1>2. Same(r, commit_ready(r), K) /\ Same(r, r, K)
  BY CommitReady DEF Same
<1> QED
  BY <1>1, <1>2 DEF flush_heal

\* A search on the ephemeral path, once its window is over.
LEMMA FallsBack ==
    ASSUME NEW K, NEW r, RowInv(r, K), r.heal.on_ephemeral, r.writes = <<>>
    PROVE  LET after == reseal_due(flush_heal([r EXCEPT !.heal.late = TRUE]))
           IN  ~after.heal.on_ephemeral /\ Len(after.writes) = Len(r.heal.probes)
<1> DEFINE h == r.heal
           g == [h EXCEPT !.late = TRUE]
           s == [r EXCEPT !.heal = g]
           f == flush_heal(s)
<1>1. h \in Heals /\ h.ready \in Seq(Searches) /\ h.probes # <<>> /\ ~h.fell_back /\ Current(h)
  BY RowFields DEF RowInv, Current
<1>2. s = [r EXCEPT !.heal.late = TRUE]
  BY <1>1, RowFields DEF RowInv, Heals
<1>3. /\ g \in Heals /\ g.ready = h.ready /\ g.sealed = h.sealed /\ g.probes = h.probes
      /\ g.on_ephemeral = h.on_ephemeral /\ g.fell_back = h.fell_back /\ g.late
  BY <1>1, Zenon DEF Heals
<1>4. Current(g)
  BY <1>1, <1>3, Zenon DEF Current
<1> HIDE DEF g
<1>5. Same(r, s, K) /\ s.heal = g /\ s.writes = <<>>
  BY <1>1, <1>3, <1>4, SetHeal
<1> HIDE DEF s
<1>6. fallback_due(s.heal)
  BY <1>1, <1>3, <1>5, Zenon DEF fallback_due
<1>7. CASE h.ready = <<>>
  <2> DEFINE u == [g EXCEPT !.needs_reseal = TRUE]
             t == [s EXCEPT !.heal = u]
  <2>1. f = t
    <3>1. f = [s EXCEPT !.heal.needs_reseal = TRUE]
      BY <1>3, <1>5, <1>6, <1>7 DEF flush_heal
    <3>2. s.heal = g /\ RowInv(s, K)
      BY <1>5 DEF Same
    <3> QED
      BY <3>1, <3>2, RowFields DEF RowInv, Heals
  <2>2. /\ u \in Heals /\ u.needs_reseal /\ u.on_ephemeral /\ u.probes = h.probes
        /\ u.ready = h.ready
    BY <1>3, Zenon DEF Heals
  <2> HIDE DEF u
  <2>3. RowTypes(t, K) /\ t.heal = u /\ t.writes = <<>>
    BY <1>1, <1>5, <2>2, SetHeal DEF Same
  <2> HIDE DEF t, f
  <2>4. reseal_due(f) = post_heal(t)
    BY <2>1, <2>2, <2>3, Zenon DEF reseal_due
  <2>5. /\ ~post_heal(t).heal.on_ephemeral
        /\ Len(post_heal(t).writes) = Len(t.writes) + Len(t.heal.probes)
    BY <1>1, <2>2, <2>3, PostHeal
  <2>6. Len(t.writes) = 0 /\ t.heal.probes = h.probes /\ Len(h.probes) \in Nat
    BY <1>1, <2>2, <2>3 DEF Heals
  <2> QED
    BY <1>2, <2>4, <2>5, <2>6 DEF f
<1>8. CASE h.ready # <<>>
  <2>1. Len(h.ready) = Len(h.probes) /\ h.sealed = "same"
    BY <1>1, <1>8 DEF Current
  <2>2. f = commit_ready(s)
    BY <1>3, <1>5, <1>6, <1>8, <2>1 DEF flush_heal, sealed_matches
  <2> HIDE DEF f
  <2>3. ~f.heal.on_ephemeral /\ f.writes = s.writes \o s.heal.ready
    BY <1>5, <2>2, CommitReady DEF Same
  <2>4. f.writes = h.ready
    BY <1>1, <1>3, <1>5, <2>3
  <2>5. reseal_due(f) = f
    BY <2>3, Zenon DEF reseal_due
  <2> QED
    BY <1>2, <2>1, <2>3, <2>4, <2>5 DEF f
<1> QED
  BY <1>7, <1>8

-----------------------------------------------------------------------------
(* The state *)

\* The sets of transactions, as SetSync sees them.
haves == [p \in Parties |-> row[p].have]

\* A packet stays fine when there are more transactions, and so does a row.
LEMMA RowMono ==
    ASSUME NEW K, NEW L, K \subseteq L, NEW r, RowInv(r, K)
    PROVE  RowInv(r, L) /\ Durables(K) \subseteq Durables(L)
<1>1. Durables(K) \subseteq Durables(L)
  BY DEF Durables
<1>2. r.writes \in Seq(Durables(L))
  BY <1>1, SeqMonotonic DEF RowInv, RowTypes
<1> QED
  BY <1>1, <1>2 DEF RowInv, RowTypes

\* The row that is kept after a call.
LEMMA Cleaned ==
    ASSUME NEW K, NEW r, RowInv(r, K)
    PROVE  /\ Same(r, [r EXCEPT !.writes = <<>>, !.eph_writes = <<>>], K)
           /\ [r EXCEPT !.writes = <<>>, !.eph_writes = <<>>].writes = <<>>
<1> DEFINE s == [have |-> r.have, heal |-> r.heal, live |-> r.live, chain |-> r.chain,
                 writes |-> <<>>, eph_writes |-> <<>>]
<1> DEFINE t == [r EXCEPT !.writes = <<>>]
<1>1. [r EXCEPT !.writes = <<>>, !.eph_writes = <<>>] = s
  <2>1. t = [have |-> r.have, heal |-> r.heal, live |-> r.live, chain |-> r.chain,
             writes |-> <<>>, eph_writes |-> r.eph_writes]
    BY RowFields DEF RowInv
  <2>2. [r EXCEPT !.writes = <<>>, !.eph_writes = <<>>] = [t EXCEPT !.eph_writes = <<>>]
    OBVIOUS
  <2> HIDE DEF t
  <2>3. [t EXCEPT !.eph_writes = <<>>] = s
    BY <2>1
  <2> QED
    BY <2>2, <2>3
<1>2. r.have \subseteq K /\ Current(r.heal)
  BY DEF RowInv, RowTypes
<1>3. <<>> \in Seq(Durables(K)) /\ <<>> \in Seq(Volatile)
  OBVIOUS
<1>4. RowInv(s, K)
  BY <1>2, <1>3, RowFields, RowFromFields DEF RowInv
<1> QED
  BY <1>1, <1>4 DEF Same

\* What the channels of the ephemeral path hold.
LEMMA Broadcast ==
    ASSUME NEW queue \in Seq(Ephemerals), NEW packets \in Seq(Volatile)
    PROVE  broadcast(queue, packets) \in Seq(Ephemerals)
<1>1. packets \in Seq(Ephemerals)
  BY SearchTypes, SeqMonotonic
<1> DEFINE all == queue \o packets
           n   == Min({Len(queue) + Len(packets), MaxAir})
<1>2. all \in Seq(Ephemerals) /\ Len(all) = Len(queue) + Len(packets)
  BY <1>1
<1>3. n \in 0 .. Len(all)
  <2>1. Len(all) \in Nat /\ MaxAir \in Nat
    BY <1>2, HealAssumption
  <2>2. \E x \in {Len(all), MaxAir} : \A y \in {Len(all), MaxAir} : x <= y
    BY <2>1
  <2>3. n \in {Len(all), MaxAir} /\ \A y \in {Len(all), MaxAir} : n <= y
    BY <1>2, <2>2 DEF Min
  <2> QED
    BY <2>1, <2>3
<1>4. broadcast(queue, packets) = SubSeq(all, 1, n)
  BY DEF broadcast
<1> HIDE DEF all, n
<1> QED
  BY <1>2, <1>3, <1>4

\* A row takes its place in the state, and what it has to post is posted.
LEMMA Commit ==
    ASSUME IInv, NEW p \in Parties, NEW L \in SUBSET Ids, NEW r, RowInv(r, L),
           Known \subseteq L, L \subseteq Known \cup r.have, row[p].have \subseteq r.have,
           NEW rest \in Seq(posted), commit(p, r, rest),
           air' \in [Parties -> Seq(Ephemerals)], faults' \in 0 .. MaxFaults
    PROVE  IInv' /\ haves' = [haves EXCEPT ![p] = r.have]
<1> DEFINE s == [r EXCEPT !.writes = <<>>, !.eph_writes = <<>>]
<1>1. RowInv(s, L) /\ s.have = r.have /\ s.writes = <<>>
  BY Cleaned DEF Same
<1>2. row' = [row EXCEPT ![p] = s] /\ row \in [Parties -> Rows]
  BY DEF commit, IInv, TypeOK
<1> HIDE DEF s
<1>3. \A q \in Parties : RowInv(row'[q], L) /\ row'[q].writes = <<>>
  <2> TAKE q \in Parties
  <2>1. CASE q = p
    BY <1>1, <1>2, <2>1
  <2>2. CASE q # p
    BY <1>2, <2>2, RowMono DEF IInv
  <2> QED
    BY <2>1, <2>2
<1>4. haves' = [haves EXCEPT ![p] = r.have]
  BY <1>1, <1>2 DEF haves
<1>5. Known' = L
  <2>1. \A q \in Parties : row'[q].have = IF q = p THEN r.have ELSE row[q].have
    BY <1>1, <1>2
  <2>2. Known' = UNION {row'[q].have : q \in Parties} /\ Known = UNION {row[q].have : q \in Parties}
    BY DEF Known, Sync!Everywhere
  <2>3. Known' \subseteq L
    BY <1>3, <2>2 DEF RowInv, RowTypes
  <2>4. L \subseteq Known'
    BY <2>1, <2>2
  <2> QED
    BY <2>3, <2>4
<1>6. posted' \subseteq Durables(L) /\ r.writes \in Seq(posted') /\ posted \subseteq posted'
  <2>1. posted' = posted \cup Range(r.writes)
    BY DEF commit
  <2>2. r.writes \in Seq(Durables(L))
    BY DEF RowInv, RowTypes
  <2>3. Range(r.writes) \subseteq Durables(L) /\ r.writes \in Seq(Range(r.writes))
    BY <2>2, RangeOfSeq, SeqOfRange
  <2>4. posted \subseteq Durables(L)
    BY RowMono DEF IInv
  <2> QED
    BY <2>1, <2>3, <2>4, SeqMonotonic
<1>7. unread' \in [Parties -> Seq(posted')]
  <2>1. unread' = [q \in Parties |-> (IF q = p THEN rest ELSE unread[q]) \o r.writes]
    BY DEF commit
  <2>2. \A q \in Parties : unread[q] \in Seq(posted') /\ rest \in Seq(posted')
    BY <1>6, SeqMonotonic DEF IInv, TypeOK
  <2> QED
    BY <1>6, <2>1, <2>2
<1>8. row' \in [Parties -> Rows]
  <2>1. s \in Rows
    BY <1>1 DEF RowInv, RowTypes
  <2> QED
    BY <1>2, <2>1
<1>9. posted' \in SUBSET Packets /\ air' \in [Parties -> Seq(Packets)]
  <2>1. Ephemerals \subseteq Packets /\ Durables(L) \subseteq Packets
    BY DEF Ephemerals, Durables
  <2> QED
    BY <1>6, <2>1, SeqMonotonic
<1>10. TypeOK'
  BY <1>7, <1>8, <1>9 DEF TypeOK
<1>11. (\A q \in Parties : RowInv(row[q], Known) /\ row[q].writes = <<>>)'
  BY <1>3, <1>5
<1>12. (posted \subseteq Durables(Known))'
  BY <1>5, <1>6
<1> QED
  BY <1>4, <1>10, <1>11, <1>12 DEF IInv

\* What a step does to the sets: nothing, or what a step of SetSync does.
SyncStep == UNCHANGED haves \/ Sync!Next

\* A party gets a transaction that some party has, or none.
LEMMA Fetch ==
    ASSUME IInv, NEW p \in Parties, NEW set,
           set = row[p].have \/ \E id \in Known : set = row[p].have \cup {id},
           haves' = [haves EXCEPT ![p] = set]
    PROVE  SyncStep
<1>1. haves[p] = row[p].have /\ haves \in [Parties -> SUBSET Ids]
  BY DEF haves, IInv, TypeOK, Rows
<1>2. CASE set = row[p].have
  BY <1>1, <1>2 DEF SyncStep
<1>3. CASE set # row[p].have
  <2>1. PICK id \in Known : set = row[p].have \cup {id}
    BY <1>3
  <2>2. id \in Known \ haves[p] /\ id \in Ids
    BY <1>1, <1>3, <2>1 DEF Known, Sync!Everywhere, haves
  <2>3. haves' = [haves EXCEPT ![p] = @ \cup {id}]
    BY <1>1, <2>1
  <2>4. Sync!Copy(p, id)
    BY <2>2, <2>3 DEF Sync!Copy, haves, Known
  <2> QED
    BY <2>2, <2>4 DEF SyncStep, Sync!Next, Sync!Copies
<1> QED
  BY <1>2, <1>3

\* A conversation in which packets were missed is fine.
LEMMA InitInv == Init => IInv /\ Sync!Init
<1> SUFFICES ASSUME Init PROVE IInv /\ Sync!Init
  OBVIOUS
<1> DEFINE a == CHOOSE q \in Parties : TRUE
<1> DEFINE start(q, n) == [send |-> IF q = a /\ posted # {} THEN n + 1 ELSE n, recv |-> n, skipped |-> {}]
<1>1. PICK sets \in [Parties -> SUBSET Ids], live \in Lives \ {"past"}, n \in {0, SkipAhead + 1} :
        /\ \/ /\ \E id \in sets[a] : posted = {TxFragLast(id, sets[a], n)}
              /\ air = [q \in Parties |-> <<>>]
           \/ /\ Ephemeral
              /\ posted = {}
              /\ air = [q \in Parties |-> IF q = a THEN <<>> ELSE <<XorAck(sets[a], n)>>]
        /\ row = [q \in Parties |-> [have |-> sets[q], heal |-> Idle, live |-> live,
                                     chain |-> start(q, n), writes |-> <<>>, eph_writes |-> <<>>]]
        /\ unread = [q \in Parties |-> SetToSeq(posted)]
        /\ faults = 0
  BY DEF Init
<1>2. a \in Parties
  <2>1. Parties # {}
    BY HealAssumption, FS_EmptySet
  <2> QED
    BY <2>1
<1>0. n \in Nat /\ \A q \in Parties : start(q, n) \in Chains
  <2>1. n \in Nat
    BY <1>1, HealAssumption
  <2> QED
    BY <2>1 DEF Chains
<1> HIDE DEF a, start
<1>3. \A q \in Parties : sets[q] \subseteq Known
  BY <1>1 DEF Known, Sync!Everywhere
<1>4. \A q \in Parties : RowInv(row[q], Known) /\ row[q].writes = <<>>
  <2>1. Idle \in Heals /\ Idle.ready \in Seq(Searches) /\ Current(Idle)
    BY DEF Idle, Heals, Current
  <2>2. <<>> \in Seq(Durables(Known)) /\ <<>> \in Seq(Volatile)
    OBVIOUS
  <2> TAKE q \in Parties
  <2>3. sets[q] \in SUBSET Ids /\ sets[q] \subseteq Known /\ live \in Lives
    BY <1>3
  <2>4. RowInv([have |-> sets[q], heal |-> Idle, live |-> live, chain |-> start(q, n),
                writes |-> <<>>, eph_writes |-> <<>>], Known)
    BY <1>0, <2>1, <2>2, <2>3, RowFromFields
  <2> QED
    BY <1>1, <2>4
<1>5. row \in [Parties -> Rows]
  BY <1>1, <1>4 DEF RowInv, RowTypes
<1>6. posted \subseteq Durables(Known) /\ IsFiniteSet(posted)
  <2>1. CASE posted = {}
    BY <2>1, FS_EmptySet
  <2>2. ASSUME NEW id \in sets[a], posted = {TxFragLast(id, sets[a], n)}
        PROVE  posted \subseteq Durables(Known) /\ IsFiniteSet(posted)
    <3>1. sets[a] \in SUBSET Ids /\ id \in Bounds /\ id \in Known
      BY <1>2, <1>3, IdBounds
    <3>2. TxFragLast(id, sets[a], n) \in Packets
      BY <1>0, <3>1 DEF TxFragLast, Packets
    <3>3. TxFragLast(id, sets[a], n) \in Durables(Known)
      BY <3>1, <3>2 DEF TxFragLast, Durables, InRange
    <3> QED
      BY <2>2, <3>3, FS_Singleton
  <2> QED
    BY <1>1, <2>1, <2>2
<1>7. unread \in [Parties -> Seq(posted)]
  BY <1>1, <1>6, SetToSeqType
<1>8. air \in [Parties -> Seq(Ephemerals)]
  <2>1. sets[a] \in SUBSET Ids /\ Zero \in Bounds /\ Top \in Bounds
    BY <1>2, HealAssumption DEF Bounds, Zero
  <2>2. XorAck(sets[a], n) \in Packets
    BY <1>0, <2>1 DEF XorAck, Packets
  <2>3. Ephemeral => XorAck(sets[a], n) \in Ephemerals
    BY <2>2 DEF XorAck, Ephemerals, InRange
  <2>4. <<>> \in Seq(Ephemerals) /\ (Ephemeral => <<XorAck(sets[a], n)>> \in Seq(Ephemerals))
    BY <2>3
  <2> QED
    BY <1>1, <2>4
<1>9. posted \in SUBSET Packets /\ air \in [Parties -> Seq(Packets)]
  <2>1. Ephemerals \subseteq Packets /\ Durables(Known) \subseteq Packets
    BY DEF Ephemerals, Durables
  <2> QED
    BY <1>6, <1>8, <2>1, SeqMonotonic
<1>10. TypeOK
  BY <1>1, <1>5, <1>7, <1>9, HealAssumption DEF TypeOK
<1>11. Sync!Init
  BY <1>1 DEF Sync!Init
<1> QED
  BY <1>4, <1>6, <1>8, <1>10, <1>11 DEF IInv

\* mint
LEMMA MintInv ==
    ASSUME IInv, NEW p \in Parties, NEW id \in Ids, mint(p, id)
    PROVE  IInv' /\ SyncStep
<1> DEFINE L == Known \cup {id}
           s == [row[p] EXCEPT !.have = @ \cup {id}]
           r == write_chain_packets(s, <<id>>)
<1>1. L \in SUBSET Ids /\ Known \subseteq L
  BY DEF Known, Sync!Everywhere, IInv, TypeOK, Rows
<1>2. RowInv(row[p], L)
  BY <1>1, RowMono DEF IInv
<1>3. RowInv(s, L) /\ s.have = row[p].have \cup {id}
  BY <1>2, Gets
<1>4. commit(p, r, unread[p]) /\ unread[p] \in Seq(posted)
  BY DEF mint, IInv, TypeOK
<1> HIDE DEF s
<1>5. <<id>> \in Seq(s.have)
  BY <1>3
<1>6. Same(s, r, L)
  BY <1>3, <1>5, WriteChain
<1>7. RowInv(r, L) /\ r.have = row[p].have \cup {id}
  BY <1>3, <1>6 DEF Same
<1>8. air' \in [Parties -> Seq(Ephemerals)] /\ faults' \in 0 .. MaxFaults
  BY HealAssumption DEF mint, IInv, TypeOK
<1>9. L \subseteq Known \cup r.have /\ row[p].have \subseteq r.have
  BY <1>7
<1> HIDE DEF r, L
<1>10. IInv' /\ haves' = [haves EXCEPT ![p] = r.have]
  BY <1>1, <1>4, <1>7, <1>8, <1>9, Commit
<1>11. Sync!Mint(p, id)
  <2>1. haves[p] = row[p].have /\ haves \in [Parties -> SUBSET Ids]
    BY DEF haves, IInv, TypeOK, Rows
  <2>2. id \notin Known
    BY DEF mint, Known, Sync!Everywhere
  <2>3. haves' = [haves EXCEPT ![p] = @ \cup {id}]
    BY <1>7, <1>10, <2>1
  <2> QED
    BY <2>2, <2>3 DEF Sync!Mint, haves, Known
<1> QED
  BY <1>10, <1>11 DEF SyncStep, Sync!Next

\* ingest_packet
LEMMA IngestInv ==
    ASSUME IInv, NEW p \in Parties, NEW i \in 1 .. Len(unread[p]),
           NEW kept \in SUBSET row[p].chain.skipped, ingest_packet(p, i, kept)
    PROVE  IInv' /\ SyncStep
<1> DEFINE s == reseal_due(row[p])
           r == open_and_merge(s, unread[p][i], kept)
           rest == RemoveAt(unread[p], i)
<1>1. Known \in SUBSET Ids /\ unread[p] \in Seq(posted) /\ posted \subseteq Durables(Known)
  BY DEF Known, Sync!Everywhere, IInv, TypeOK, Rows
<1>2. unread[p][i] \in Durables(Known)
  BY <1>1
<1>3. rest \in Seq(posted)
  BY <1>1 DEF RemoveAt
<1>4. Same(row[p], s, Known)
  BY ResealDue DEF IInv
<1>5. /\ RowInv(r, Known)
      /\ r.have = s.have \/ \E id \in Known : r.have = s.have \cup {id}
  <2>1. RowInv(s, Known)
    BY <1>4 DEF Same
  <2>2. kept \in SUBSET Nat
    BY DEF IInv, TypeOK, Rows, Chains
  <2> HIDE DEF s
  <2>3. Brings(s, r, Known)
    BY <1>1, <1>2, <2>1, <2>2, OpenAndMerge
  <2> QED
    BY <2>3 DEF Brings
<1>6. r.have = row[p].have \/ \E id \in Known : r.have = row[p].have \cup {id}
  BY <1>4, <1>5 DEF Same
<1>7. /\ commit(p, r, rest)
      /\ air' = [air EXCEPT ![other(p)] = broadcast(@, r.eph_writes)]
      /\ faults' \in 0 .. MaxFaults
  <2>1. commit(p, r, rest) /\ air' = [air EXCEPT ![other(p)] = broadcast(@, r.eph_writes)]
    BY DEF ingest_packet
  <2>2. /\ faults' = faults + (IF i = 1 THEN 0 ELSE 1) + (IF kept = row[p].chain.skipped THEN 0 ELSE 1)
        /\ faults' <= MaxFaults /\ faults \in Nat /\ MaxFaults \in Nat
    BY HealAssumption DEF ingest_packet, IInv, TypeOK
  <2>3. PICK a \in {0, 1}, b \in {0, 1} : faults' = faults + a + b
    BY <2>2
  <2> QED
    BY <2>1, <2>2, <2>3
<1>8. r.eph_writes \in Seq(Volatile)
  BY <1>5 DEF RowInv, RowTypes
<1> HIDE DEF s, r, rest
<1>9. air' \in [Parties -> Seq(Ephemerals)]
  BY <1>7, <1>8, Broadcast DEF IInv
<1>10. IInv' /\ haves' = [haves EXCEPT ![p] = r.have]
  BY <1>1, <1>3, <1>5, <1>6, <1>7, <1>9, Commit
<1> QED
  BY <1>6, <1>10, Fetch

\* ingest_list of a bin in which nothing is new
LEMMA IngestListInv ==
    ASSUME IInv, NEW p \in Parties, ingest_list(p)
    PROVE  IInv' /\ SyncStep
<1> DEFINE r == reseal_due(row[p])
           rest == unread[p]
<1>1. Known \in SUBSET Ids /\ rest \in Seq(posted)
  BY DEF Known, Sync!Everywhere, IInv, TypeOK, Rows
<1>2. RowInv(r, Known) /\ r.have = row[p].have
  BY ResealDue DEF IInv, Same
<1>3. /\ commit(p, r, rest)
      /\ air' = [air EXCEPT ![other(p)] = broadcast(@, r.eph_writes)]
      /\ faults' \in 0 .. MaxFaults
  BY DEF ingest_list, IInv, TypeOK
<1>4. r.eph_writes \in Seq(Volatile)
  BY <1>2 DEF RowInv, RowTypes
<1> HIDE DEF r, rest
<1>5. air' \in [Parties -> Seq(Ephemerals)]
  BY <1>3, <1>4, Broadcast DEF IInv
<1>6. IInv' /\ haves' = [haves EXCEPT ![p] = r.have]
  BY <1>1, <1>2, <1>3, <1>5, Commit
<1> QED
  BY <1>2, <1>6, Fetch

\* ingest_ephemeral_packet
LEMMA IngestEphemeralInv ==
    ASSUME IInv, NEW p \in Parties, ingest_ephemeral_packet(p)
    PROVE  IInv' /\ SyncStep
<1> DEFINE s == reseal_due(row[p])
           r == observe_ephemeral(s, Head(air[p]))
           rest == unread[p]
<1>1. /\ Known \in SUBSET Ids /\ rest \in Seq(posted)
      /\ air[p] \in Seq(Ephemerals) /\ air[p] # <<>>
  BY DEF Known, Sync!Everywhere, IInv, TypeOK, Rows, ingest_ephemeral_packet
<1>2. Head(air[p]) \in Ephemerals /\ Tail(air[p]) \in Seq(Ephemerals)
  BY <1>1
<1>4. Same(row[p], s, Known)
  BY ResealDue DEF IInv
<1>5. Same(s, r, Known)
  <2>1. RowInv(s, Known)
    BY <1>4 DEF Same
  <2> HIDE DEF s
  <2> QED
    BY <1>2, <2>1, ObserveEphemeral
<1>6. RowInv(r, Known) /\ r.have = row[p].have
  BY <1>4, <1>5 DEF Same
<1>7. /\ commit(p, r, rest)
      /\ air' = [air EXCEPT ![p] = Tail(@), ![other(p)] = broadcast(@, r.eph_writes)]
      /\ faults' \in 0 .. MaxFaults
  BY DEF ingest_ephemeral_packet, IInv, TypeOK
<1>8. r.eph_writes \in Seq(Volatile)
  BY <1>6 DEF RowInv, RowTypes
<1> HIDE DEF s, r, rest
<1>9. air' \in [Parties -> Seq(Ephemerals)]
  <2>1. \A queue \in Seq(Ephemerals) : broadcast(queue, r.eph_writes) \in Seq(Ephemerals)
    BY <1>8, Broadcast
  <2>2. air \in [Parties -> Seq(Ephemerals)]
    BY DEF IInv
  <2> QED
    BY <1>2, <1>7, <2>1, <2>2
<1>10. IInv' /\ haves' = [haves EXCEPT ![p] = r.have]
  BY <1>1, <1>6, <1>7, <1>9, Commit
<1> QED
  BY <1>6, <1>10, Fetch

\* tick
LEMMA TickInv ==
    ASSUME IInv, NEW p \in Parties, NEW long \in BOOLEAN, tick(p, long)
    PROVE  IInv' /\ SyncStep
<1> DEFINE s == [row[p] EXCEPT !.heal.late = row[p].heal.on_ephemeral,
                               !.live = IF long /\ @ = "live" THEN "past" ELSE @]
           r == flush_heal(s)
           rest == unread[p]
<1>1. Known \in SUBSET Ids /\ rest \in Seq(posted) /\ RowInv(row[p], Known)
  BY DEF Known, Sync!Everywhere, IInv, TypeOK, Rows
<1>2. Same(row[p], s, Known)
  <2> DEFINE t == [row[p] EXCEPT !.heal.late = row[p].heal.on_ephemeral]
             live == IF long /\ row[p].live = "live" THEN "past" ELSE row[p].live
  <2>1. row[p].heal.on_ephemeral \in BOOLEAN /\ live \in Lives
    BY <1>1, RowFields DEF Heals, Lives, RowInv
  <2>2. Same(row[p], t, Known)
    BY <1>1, <2>1, SetFlags
  <2>3. s = [t EXCEPT !.live = live]
    BY <1>1, RowFields DEF RowInv
  <2> HIDE DEF t, live
  <2>4. Same(t, [t EXCEPT !.live = live], Known)
    BY <2>1, <2>2, SetLive DEF Same
  <2> QED
    BY <2>2, <2>3, <2>4, SameTrans
<1>3. /\ commit(p, r, rest)
      /\ air' \in [Parties -> Seq(Ephemerals)]
      /\ faults' \in 0 .. MaxFaults
  BY HealAssumption DEF tick, IInv, TypeOK
<1> HIDE DEF s, rest
<1>4. Same(s, r, Known)
  BY <1>2, FlushHeal DEF Same
<1>5. RowInv(r, Known) /\ r.have = row[p].have
  BY <1>2, <1>4 DEF Same
<1> HIDE DEF r
<1>6. IInv' /\ haves' = [haves EXCEPT ![p] = r.have]
  BY <1>1, <1>3, <1>5, Commit
<1> QED
  BY <1>5, <1>6, Fetch

\* Every step keeps the invariant and is a step of SetSync or none.
LEMMA StepInv == IInv /\ [Next]_vars => IInv' /\ SyncStep
<1> SUFFICES ASSUME IInv, [Next]_vars PROVE IInv' /\ SyncStep
  OBVIOUS
<1>1. ASSUME NEW p \in Parties, Lose(p)
      PROVE  IInv' /\ SyncStep
  <2>1. air' \in [Parties -> Seq(Ephemerals)]
    BY <1>1 DEF Lose, IInv
  <2>2. air' \in [Parties -> Seq(Packets)]
    <3>1. Ephemerals \subseteq Packets
      BY DEF Ephemerals
    <3> QED
      BY <2>1, <3>1, SeqMonotonic
  <2> QED
    BY <1>1, <2>1, <2>2 DEF Lose, IInv, TypeOK, SyncStep, haves, Known, Sync!Everywhere
<1>2. ASSUME NEW p \in Parties, NEW pkt \in posted, Relist(p, pkt)
      PROVE  IInv' /\ SyncStep
  <2>1. unread' \in [Parties -> Seq(posted)] /\ faults' \in 0 .. MaxFaults
    BY <1>2, HealAssumption DEF Relist, IInv, TypeOK
  <2> QED
    BY <1>2, <2>1 DEF Relist, IInv, TypeOK, SyncStep, haves, Known, Sync!Everywhere
<1>3. CASE UNCHANGED vars
  BY <1>3 DEF vars, IInv, TypeOK, SyncStep, haves, Known, Sync!Everywhere
<1> QED
  BY <1>1, <1>2, <1>3, MintInv, IngestInv, IngestListInv, IngestEphemeralInv, TickInv DEF Next

-----------------------------------------------------------------------------
(* The theorems *)

\* Types: a search names transactions only, inside the space of ids, whatever
\* crosses, is lost or is read again.
THEOREM TypeCorrect == Spec => []TypeOK
<1>1. IInv => TypeOK
  BY DEF IInv
<1> QED
  BY <1>1, InitInv, StepInv, PTL DEF Spec

\* ReadyIsCurrent, of every reachable state: commit_ready never posts a copy
\* that was sealed at a position a transaction has used since.
THEOREM ReadyIsCurrentAlways == Spec => []ReadyIsCurrent
<1>1. IInv => ReadyIsCurrent
  BY DEF IInv, RowInv, Current, ReadyIsCurrent, sealed_matches
<1> QED
  BY <1>1, InitInv, StepInv, PTL DEF Spec

\* An unanswered search leaves the ephemeral path, from every reachable state.
THEOREM FallbackPostsAlways == Spec => []FallbackPosts
<1>1. IInv => FallbackPosts
  <2> SUFFICES ASSUME IInv, NEW p \in Parties, row[p].heal.on_ephemeral
               PROVE  LET after == reseal_due(flush_heal([row[p] EXCEPT !.heal.late = TRUE]))
                      IN  ~after.heal.on_ephemeral /\ Len(after.writes) = Len(row[p].heal.probes)
    BY DEF FallbackPosts
  <2>1. RowInv(row[p], Known) /\ row[p].writes = <<>>
    BY DEF IInv
  <2> QED
    BY <2>1, FallsBack
<1> QED
  BY <1>1, InitInv, StepInv, PTL DEF Spec

\* The search implements SetSync: every step leaves the sets of transactions
\* alone, mints a transaction, or copies one from the other party.
THEOREM Refinement == Spec => Implements
<1>1. SyncStep => [Sync!Next]_haves
  BY DEF SyncStep
<1>2. Implements <=> Sync!Init /\ [][Sync!Next]_haves
  BY DEF Implements, Sync!Spec, haves
<1> QED
  BY <1>1, <1>2, InitInv, StepInv, PTL DEF Spec
=============================================================================
