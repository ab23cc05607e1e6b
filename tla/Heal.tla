-------------------------------- MODULE Heal --------------------------------
(***************************************************************************)
(* The set-XOR search of a handshake conversation (engine/heal.rs): two    *)
(* parties whose sets of transactions differ bisect the space of ids until *)
(* a single id is left, ask for it or offer it, and send it again.         *)
(*                                                                         *)
(* An id is a number up to Top; the XOR of the ids in a range is           *)
(* represented by the set of these ids, which is to say that the XOR of    *)
(* hashes is taken to be free of collisions.  Both parties seal with the   *)
(* keys of one chain, each at a position of its own, and open with them:   *)
(* a packet too far from the reader's position stays closed.  A            *)
(* transaction is one packet; Fragments is about longer ones.  A durable   *)
(* packet is read by each party, by its sender too, in the order of the    *)
(* posts unless the channel or the host disturbs it, and again when its    *)
(* bin is listed again; an ephemeral packet is read at most once.          *)
(***************************************************************************)
EXTENDS Integers, FiniteSets, Sequences, SequencesExt

CONSTANTS
    Parties,    \* the two parties of the conversation
    Top,        \* the largest id (2^256 - 1 in the code)
    Ids,        \* the ids that transactions have
    IdCap,      \* ID_CAP: the ids one packet may name (32 in the code)
    Ephemeral,  \* whether the notice names ephemeral channels
    SkipAhead,  \* SKIP_AHEAD: how far ahead of its chain a reader looks (50)
    MaxSeq,     \* bound: the positions of a sending chain
    MaxFaults,  \* bound: mints, ticks, lost keys, and packets read out of order or again
    MaxAir      \* bound: ephemeral packets on their way to one party

Zero == 0

\* The extreme ids are hashes that do not occur: XOR cannot see id zero, and
\* Top stands for the open end of a range.
ASSUME HealAssumption ==
    /\ Cardinality(Parties) = 2
    /\ Top \in Nat \ {0}
    /\ Ids \subseteq (Zero + 1) .. (Top - 1)
    /\ IdCap \in Nat \ {0}
    /\ Ephemeral \in BOOLEAN
    /\ SkipAhead \in Nat
    /\ MaxSeq \in Nat
    /\ MaxFaults \in Nat
    /\ MaxAir \in Nat

VARIABLES
    row,     \* row[p]: the conversation on the device of p
    unread,  \* unread[p]: durable packets p has still to read, as they were listed
    posted,  \* durable packets
    air,     \* air[p]: ephemeral packets on their way to p
    faults   \* mints, ticks, lost keys, and packets read out of order or again

vars == <<row, unread, posted, air, faults>>

other(p) == CHOOSE q \in Parties : q # p

-----------------------------------------------------------------------------
(* chains.rs, payload.rs: HealProbe, Heal, the packets of the search *)

Bounds == Zero .. Top

Half(lo, hi)      == [kind |-> "half", lo |-> lo, hi |-> hi, ids |-> {}]
Want(lo, hi, ids) == [kind |-> "want", lo |-> lo, hi |-> hi, ids |-> ids]
Have(lo, hi, ids) == [kind |-> "have", lo |-> lo, hi |-> hi, ids |-> ids]

Probes == [kind : {"half", "want", "have"}, lo : Bounds, hi : Bounds, ids : SUBSET Ids]

\* A packet is sealed with the key of position at.  The last fragment of
\* transaction id names with set_xor the set of its sender.
TxFragLast(id, set, at) == [kind |-> "tx", lo |-> id, hi |-> id, ids |-> set, at |-> at]
XorAck(set, at)         == [kind |-> "ack", lo |-> Zero, hi |-> Top, ids |-> set, at |-> at]

Packets == [kind : {"half", "want", "have", "tx", "ack"}, lo : Bounds, hi : Bounds,
            ids : SUBSET Ids, at : Nat]

\* send, recv and skipped_mks of the one actor of a handshake.
Chains == [send : Nat, recv : Nat, skipped : SUBSET Nat]

\* sealed says where the durable copies in ready were sealed: nowhere, at the
\* position the sending chain still has, or at one it has left.  late: three
\* seconds have passed since sent_at.
Heals == [probes : Seq(Probes), on_ephemeral : BOOLEAN, fell_back : BOOLEAN,
          ready : Seq(Packets), sealed : {"none", "same", "moved"},
          needs_reseal : BOOLEAN, late : BOOLEAN]

Idle == [probes |-> <<>>, on_ephemeral |-> FALSE, fell_back |-> FALSE, ready |-> <<>>,
         sealed |-> "none", needs_reseal |-> FALSE, late |-> FALSE]

\* live_until is not set, ahead of the clock, or passed.
Lives == IF Ephemeral THEN {"never", "live", "past"} ELSE {"never"}

\* writes and eph_writes hold what one call posts.
Rows == [have : SUBSET Ids, heal : Heals, live : Lives, chain : Chains,
         writes : Seq(Packets), eph_writes : Seq(Packets)]

-----------------------------------------------------------------------------
(* Ranges of ids *)

\* in_range, is_inf
in_range(id, lo, hi) == id >= lo /\ (hi = Top \/ id < hi)

range_xor(ids, lo, hi) == {id \in ids : in_range(id, lo, hi)}

\* Mutant: a range counts as one id if the next id is not beyond it.
single_id_any(lo, hi) == lo # Top /\ lo + 1 <= hi

\* single_id, successor
single_id(lo, hi) == lo # Top /\ lo + 1 = hi

\* midpoint, None if it is not inside the range
mid_of(lo, hi)     == (lo + (IF hi = Top THEN Top + 1 ELSE hi)) \div 2
splits(lo, hi)     == mid_of(lo, hi) > lo /\ (hi = Top \/ mid_of(lo, hi) < hi)

\* probe_plain: a half carries the XOR of the ids the sender has now.
probe_plain(probe, have, at) ==
    [kind |-> probe.kind, lo |-> probe.lo, hi |-> probe.hi, at |-> at,
     ids  |-> IF probe.kind = "half" THEN range_xor(have, probe.lo, probe.hi) ELSE probe.ids]

-----------------------------------------------------------------------------
(* chain.rs, open_skip_ahead; open_and_merge tries the joined chain as well *)

Ahead(c) == c.recv .. c.recv + SkipAhead

\* The keys a reader has: those it skipped, the next ones and the first ones.
opens(c, at) == at \in c.skipped \/ at \in Ahead(c) \/ at \in 0 .. SkipAhead

\* The chain after it has opened a packet, with the keys it walked past.
walked(c, at) ==
    IF at \in c.skipped THEN c
    ELSE IF at \in Ahead(c)
    THEN [c EXCEPT !.recv = at + 1, !.skipped = @ \cup c.recv .. (at - 1)]
    ELSE [c EXCEPT !.skipped = @ \cup 0 .. (at - 1)]

-----------------------------------------------------------------------------
(* heal.rs: from rows to rows *)

\* fallback_due
fallback_due(h) == h.on_ephemeral /\ ~h.fell_back /\ h.late

\* sealed_matches, same_chain
sealed_matches(h) == h.sealed = "same"

\* The sending chain moves.
moved(h) == [h EXCEPT !.sealed = IF @ = "same" THEN "moved" ELSE @]

\* post_heal: the probes go out on the ephemeral path, with durable copies in
\* ready, or on the durable path.
post_heal(r) ==
    LET h       == r.heal
        use_eph == r.live = "live" /\ Ephemeral /\ ~h.fell_back /\ ~h.needs_reseal
        packets == [i \in 1 .. Len(h.probes) |->
                      probe_plain(h.probes[i], r.have, r.chain.send + i - 1)]
        eph     == [i \in 1 .. Len(h.probes) |-> probe_plain(h.probes[i], r.have, r.chain.send)]
    IN  IF h.probes = <<>> THEN r
        ELSE IF use_eph
        THEN [r EXCEPT !.eph_writes = @ \o eph,
                       !.heal = [h EXCEPT !.late = FALSE, !.on_ephemeral = TRUE,
                                          !.needs_reseal = FALSE, !.ready = packets,
                                          !.sealed = "same"]]
        ELSE [r EXCEPT !.writes = @ \o packets,
                       !.chain.send = @ + Len(packets),
                       !.heal = [h EXCEPT !.late = FALSE, !.on_ephemeral = FALSE,
                                          !.needs_reseal = FALSE, !.ready = <<>>,
                                          !.sealed = "none", !.fell_back = TRUE]]

\* commit_ready: the durable copies that were sealed for this search.
commit_ready(r) ==
    [r EXCEPT !.writes = @ \o r.heal.ready,
              !.chain.send = @ + Len(r.heal.ready),
              !.heal = [@ EXCEPT !.ready = <<>>, !.sealed = "none", !.on_ephemeral = FALSE,
                                 !.fell_back = TRUE, !.needs_reseal = FALSE]]

\* flush_heal
flush_heal(r) ==
    IF ~fallback_due(r.heal) THEN r
    ELSE IF r.heal.ready = <<>> \/ ~sealed_matches(r.heal)
    THEN [r EXCEPT !.heal.needs_reseal = TRUE]
    ELSE commit_ready(r)

\* Mutant: nothing is sealed again if nothing was sealed.
reseal_due_ready(r) ==
    LET h == r.heal
    IN  IF h.on_ephemeral /\ h.needs_reseal /\ h.ready # <<>> THEN post_heal(r) ELSE r

\* reseal_due and reseal_heal, for a search on the ephemeral path (heal_cids)
reseal_due(r) ==
    LET h == r.heal
    IN  IF h.on_ephemeral /\ (h.needs_reseal \/ (fallback_due(h) /\ h.ready = <<>>))
        THEN post_heal(r) ELSE r

\* replace_probes: one search at a time.
replace_probes(r, probes) ==
    post_heal([r EXCEPT !.heal.probes = probes, !.heal.fell_back = FALSE])

\* note_set_xor: the other party has the set remote.
note_set_xor(r, remote) ==
    IF r.have = remote THEN [r EXCEPT !.heal = Idle]
    ELSE IF r.heal.probes # <<>> THEN r
    ELSE replace_probes(r, <<Half(Zero, Top)>>)

\* Mutant: the copies of the search stay.
write_chain_packets_keeps(r, txs) ==
    [r EXCEPT !.writes = @ \o [i \in 1 .. Len(txs) |->
                                  TxFragLast(txs[i], r.have, r.chain.send + i - 1)],
              !.chain.send = @ + Len(txs),
              !.heal = moved(r.heal)]

\* vault.rs, write_chain_packets, of one transaction after the other: they go
\* out on the durable path.
write_chain_packets(r, txs) ==
    LET h == r.heal
        clear == [h EXCEPT !.ready = <<>>, !.sealed = "none", !.needs_reseal = @ \/ h.late]
    IN  [r EXCEPT !.writes = @ \o [i \in 1 .. Len(txs) |->
                                      TxFragLast(txs[i], r.have, r.chain.send + i - 1)],
                  !.chain.send = @ + Len(txs),
                  !.heal = IF h.on_ephemeral THEN clear ELSE moved(h)]

\* retransmit
retransmit(r, ids) == IF ids = {} THEN r ELSE write_chain_packets(r, SetToSeq(ids))

\* have_local: the ids of a range that cannot be split.
have_local(r, lo, hi) ==
    LET ids  == range_xor(r.have, lo, hi)
        some == CHOOSE s \in SUBSET ids : s = ids \/ Cardinality(s) = IdCap
    IN  replace_probes(r, <<Have(lo, hi, some)>>)

\* Mutant: the one id is asked for where it is there.
on_half_swapped(r, p) ==
    LET ours == range_xor(r.have, p.lo, p.hi)
        mid  == mid_of(p.lo, p.hi)
        name == IF ours = {p.lo} THEN Want(p.lo, p.hi, {p.lo}) ELSE Have(p.lo, p.hi, {p.lo})
    IN  IF ours = p.ids THEN r
        ELSE replace_probes(r, IF single_id(p.lo, p.hi) THEN <<name>>
                               ELSE <<Half(p.lo, mid), Half(mid, p.hi)>>)

\* on_half: split the range in which the sets differ, or name its one id.
on_half(r, p) ==
    LET ours == range_xor(r.have, p.lo, p.hi)
        mid  == mid_of(p.lo, p.hi)
    IN  IF ours = p.ids THEN r
        ELSE IF single_id(p.lo, p.hi)
        THEN replace_probes(r, <<IF ours = {p.lo} THEN Have(p.lo, p.hi, {p.lo})
                                 ELSE Want(p.lo, p.hi, {p.lo})>>)
        ELSE IF splits(p.lo, p.hi)
        THEN replace_probes(r, <<Half(p.lo, mid), Half(mid, p.hi)>>)
        ELSE have_local(r, p.lo, p.hi)

\* on_want: the search is over; what this device has of ids is sent again.
on_want(r, p) ==
    IF Cardinality(p.ids) > IdCap THEN r
    ELSE retransmit([r EXCEPT !.heal.probes = <<>>, !.heal.ready = <<>>, !.heal.on_ephemeral = FALSE],
                    p.ids \cap r.have)

\* on_have
on_have(r, p) ==
    LET missing == p.ids \ r.have
    IN  IF Cardinality(p.ids) > IdCap THEN r
        ELSE IF missing = {} THEN [r EXCEPT !.heal = Idle]
        ELSE replace_probes(r, <<Want(p.lo, p.hi, missing)>>)

\* on_heal_packet: an answer on the ephemeral path starts its window again.
on_heal_packet(r, p) ==
    LET fresh == [r EXCEPT !.heal.late = @ /\ ~r.heal.on_ephemeral]
    IN  CASE p.kind = "half" -> on_half(fresh, p)
          [] p.kind = "want" -> on_want(fresh, p)
          [] p.kind = "have" -> on_have(fresh, p)

\* Mutant: the set a packet names replaces the own one.
merge_adopts(r, p) ==
    IF p.kind = "tx" THEN note_set_xor([r EXCEPT !.have = p.ids], p.ids)
    ELSE on_heal_packet(r, p)

\* handshake.rs, open_and_merge of a durable packet that opened; ack_completed_last
merge(r, p) ==
    IF p.kind = "tx"
    THEN note_set_xor([r EXCEPT !.have = @ \cup {p.lo}], p.ids)
    ELSE on_heal_packet(r, p)

\* open_and_merge, with the skipped keys of kept: the others have expired, or
\* opened a transaction that is watermarked (prune_cached_mks).  A packet that
\* no key opens is passed over (ingest_known_body).
open_and_merge(r, p, kept) ==
    LET c == [r.chain EXCEPT !.skipped = kept]
    IN  IF opens(c, p.at) THEN merge([r EXCEPT !.chain = walked(c, p.at)], p) ELSE r

\* note_live
note_live(r) == [r EXCEPT !.live = "live"]

\* open_and_merge of an ephemeral packet, which opens at the reader's position
\* only; observe_ephemeral
observe_ephemeral(r, p) ==
    IF p.at # r.chain.recv THEN r
    ELSE IF p.kind = "ack"
    THEN note_set_xor(IF r.have = p.ids THEN note_live(r) ELSE r, p.ids)
    ELSE on_heal_packet(IF r.live # "never" THEN note_live(r) ELSE r, p)

-----------------------------------------------------------------------------
(* Actions *)

\* Ephemeral packets after those under way; the channel drops what it cannot
\* hold.
broadcast(queue, packets) ==
    SubSeq(queue \o packets, 1, Min({Len(queue) + Len(packets), MaxAir}))

\* The row of p becomes r, p has rest still to read, and what r has to post is
\* posted.
commit(p, r, rest) ==
    /\ r.chain.send <= MaxSeq
    /\ row' = [row EXCEPT ![p] = [r EXCEPT !.writes = <<>>, !.eph_writes = <<>>]]
    /\ posted' = posted \cup Range(r.writes)
    /\ unread' = [q \in Parties |-> (IF q = p THEN rest ELSE unread[q]) \o r.writes]

\* A conversation in which some packets were missed, when a packet of p gets
\* through: its last transaction, or what its implementation acknowledges on
\* the ephemeral channel.  Each party has posted and read n packets, none or
\* more than the joined chain opens.
Init ==
    \E sets \in [Parties -> SUBSET Ids], live \in Lives \ {"past"}, n \in {0, SkipAhead + 1} :
    LET p == CHOOSE p \in Parties : TRUE IN
        /\ \/ /\ \E id \in sets[p] : posted = {TxFragLast(id, sets[p], n)}
              /\ air = [q \in Parties |-> <<>>]
           \/ /\ Ephemeral
              /\ posted = {}
              /\ air = [q \in Parties |-> IF q = p THEN <<>> ELSE <<XorAck(sets[p], n)>>]
        /\ row = [q \in Parties |-> [have |-> sets[q], heal |-> Idle, live |-> live,
                                     chain |-> [send |-> IF q = p /\ posted # {} THEN n + 1 ELSE n,
                                                recv |-> n, skipped |-> {}],
                                     writes |-> <<>>, eph_writes |-> <<>>]]
        /\ unread = [q \in Parties |-> SetToSeq(posted)]
        /\ faults = 0

\* p mints and posts a transaction (post_handshake_packets).
mint(p, id) ==
    /\ faults < MaxFaults
    /\ \A q \in Parties : id \notin row[q].have
    /\ commit(p, write_chain_packets([row[p] EXCEPT !.have = @ \cup {id}], <<id>>), unread[p])
    /\ faults' = faults + 1
    /\ UNCHANGED air

\* ingest_packet, of the first packet listed or of another one
ingest_packet(p, i, kept) ==
    /\ faults' = faults + (IF i = 1 THEN 0 ELSE 1) + (IF kept = row[p].chain.skipped THEN 0 ELSE 1)
    /\ faults' <= MaxFaults
    /\ LET r == open_and_merge(reseal_due(row[p]), unread[p][i], kept)
       IN  /\ commit(p, r, RemoveAt(unread[p], i))
           /\ air' = [air EXCEPT ![other(p)] = broadcast(@, r.eph_writes)]

\* ingest_list of a bin in which nothing is new
ingest_list(p) ==
    /\ LET r == reseal_due(row[p])
       IN  /\ r # row[p]
           /\ commit(p, r, unread[p])
           /\ air' = [air EXCEPT ![other(p)] = broadcast(@, r.eph_writes)]
    /\ UNCHANGED faults

\* ingest_ephemeral_packet
ingest_ephemeral_packet(p) ==
    /\ air[p] # <<>>
    /\ LET r == observe_ephemeral(reseal_due(row[p]), Head(air[p]))
       IN  /\ commit(p, r, unread[p])
           /\ air' = [air EXCEPT ![p] = Tail(@), ![other(p)] = broadcast(@, r.eph_writes)]
    /\ UNCHANGED faults

\* tick, three seconds or half a minute later
tick(p, long) ==
    /\ faults < MaxFaults
    /\ faults' = faults + 1
    /\ LET r == [row[p] EXCEPT !.heal.late = row[p].heal.on_ephemeral,
                               !.live = IF long /\ @ = "live" THEN "past" ELSE @]
       IN  commit(p, flush_heal(r), unread[p])
    /\ UNCHANGED air

\* An ephemeral packet does not arrive.
Lose(p) ==
    /\ air[p] # <<>>
    /\ air' = [air EXCEPT ![p] = Tail(@)]
    /\ UNCHANGED <<row, unread, posted, faults>>

\* A bin is listed again and its packets are handed in again.
Relist(p, pkt) ==
    /\ faults < MaxFaults
    /\ unread' = [unread EXCEPT ![p] = Append(@, pkt)]
    /\ faults' = faults + 1
    /\ UNCHANGED <<row, posted, air>>

Next ==
    \E p \in Parties :
        \/ \E id \in Ids : mint(p, id)
        \/ \E i \in 1 .. Len(unread[p]), kept \in SUBSET row[p].chain.skipped :
                ingest_packet(p, i, kept)
        \/ ingest_list(p)
        \/ ingest_ephemeral_packet(p)
        \/ Lose(p)
        \/ \E long \in BOOLEAN : tick(p, long)
        \/ \E pkt \in posted : Relist(p, pkt)

Spec == Init /\ [][Next]_vars

-----------------------------------------------------------------------------
(* Properties *)

\* Rows, packets and queues are of their types: the search names ids of
\* transactions only, and ranges stay inside the space of ids (midpoint).
TypeOK ==
    /\ row \in [Parties -> Rows]
    /\ posted \in SUBSET Packets
    /\ unread \in [Parties -> Seq(posted)]
    /\ air \in [Parties -> Seq(Packets)]
    /\ faults \in 0 .. MaxFaults

\* What the search is for: SetSync, read off the rows.
Sync == INSTANCE SetSync WITH have <- [p \in Parties |-> row[p].have]

\* The search implements SetSync: whatever halves, wants and offers cross, are
\* lost or read again, a party loses no transaction and gets only transactions
\* that the other one has, one at a time (open_and_merge, on_want, retransmit).
Implements == Sync!Spec

\* A search asks only for transactions that the other party has, and offers
\* only those that the party itself has, whatever was minted, copied or read
\* again since the halves went out (on_half, on_have, have_local).
AsksAndOffers ==
    \A p \in Parties : \A probe \in Range(row[p].heal.probes) :
        /\ probe.kind = "want" => probe.ids \subseteq row[other(p)].have
        /\ probe.kind = "have" => probe.ids \subseteq row[p].have

\* A search that got no answer on the ephemeral path leaves it, whatever moved
\* the chain since: once its window is over a tick posts its copies, or else the
\* next listing seals its probes again, each of them on the durable path
\* (flush_heal, commit_ready, reseal_due, write_chain_packets).
FallbackPosts ==
    \A p \in Parties :
        LET after == reseal_due(flush_heal([row[p] EXCEPT !.heal.late = TRUE]))
        IN  row[p].heal.on_ephemeral =>
                ~after.heal.on_ephemeral /\ Len(after.writes) = Len(row[p].heal.probes)

\* Copies sealed for the fallback of an ephemeral search belong to a search
\* that is still open and to the position the chain still has, so commit_ready
\* never posts under a key that a transaction has used since (post_heal,
\* write_chain_packets, on_want).
ReadyIsCurrent ==
    \A p \in Parties :
        LET h == row[p].heal
        IN  h.ready # <<>> => h.on_ephemeral /\ sealed_matches(h) /\ h.probes # <<>>
=============================================================================
