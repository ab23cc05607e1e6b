----------------------------- MODULE Fragments -----------------------------
(***************************************************************************)
(* How the packed bytes of a body travel: the cut into packets by          *)
(* next_fragment, the posts of write_chain_packets, the reassembly of a    *)
(* handshake row (open_and_merge) and of an established row                *)
(* (accept_fragment).                                                      *)
(*                                                                         *)
(* One transaction is followed.  Its packed bytes are units; a re-mint of  *)
(* the same payload by another member of the group has the same tx_id and  *)
(* another timestamp, so other bytes.  Nothing in a fragment says of which *)
(* posting it is: units that are not all those of one body, in order, are  *)
(* refused or read as a body that nobody minted.  Lengths are in units     *)
(* too: Pad for PACKET_PAD_LEN, HeadLen and XorLen for what the other      *)
(* members of a packet take, one more from packet_seq WideFrom on.         *)
(***************************************************************************)
EXTENDS Naturals, Sequences, FiniteSets, FiniteSetsExt, SequencesExt

CONSTANTS
    Pad, HeadLen, XorLen, WideFrom,
    FillerCost,     \* what a filler byte of largest_frag takes: 1 uncompressed, 0 under Deflate
    MaxFrags,       \* MAX_FRAGS
    MaxPostings,    \* bound: how often the body is posted
    PayloadTypes,   \* the types of payloads, and those of handshake transactions
    HandshakeTypes,
    Variants,       \* the variants n of the payload that are sent
    LenPerVariant,  \* packed length of variant n is 1 + n * LenPerVariant
    Garbled,        \* a body that nobody minted
    durable_body(_, _)  \* the set of what durable_body_from_json reads of the JSON of p at time h

Authors == {1, 2}
Items == [type : PayloadTypes, n : Variants]

\* The assumption on durable_body: the receiver can read what an author wrote,
\* which is not garbled.
ASSUME FragmentsAssumption ==
    /\ {Pad, HeadLen, XorLen, WideFrom, MaxFrags, MaxPostings, LenPerVariant} \subseteq Nat
    /\ FillerCost \in {0, 1}
    /\ Variants \subseteq Nat
    /\ \A p \in Items, h \in Authors : durable_body(p, h) # {} /\ Garbled \notin durable_body(p, h)

VARIABLES
    item,     \* the payload, once minted: a set of at most one
    path,     \* "handshake" or "live"
    wall,     \* each author's timestamp of the body
    seq,      \* each author's packet_seq
    chan,     \* the packets on the channel
    posted,   \* the postings, as cut
    recv,     \* live: each author's next packet_seq to open
    frags,    \* the FragSet of the tx_id, if there is one
    merged,   \* the body that the receiver inserted
    failed,   \* the handshake row failed
    error,    \* some ingest returned an error
    tooLarge, \* the authors whose post returned BodyTooLarge
    seen      \* the packets that were taken

tvars == <<item, path, wall, seq, chan, posted, recv, frags, merged, failed, error, tooLarge, seen>>

-----------------------------------------------------------------------------
(* The body *)

\* packed_tx: canonical JSON, compressed.
packed_len(p) == 1 + p.n * LenPerVariant
packed_tx(p, h) == [u \in 1 .. packed_len(p) |-> <<h, u>>]

\* decompress, canonical JSON decode and durable_body_from_json: what may be
\* read of bytes.  An empty reading is an error.  Neither the tx_id nor a
\* checksum is compared, so what a mixture of bodies reads as is open.
unpack(p, bytes) ==
    LET of == {h \in Authors : packed_tx(p, h) = bytes}
    IN  IF of = {} THEN {{}, {Garbled}} ELSE {durable_body(p, h) : h \in of}

-----------------------------------------------------------------------------
(* Cutting it *)

\* The length that packed_packet measures, for n bytes that take cost each.
packed_packet(kind, s, n, cost) ==
    HeadLen + (IF kind = "TxFragLast" THEN XorLen ELSE 0) + (IF s >= WideFrom THEN 1 ELSE 0) + cost * n

\* largest_frag measures with a filler.
largest_frag(kind, s) == Max({n \in 0 .. Pad : packed_packet(kind, s, n, FillerCost) <= Pad} \cup {0})

\* Nothing stands for BodyTooLarge.
next_fragment(left, s, i) ==
    IF i >= MaxFrags THEN {}
    ELSE IF left <= largest_frag("TxFragLast", s) THEN {[kind |-> "TxFragLast", take |-> left]}
    ELSE IF largest_frag("TxFragMore", s) = 0 THEN {}
    ELSE {[kind |-> "TxFragMore", take |-> Min({left, largest_frag("TxFragMore", s)})]}

\* seal_packet refuses a packet that does not fit once it is packed.
seal_packet(f, s) == packed_packet(f.kind, s, f.take, 1) <= Pad

\* The bytes that packet i takes of those left: none if it is refused.
taken(left, s, i) ==
    LET f == next_fragment(left, s, i)
    IN  IF f = {} THEN 0 ELSE (CHOOSE g \in f : TRUE).take

\* The loop of write_chain_packets over len bytes from position s: the offset
\* after k packets.
offset(len, s) ==
    LET at[k \in 0 .. MaxFrags] ==
            IF k = 0 THEN 0 ELSE at[k - 1] + taken(len - at[k - 1], s + k - 1, k - 1)
    IN  at

\* Packet k of n.
kind_of(k, n) == IF k = n THEN "TxFragLast" ELSE "TxFragMore"

\* The number of packets it writes: none if it fails before the last one.
cut(len, s) ==
    {n \in 1 .. MaxFrags :
        \A k \in 1 .. n : \E f \in next_fragment(len - offset(len, s)[k - 1], s + k - 1, k - 1) :
            seal_packet(f, s + k - 1) /\ f.kind = kind_of(k, n)}

-----------------------------------------------------------------------------
(* Reassembly *)

\* frag_parts: what a packet says of the fragments.
NoFrags == [parts |-> <<>>, last_i |-> {}]

with_part(set, p) ==
    [parts  |-> [i \in {p.i} \cup DOMAIN set.parts |-> IF i = p.i THEN p.frag ELSE set.parts[i]],
     last_i |-> IF p.kind = "TxFragLast" THEN {p.i} ELSE set.last_i]

complete(set) == \E l \in set.last_i : 0 .. l \subseteq DOMAIN set.parts

\* Mutant: the loop starts at one.
joined_from_one(set) == LET l == CHOOSE k \in set.last_i : TRUE
                        IN  FlattenSeq([k \in 1 .. l |-> set.parts[k]])

joined(set) == LET l == CHOOSE k \in set.last_i : TRUE
               IN  FlattenSeq([k \in 1 .. l + 1 |-> set.parts[k - 1]])

\* Mutant: a fragment that is listed again is refused.
equivocates_again(set, p) == p.i \in DOMAIN set.parts

\* A handshake row: another fragment at the same index, or another last
\* index, is Equivocation.
equivocates(set, p) ==
    \/ p.i \in DOMAIN set.parts /\ set.parts[p.i] # p.frag
    \/ p.kind = "TxFragLast" /\ \E l \in set.last_i : l # p.i

\* What a complete set may be read as.
bodies_of(set) == UNION {unpack(p, joined(set)) : p \in item}

\* A garbled body may have another payload than the body that is there.
clashes(body) == merged # {} /\ Garbled \in merged \cup body

frag_set == IF frags = {} THEN NoFrags ELSE CHOOSE s \in frags : TRUE

-----------------------------------------------------------------------------
CarryInit ==
    /\ item = {} /\ path = "live"
    /\ wall = [a \in Authors |-> a]
    /\ seq = [a \in Authors |-> 0] /\ recv = [a \in Authors |-> 0]
    /\ chan = {} /\ posted = {} /\ frags = {} /\ merged = {} /\ seen = {}
    /\ failed = FALSE /\ error = FALSE /\ tooLarge = {}

\* merge_tx: author 2 either has the body from author 1 (healed, the same
\* bytes) or minted the same payload in another second.
Mint(t, n, same) ==
    /\ item = {}
    /\ item' = {[type |-> t, n |-> n]}
    /\ path' = IF t \in HandshakeTypes THEN "handshake" ELSE "live"
    /\ wall' = IF same THEN [a \in Authors |-> 1] ELSE wall
    /\ UNCHANGED <<seq, chan, posted, recv, frags, merged, failed, error, tooLarge, seen>>

\* The n packets that author a posts of the body p.
packets(a, p, n) ==
    LET bytes == packed_tx(p, wall[a])
        at == offset(Len(bytes), seq[a])
    IN  {[by |-> a, seq |-> seq[a] + k - 1, i |-> k - 1, kind |-> kind_of(k, n),
          frag |-> SubSeq(bytes, at[k - 1] + 1, at[k])] : k \in 1 .. n}

\* write_chain_packets: a first post, or a re-post by whoever holds the body.
Post(a) ==
    /\ Cardinality(posted) < MaxPostings
    /\ \E p \in item :
        \/ /\ cut(packed_len(p), seq[a]) = {}
           /\ tooLarge' = tooLarge \cup {a}
           /\ UNCHANGED <<seq, chan, posted>>
        \/ \E n \in cut(packed_len(p), seq[a]) :
            /\ posted' = posted \cup {packets(a, p, n)}
            /\ chan' = chan \cup packets(a, p, n)
            /\ seq' = [seq EXCEPT ![a] = @ + n]
            /\ UNCHANGED tooLarge
    /\ UNCHANGED <<item, path, wall, recv, frags, merged, failed, error, seen>>

\* open_and_merge, from the fragment on: the keys of a handshake chain are
\* derived again from its start, so a packet opens as often as it is listed.
\* A body that is not read fails the row, another payload than the one that is
\* there is Equivocation.  An error leaves the caller's state as it was.
IngestHandshake(p) ==
    /\ path = "handshake" /\ ~failed /\ p \in chan
    /\ LET new == with_part(frag_set, p)
       IN  \/ /\ equivocates(frag_set, p)
              /\ error' = TRUE
              /\ UNCHANGED <<frags, merged, failed, seen>>
           \/ /\ ~equivocates(frag_set, p) /\ ~complete(new)
              /\ frags' = {new} /\ seen' = seen \cup {p}
              /\ UNCHANGED <<merged, failed, error>>
           \/ /\ ~equivocates(frag_set, p) /\ complete(new)
              /\ \E body \in bodies_of(new) :
                  \/ /\ frags' = {} /\ seen' = seen \cup {p}
                     /\ failed' = (body = {})
                     /\ merged' = IF merged = {} THEN body ELSE merged
                     /\ UNCHANGED error
                  \/ /\ clashes(body)
                     /\ error' = TRUE
                     /\ UNCHANGED <<frags, merged, failed, seen>>
    /\ UNCHANGED <<item, path, wall, seq, chan, posted, recv, tooLarge>>

\* accept_fragment: an established row opens each position once and only
\* forwards.  A fragment replaces the one before it, and another payload the
\* one that is there (insert_body).
AcceptFragment(p) ==
    /\ path = "live" /\ p \in chan /\ p.seq >= recv[p.by]
    /\ LET new == with_part(frag_set, p)
           take == /\ seen' = seen \cup {p}
                   /\ recv' = [recv EXCEPT ![p.by] = p.seq + 1]
       IN  \/ /\ ~complete(new)
              /\ frags' = {new} /\ take
              /\ UNCHANGED <<merged, error>>
           \/ /\ complete(new) /\ {} \in bodies_of(new)
              /\ error' = TRUE
              /\ UNCHANGED <<frags, merged, seen, recv>>
           \/ /\ complete(new)
              /\ \E body \in bodies_of(new) \ {{}} :
                    \/ merged' = IF merged = {} THEN body ELSE merged
                    \/ clashes(body) /\ merged' = body
              /\ frags' = {} /\ take
              /\ UNCHANGED error
    /\ UNCHANGED <<item, path, wall, seq, chan, posted, failed, tooLarge>>

Carry ==
    \/ \E t \in PayloadTypes, n \in Variants, same \in BOOLEAN : Mint(t, n, same)
    \/ \E a \in Authors : Post(a)
    \/ \E p \in chan : IngestHandshake(p)
    \/ \E p \in chan : AcceptFragment(p)

CarrySpec == CarryInit /\ [][Carry]_tvars

-----------------------------------------------------------------------------
\* A fragment without its author and position.
bare(p) == [i |-> p.i, kind |-> p.kind, frag |-> p.frag]

\* The postings cut the same bytes in the same way.
Uniform == \A x, y \in posted : {bare(p) : p \in x} = {bare(p) : p \in y}

\* Fragments that are lost, repeated or overtaken never fail a row or an
\* ingest as long as every posting is cut alike, and a body of which every
\* fragment arrived, from whichever postings, is merged (open_and_merge,
\* accept_fragment).
UniformMerges ==
    Uniform =>
        /\ ~failed /\ ~error
        /\ (\E x \in posted : {bare(p) : p \in x} \subseteq {bare(p) : p \in seen}) => merged # {}
=============================================================================
