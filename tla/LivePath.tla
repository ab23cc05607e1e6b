-------------------------------- MODULE LivePath --------------------------------
(***************************************************************************)
(* One direction of an established direct message or synchronization: the  *)
(* device that sends, the device that receives, and the durable and        *)
(* ephemeral channels between them.                                        *)
(*                                                                         *)
(* Every durable packet is sealed under the message key of one position of *)
(* the sending chain, and the receiver walks the same chain.  A live       *)
(* transaction is first sent on the ephemeral channel; its durable packet  *)
(* waits in live_pending for an acknowledgement, and is posted when none   *)
(* comes within FALLBACK_SECS.                                             *)
(*                                                                         *)
(* A chain is represented by its packet_seq: the epoch of an established   *)
(* chain never changes, since the live path does not mix.  A transaction   *)
(* fits one packet.  note_set_xor records a probe when the sets differ,    *)
(* and post_heal then returns at its first check: it wants the ticket of   *)
(* the conversation, which only a handshake row has.  So no heal packet of *)
(* an established conversation exists.                                     *)
(***************************************************************************)
EXTENDS Naturals, Sequences, Retain

CONSTANTS
    IsSync,      \* a Synchronization mints no advertise, wrap or ack
    HasEph,      \* the notice names an ephemeral channel
    Owed,        \* OWED_PACKETS
    SkipAhead,   \* SKIP_AHEAD
    EphAhead,    \* positions an ephemeral packet is tried at
    Fallback,    \* FALLBACK_SECS
    MaxTxs,      \* bound on the transactions of the conversation
    MaxClock,    \* bound on the clock
    MaxCrashes   \* bound on the reloads of the sender

ASSUME LivePathAssumption ==
    /\ {IsSync, HasEph} \subseteq BOOLEAN
    /\ {Owed, SkipAhead, EphAhead, Fallback, MaxTxs, MaxClock, MaxCrashes} \subseteq Nat

Txs == 1 .. MaxTxs      \* in the order they are minted
Positions == 0 .. MaxTxs

(* A sealed packet: the transaction, the chain position whose key seals it,  *)
(* and the set that its set_xor names.                                       *)
Packets == [tx : Txs, pos : Positions, ids : SUBSET Txs]

VARIABLES
    now,        \* ticked
    sender,     \* the sending device's part of the conversation
    minted,     \* transactions minted so far
    store,      \* packets on the durable channel
    recv,       \* the receiver's chain for the sender's actor
    got,        \* the receiver's transaction set
    last_ack,   \* the receiver's last_acks entry of the sender's actor
    acks,       \* live acknowledgements on the ephemeral channel
    saved,      \* what the last fold of the sender wrote
    crashes

receiver == <<recv, got, last_ack>>
vars == <<now, sender, minted, store, recv, got, last_ack, acks, saved, crashes>>

Senders == [log : SUBSET Txs,           \* bodies of the conversation
            send : Positions,           \* chains.send
            pending : Seq([pkt : Packets, at : 0 .. MaxClock]),  \* chains.live_pending
            since : Nat,                \* ratchet.since
            writes : SUBSET Packets,    \* poll.write_durable
            eph : SUBSET Packets,       \* poll.write_ephemeral
            records : SUBSET Txs]       \* persist records handed to the host

-----------------------------------------------------------------------------
(* live.rs, ratchet.rs *)

\* Mutant: the tip of the packets still pending is forgotten.
sending_chain_stored(s) == s.send

\* Mutant: a position is left out behind the packets that wait.
sending_chain_skips(s) ==
    IF s.pending = <<>> THEN s.send ELSE s.pending[Len(s.pending)].pkt.pos + 2

\* The position of the next packet: behind the packets that still wait for an
\* acknowledgement, else the stored chain, which join starts at 0.
sending_chain(s) ==
    IF s.pending = <<>> THEN s.send ELSE s.pending[Len(s.pending)].pkt.pos + 1

\* The sealing loop of post_live and what it leaves behind it.
seal_at(s, t, pos, wait) ==
    LET pkt == [tx |-> t, pos |-> pos, ids |-> s.log]
        sent == [s EXCEPT !.since = @ + 1, !.eph = IF HasEph THEN @ \cup {pkt} ELSE @]
    IN  IF wait
        THEN [sent EXCEPT !.pending = Append(@, [pkt |-> pkt, at |-> now])]
        ELSE [sent EXCEPT !.writes = @ \cup {pkt}, !.send = pos + 1]

\* mint_if_owed: a ratchet transaction is due, and a conversation of two
\* devices of one user never owes one.
owes(s) == ~IsSync /\ s.since >= Owed

\* mint_if_owed and the post_live of what it minted.  The transaction joins the
\* log; its persist record is not returned to the host.
mint_if_owed(s, o) ==
    LET merged == [s EXCEPT !.log = @ \cup {o}, !.since = 0]
    IN  seal_at(merged, o, sending_chain(merged), FALSE)

\* post_live reads the chain before it posts what is owed.
post_live(s, t, o) ==
    LET pos == sending_chain(s)
    IN  seal_at(IF owes(s) THEN mint_if_owed(s, o) ELSE s, t, pos, HasEph)

\* Mutant: an acknowledgement settles the packets sent after it too.
settle_live_newer(s, ids) ==
    [s EXCEPT !.pending = retain(@, {i \in 1 .. Len(@) : ~(ids \subseteq @[i].pkt.ids)})]

\* settle_live: a pending packet whose set the acknowledgement names is settled;
\* its durable copy is dropped and its position is free again.
settle_live(s, ids) ==
    [s EXCEPT !.pending = retain(@, {i \in 1 .. Len(@) : @[i].pkt.ids # ids})]

\* The packets that have waited too long at the time at.
due(s, at) == {i \in 1 .. Len(s.pending) : at >= s.pending[i].at + Fallback}

\* flush_live: the packets that waited too long are posted, and the stored chain
\* is set behind the last of them.
flush_live(s, at) ==
    LET last == CHOOSE i \in due(s, at) : \A j \in due(s, at) : j <= i
    IN  IF due(s, at) = {} THEN s
        ELSE [s EXCEPT !.writes = @ \cup {s.pending[i].pkt : i \in due(s, at)},
                       !.send = s.pending[last].pkt.pos + 1,
                       !.pending = retain(@, (1 .. Len(@)) \ due(s, at))]

\* open_at without cached keys: the expected position and SkipAhead more.  What
\* the chain has walked past does not open any more.
opens(pkt) == pkt.pos \in recv .. (recv + SkipAhead)

-----------------------------------------------------------------------------
Init ==
    /\ now = 0
    /\ sender = [log |-> {}, send |-> 0, pending |-> <<>>, since |-> 0, writes |-> {},
                 eph |-> {}, records |-> {}]
    /\ minted = 0
    /\ store = {}
    /\ recv = 0
    /\ got = {}
    /\ last_ack = {}
    /\ acks = {}
    /\ saved = [log |-> {}, send |-> 0, since |-> 0]
    /\ crashes = 0

\* A chat call: mutate_on merges a new transaction and deliver_live posts it.
mint_on ==
    LET t == minted + 1
        merged == [sender EXCEPT !.log = @ \cup {t}, !.records = @ \cup {t}]
        owed == IF owes(merged) THEN 1 ELSE 0
    IN  /\ t + owed <= MaxTxs
        /\ now + Fallback <= MaxClock
        /\ minted' = t + owed
        /\ sender' = post_live(merged, t, t + 1)
        /\ UNCHANGED <<now, store, receiver, acks, saved, crashes>>

\* Mutant: tick moves the clock and does not flush.
tick_no_flush ==
    /\ now < MaxClock
    /\ now' = now + 1
    /\ UNCHANGED <<sender, minted, store, receiver, acks, saved, crashes>>

\* tick of the sender, flush_live included.
tick ==
    /\ now < MaxClock
    /\ now' = now + 1
    /\ sender' = flush_live(sender, now + 1)
    /\ UNCHANGED <<minted, store, receiver, acks, saved, crashes>>

\* The host posts a durable write and acknowledges it.  poll lists the writes by
\* channel and tag, so their order says nothing of the chain.
Post(pkt) ==
    /\ pkt \in sender.writes
    /\ store' = store \cup {pkt}
    /\ sender' = [sender EXCEPT !.writes = @ \ {pkt}]
    /\ UNCHANGED <<now, minted, receiver, acks, saved, crashes>>

\* Mutant: a new transaction stores the last ack whatever set_xor its packet names.
ingest_packet_acks_any(pkt) ==
    /\ pkt \in store
    /\ opens(pkt)
    /\ recv' = pkt.pos + 1
    /\ got' = got \cup {pkt.tx}
    /\ last_ack' = IF pkt.tx \notin got THEN got' ELSE last_ack
    /\ UNCHANGED <<now, sender, minted, store, acks, saved, crashes>>

\* ingest_packet at the receiver, of a packet that opens: the chain moves behind
\* it, and a transaction that is new is merged.  Only a new one can store the
\* sender's last ack.
ingest_packet(pkt) ==
    /\ pkt \in store
    /\ opens(pkt)
    /\ recv' = pkt.pos + 1
    /\ got' = got \cup {pkt.tx}
    /\ last_ack' = IF pkt.tx \notin got /\ got' = pkt.ids THEN got' ELSE last_ack
    /\ UNCHANGED <<now, sender, minted, store, acks, saved, crashes>>

\* ingest_ephemeral_packet at the receiver: the chain stays where it is.
ingest_ephemeral_packet(pkt) ==
    /\ pkt \in sender.eph
    /\ pkt.pos \in recv .. (recv + EphAhead - 1)
    /\ pkt.tx \notin got
    /\ got' = got \cup {pkt.tx}
    /\ UNCHANGED <<now, sender, minted, store, recv, last_ack, acks, saved, crashes>>

\* A peer that follows the protocol acknowledges what it holds.
PeerAck ==
    /\ HasEph
    /\ got # {}
    /\ got \notin acks
    /\ acks' = acks \cup {got}
    /\ UNCHANGED <<now, sender, minted, store, receiver, saved, crashes>>

\* observe_ephemeral of a PacketXorAck: some pending packet is settled.
observe_ephemeral(ids) ==
    /\ ids \in acks
    /\ sender' = settle_live(sender, ids)
    /\ sender' # sender
    /\ UNCHANGED <<now, minted, store, receiver, acks, saved, crashes>>

\* fold of the sender.  No packet of the peer has acknowledged anything on the
\* durable channel, so the watermark is the whole set and fold is never refused.
fold ==
    /\ crashes < MaxCrashes
    /\ saved' = [log |-> sender.log, send |-> sender.send, since |-> sender.since]
    /\ UNCHANGED <<now, sender, minted, store, receiver, acks, crashes>>

\* Mutant: the log records are not applied.
reload_snapshot_only ==
    /\ crashes < MaxCrashes
    /\ crashes' = crashes + 1
    /\ sender' = [log |-> saved.log, send |-> saved.send, pending |-> <<>>,
                  since |-> saved.since, writes |-> {}, eph |-> sender.eph,
                  records |-> sender.records]
    /\ UNCHANGED <<now, minted, store, receiver, acks, saved>>

\* The sender's process dies: apply_folded of the snapshot, then apply of the
\* records.  Pending packets and writes are in neither; what the relays of the
\* ephemeral channel hold is not lost.
reload ==
    /\ crashes < MaxCrashes
    /\ crashes' = crashes + 1
    /\ sender' = [log |-> saved.log \cup sender.records, send |-> saved.send,
                  pending |-> <<>>, since |-> saved.since, writes |-> {},
                  eph |-> sender.eph, records |-> sender.records]
    /\ UNCHANGED <<now, minted, store, receiver, acks, saved>>

Next ==
    \/ mint_on
    \/ tick
    \/ \E pkt \in sender.writes : Post(pkt)
    \/ \E pkt \in store : ingest_packet(pkt)
    \/ \E pkt \in sender.eph : ingest_ephemeral_packet(pkt)
    \/ PeerAck
    \/ \E ids \in acks : observe_ephemeral(ids)
    \/ fold
    \/ reload

Spec == Init /\ [][Next]_vars

\* The host keeps ticking and posts what poll hands out.  Nothing obliges the
\* channels or the peer: poll lists no tag of an established conversation.
Fairness ==
    /\ WF_vars(tick)
    /\ WF_vars(\E pkt \in sender.writes : Post(pkt))

FairSpec == Spec /\ Fairness

-----------------------------------------------------------------------------
(* Properties. *)

TypeOK ==
    /\ now \in 0 .. MaxClock
    /\ sender \in Senders
    /\ minted \in 0 .. MaxTxs
    /\ store \in SUBSET Packets
    /\ recv \in Positions
    /\ got \in SUBSET Txs
    /\ last_ack \in SUBSET Txs
    /\ acks \in SUBSET SUBSET Txs
    /\ saved \in [log : SUBSET Txs, send : Positions, since : Nat]
    /\ crashes \in 0 .. MaxCrashes

Pending == {sender.pending[i].pkt : i \in 1 .. Len(sender.pending)}

\* live_pending, the pending writes and what the chain moved since the last fold
\* are in memory only, so what follows of them holds up to the first reload.
Uninterrupted == crashes = 0

\* One message key seals one durable packet (chain.rs, step: "so the message key
\* just used cannot seal another packet"), in whatever order packets are
\* acknowledged, fall back and are joined by new ones.
MkUnique ==
    Uninterrupted => \A a, b \in Pending \cup sender.writes \cup store : a.pos = b.pos => a = b

\* Ephemeral first never loses a transaction (post_live, settle_live,
\* flush_live): what the peer does not hold is still waiting, is about to be
\* posted, or is on the durable channel.
NothingForgotten ==
    Uninterrupted => \A t \in sender.log :
        t \in got \/ \E pkt \in Pending \cup sender.writes \cup store : pkt.tx = t

\* A durable acknowledgement is sound (store_durable_last_ack): the set that the
\* receiver takes for the sender's, and lets fold rely on, is one that a packet on
\* the durable channel named, although the ephemeral channel feeds got as well.
LastAckSound == last_ack # {} => \E pkt \in store : pkt.ids = last_ack

\* What the peer was sent, the sender still holds: a reload (apply_folded, then
\* apply of the records) forgets no transaction that left the device.
SenderRemembers == got \subseteq sender.log

\* Every transaction ends up with the peer or on the durable channel (tick and
\* flush_live), whichever acknowledgements and ephemeral copies are lost or come
\* while it waits.
FallsBack ==
    \A t \in Txs : (t \in sender.log)
        ~> (t \in got \/ (\E pkt \in store : pkt.tx = t) \/ ~Uninterrupted)

=============================================================================
