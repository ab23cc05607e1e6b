--------------------------- MODULE LivePathProofs ---------------------------
(***************************************************************************)
(* Proofs about LivePath, for every number of transactions, every window   *)
(* and every fallback.  What depends on the one known fault, the ratchet   *)
(* transaction that post_live seals at a position it has read before, is   *)
(* proved of conversations that owe none (IsSync).                         *)
(***************************************************************************)
EXTENDS LivePath, RetainProofs, SequenceTheorems, TLAPS

Waiting == [pkt : Packets, at : 0 .. MaxClock]

\* The packets the sender still has to bring to the durable channel.
Queued(s) == {s.pending[i].pkt : i \in 1 .. Len(s.pending)} \cup s.writes

\* A sender that has used positions below n only, and whose packets name the set
\* that their transaction is in.
Fit(s, n) ==
    /\ s \in Senders
    /\ s.send <= n
    /\ \A pkt \in Queued(s) : pkt.pos < n /\ pkt.tx \in pkt.ids

\* The packets on the channel and what the last fold wrote.
FarInv ==
    /\ \A pkt \in store : pkt.pos < minted
    /\ saved.send <= minted
    /\ acks \subseteq SUBSET got

\* Without ratchet transactions the records are complete.
LogInv ==
    IsSync => /\ sender.log \subseteq sender.records
              /\ saved.log \subseteq sender.records
              /\ got \subseteq sender.log
              /\ \A pkt \in Queued(sender) \cup sender.eph \cup store : pkt.tx \in sender.log

\* The packets that wait are in the order of their positions and of the times at
\* which they were sent, at and behind the stored chain; what is written is
\* before it.
Ordered(s, at) ==
    /\ ~HasEph => s.pending = <<>>
    /\ \A i \in 1 .. Len(s.pending) : s.pending[i].at <= at /\ s.pending[i].pkt.pos >= s.send
    /\ \A i, j \in 1 .. Len(s.pending) :
        i < j => s.pending[i].pkt.pos < s.pending[j].pkt.pos /\ s.pending[i].at <= s.pending[j].at
    /\ \A pkt \in s.writes : pkt.pos < s.send

\* The durable channel: one packet of a position, all before the stored chain.
ChannelInv ==
    /\ \A pkt \in store : pkt.pos < sender.send
    /\ \A a, b \in sender.writes \cup store : a.pos = b.pos => a = b

OrderInv == IsSync /\ Uninterrupted => Ordered(sender, now) /\ ChannelInv

IInv ==
    /\ TypeOK
    /\ Fit(sender, minted)
    /\ FarInv
    /\ LogInv
    /\ OrderInv
    /\ NothingForgotten
    /\ LastAckSound

-----------------------------------------------------------------------------
(* Senders *)

\* The fields of a sender.
LEMMA SenderFields ==
    ASSUME NEW s \in Senders
    PROVE  /\ s.log \in SUBSET Txs /\ s.send \in Positions /\ s.send \in Nat
           /\ s.pending \in Seq(Waiting) /\ Len(s.pending) \in Nat
           /\ s.since \in Nat /\ s.writes \in SUBSET Packets /\ s.eph \in SUBSET Packets
           /\ s.records \in SUBSET Txs
BY LivePathAssumption DEF Senders, Waiting, Positions

\* The fields of a packet and of one that waits.
LEMMA PacketFields ==
    ASSUME NEW pkt \in Packets
    PROVE  pkt.tx \in Txs /\ pkt.pos \in Positions /\ pkt.pos \in Nat /\ pkt.ids \in SUBSET Txs
BY LivePathAssumption DEF Packets, Positions

\* Every packet that waits has its type.
LEMMA PendingFields ==
    ASSUME NEW s \in Senders
    PROVE  /\ \A i \in 1 .. Len(s.pending) :
                /\ s.pending[i] \in Waiting
                /\ s.pending[i].pkt \in Packets /\ s.pending[i].pkt.pos \in Nat
                /\ s.pending[i].at \in 0 .. MaxClock /\ s.pending[i].at \in Nat
           /\ Queued(s) \subseteq Packets
<1>1. s.pending \in Seq(Waiting) /\ s.writes \in SUBSET Packets
  BY SenderFields
<1>2. \A i \in 1 .. Len(s.pending) : s.pending[i] \in Waiting
  BY <1>1
<1>3. \A w \in Waiting : w.pkt \in Packets /\ w.at \in 0 .. MaxClock /\ w.at \in Nat
  BY LivePathAssumption DEF Waiting
<1>4. \A i \in 1 .. Len(s.pending) : s.pending[i].pkt \in Packets
  BY <1>2, <1>3
<1>5. Queued(s) \subseteq Packets
  BY <1>1, <1>4 DEF Queued
<1> QED
  BY <1>2, <1>3, <1>4, <1>5, PacketFields

\* A set of packets to bring depends on the two lists only.
LEMMA QueuedIs ==
    ASSUME NEW s, NEW x
    PROVE  x \in Queued(s) <=> \/ \E i \in 1 .. Len(s.pending) : x = s.pending[i].pkt
                               \/ x \in s.writes
BY DEF Queued

\* The next position has been used by nobody of the first n.
LEMMA ChainFit ==
    ASSUME NEW s, NEW n \in Nat, Fit(s, n)
    PROVE  sending_chain(s) \in Nat /\ sending_chain(s) <= n
<1>1. s \in Senders /\ s.send <= n
  BY DEF Fit
<1>2. s.pending \in Seq(Waiting) /\ Len(s.pending) \in Nat /\ s.send \in Nat
  BY <1>1, SenderFields
<1>3. CASE s.pending = <<>>
  BY <1>1, <1>2, <1>3 DEF sending_chain
<1>4. CASE s.pending # <<>>
  <2>1. Len(s.pending) \in 1 .. Len(s.pending)
    BY <1>2, <1>4
  <2>2. s.pending[Len(s.pending)].pkt \in Queued(s) /\ s.pending[Len(s.pending)].pkt.pos \in Nat
    BY <1>1, <2>1, QueuedIs, PendingFields
  <2>3. s.pending[Len(s.pending)].pkt.pos < n
    BY <2>2 DEF Fit
  <2> QED
    BY <1>4, <2>2, <2>3 DEF sending_chain
<1> QED
  BY <1>3, <1>4

\* The sealing loop.
LEMMA SealFields ==
    ASSUME NEW s \in Senders, NEW t \in Txs, NEW pos \in Nat, pos < MaxTxs, now \in 0 .. MaxClock,
           NEW wait \in BOOLEAN, NEW pkt, pkt = [tx |-> t, pos |-> pos, ids |-> s.log],
           NEW r, r = seal_at(s, t, pos, wait)
    PROVE  /\ r \in Senders /\ pkt \in Packets
           /\ r.log = s.log /\ r.records = s.records
           /\ r.eph \subseteq s.eph \cup {pkt}
           /\ wait => /\ r.pending = Append(s.pending, [pkt |-> pkt, at |-> now])
                      /\ r.writes = s.writes /\ r.send = s.send
           /\ ~wait => /\ r.pending = s.pending
                       /\ r.writes = s.writes \cup {pkt} /\ r.send = pos + 1
<1>1. /\ s.log \in SUBSET Txs /\ s.pending \in Seq(Waiting) /\ s.since \in Nat
      /\ s.writes \in SUBSET Packets /\ s.eph \in SUBSET Packets
  BY SenderFields
<1>2. pkt \in Packets /\ pos + 1 \in Positions
  BY <1>1, LivePathAssumption DEF Packets, Positions
<1> DEFINE e == IF HasEph THEN s.eph \cup {pkt} ELSE s.eph
           w == s.writes \cup {pkt}
           p == Append(s.pending, [pkt |-> pkt, at |-> now])
           n == s.since + 1
<1>3. /\ e \in SUBSET Packets /\ e \subseteq s.eph \cup {pkt} /\ w \in SUBSET Packets
      /\ n \in Nat
  BY <1>1, <1>2
<1>4. p \in Seq(Waiting)
  <2>1. [pkt |-> pkt, at |-> now] \in Waiting
    BY <1>2 DEF Waiting
  <2> QED
    BY <1>1, <2>1
<1>5. r = IF wait THEN [[s EXCEPT !.since = n, !.eph = e] EXCEPT !.pending = p]
          ELSE [[s EXCEPT !.since = n, !.eph = e] EXCEPT !.writes = w, !.send = pos + 1]
  BY DEF seal_at, Senders
<1> HIDE DEF e, w, p, n
<1> DEFINE sent == [s EXCEPT !.since = n, !.eph = e]
<1>6. /\ sent \in Senders /\ sent.log = s.log /\ sent.records = s.records /\ sent.eph = e
      /\ sent.pending = s.pending /\ sent.writes = s.writes /\ sent.send = s.send
  BY <1>3 DEF Senders
<1>7. r = IF wait THEN [sent EXCEPT !.pending = p]
          ELSE [sent EXCEPT !.writes = w, !.send = pos + 1]
  BY <1>5
<1> HIDE DEF sent
<1>8. CASE wait
  <2>1. r = [sent EXCEPT !.pending = p]
    BY <1>7, <1>8
  <2>2. /\ r \in Senders /\ r.log = sent.log /\ r.records = sent.records /\ r.eph = sent.eph
        /\ r.pending = p /\ r.writes = sent.writes /\ r.send = sent.send
    BY <1>4, <1>6, <2>1 DEF Senders, Waiting
  <2> QED
    BY <1>2, <1>3, <1>6, <1>8, <2>2 DEF p
<1>9. CASE ~wait
  <2>1. r = [sent EXCEPT !.writes = w, !.send = pos + 1]
    BY <1>7, <1>9
  <2>2. /\ r \in Senders /\ r.log = sent.log /\ r.records = sent.records /\ r.eph = sent.eph
        /\ r.pending = sent.pending /\ r.writes = w /\ r.send = pos + 1
    BY <1>2, <1>3, <1>6, <2>1 DEF Senders
  <2> QED
    BY <1>2, <1>3, <1>6, <1>9, <2>2 DEF w
<1> QED
  BY <1>8, <1>9

\* A sealed packet is queued, whether it waits or not.
LEMMA SealQueued ==
    ASSUME NEW s \in Senders, NEW r \in Senders, NEW pkt,
           \/ /\ r.pending = Append(s.pending, [pkt |-> pkt, at |-> now])
              /\ r.writes = s.writes
           \/ r.pending = s.pending /\ r.writes = s.writes \cup {pkt}
    PROVE  Queued(r) = Queued(s) \cup {pkt}
<1>1. CASE r.pending = s.pending /\ r.writes = s.writes \cup {pkt}
  BY <1>1 DEF Queued
<1>2. CASE r.pending = Append(s.pending, [pkt |-> pkt, at |-> now]) /\ r.writes = s.writes
  <2> DEFINE n == Len(s.pending)
  <2>0. n \in Nat /\ s.pending \in Seq(Waiting)
    BY SenderFields
  <2>1. /\ Len(r.pending) = n + 1 /\ r.pending[n + 1].pkt = pkt
        /\ \A i \in 1 .. n : r.pending[i] = s.pending[i]
    BY <1>2, <2>0
  <2>2. \A x : x \in Queued(r) <=> \/ \E i \in 1 .. n + 1 : x = r.pending[i].pkt
                                   \/ x \in s.writes
    BY <1>2, <2>1, QueuedIs
  <2>3. \A i \in 1 .. n + 1 : i \in 1 .. n \/ i = n + 1
    BY <2>0
  <2>4. n + 1 \in 1 .. n + 1 /\ \A i \in 1 .. n : i \in 1 .. n + 1
    BY <2>0
  <2>5. ASSUME NEW x \in Queued(r) PROVE x \in Queued(s) \cup {pkt}
    BY <2>1, <2>2, <2>3, QueuedIs
  <2>6. ASSUME NEW x \in Queued(s) \cup {pkt} PROVE x \in Queued(r)
    <3>1. CASE x = pkt
      BY <2>1, <2>2, <2>4, <3>1
    <3>2. CASE x \in Queued(s)
      BY <2>1, <2>2, <2>4, <3>2, QueuedIs
    <3> QED
      BY <3>1, <3>2
  <2> QED
    BY <2>5, <2>6
<1> QED
  BY <1>1, <1>2

\* r is s after a packet of t was sealed at pos.
Sealed(s, t, pos, wait, r) ==
    /\ r.log = s.log /\ r.records = s.records
    /\ \E pkt \in Packets :
        /\ pkt.tx = t /\ pkt.pos = pos
        /\ Queued(r) = Queued(s) \cup {pkt} /\ r.eph \subseteq s.eph \cup {pkt}
        /\ wait => /\ r.pending = Append(s.pending, [pkt |-> pkt, at |-> now])
                   /\ r.writes = s.writes /\ r.send = s.send
        /\ ~wait => /\ r.pending = s.pending
                    /\ r.writes = s.writes \cup {pkt} /\ r.send = pos + 1

\* r is s after a transaction joined the log.
Merged(s, L, R, r) ==
    /\ r.log = L /\ r.records = R
    /\ r.pending = s.pending /\ r.writes = s.writes /\ r.send = s.send /\ r.eph = s.eph
    /\ Queued(r) = Queued(s) /\ sending_chain(r) = sending_chain(s)

\* A packet that is sealed at an unused position leaves a sender that fits.
LEMMA SealFit ==
    ASSUME NEW s, NEW m \in Nat, NEW n \in Nat, m <= n, n <= MaxTxs, Fit(s, m), now \in 0 .. MaxClock,
           NEW t \in s.log, NEW pos \in Nat, pos < n, NEW wait \in BOOLEAN,
           NEW r, r = seal_at(s, t, pos, wait)
    PROVE  Fit(r, n) /\ Sealed(s, t, pos, wait, r)
<1> DEFINE pkt == [tx |-> t, pos |-> pos, ids |-> s.log]
<1>1. s \in Senders /\ s.send <= m /\ s.send \in Nat /\ t \in Txs
  BY SenderFields DEF Fit
<1>2. pos < MaxTxs /\ pos + 1 <= n /\ MaxTxs \in Nat
  BY LivePathAssumption
<1>3. pkt.tx = t /\ pkt.pos = pos /\ pkt.ids = s.log
  OBVIOUS
<1>4. \E p : p = pkt
  OBVIOUS
<1>5. /\ r \in Senders /\ pkt \in Packets
      /\ r.log = s.log /\ r.records = s.records
      /\ r.eph \subseteq s.eph \cup {pkt}
      /\ wait => /\ r.pending = Append(s.pending, [pkt |-> pkt, at |-> now])
                 /\ r.writes = s.writes /\ r.send = s.send
      /\ ~wait => /\ r.pending = s.pending
                  /\ r.writes = s.writes \cup {pkt} /\ r.send = pos + 1
  <2>1. PICK p : p = pkt
    OBVIOUS
  <2> HIDE DEF pkt
  <2>2. p = [tx |-> t, pos |-> pos, ids |-> s.log]
    BY <2>1 DEF pkt
  <2>3. /\ r \in Senders /\ p \in Packets
        /\ r.log = s.log /\ r.records = s.records
        /\ r.eph \subseteq s.eph \cup {p}
        /\ wait => /\ r.pending = Append(s.pending, [pkt |-> p, at |-> now])
                   /\ r.writes = s.writes /\ r.send = s.send
        /\ ~wait => /\ r.pending = s.pending
                    /\ r.writes = s.writes \cup {p} /\ r.send = pos + 1
    BY <1>1, <1>2, <2>2, SealFields
  <2> QED BY <2>1, <2>3
<1> HIDE DEF pkt
<1>6. Queued(r) = Queued(s) \cup {pkt}
  BY <1>1, <1>5, SealQueued
<1>7. Queued(s) \subseteq Packets
  BY <1>1, PendingFields
<1>8. Fit(r, n)
  <2>1. r.send <= n
    BY <1>1, <1>2, <1>5
  <2>2. ASSUME NEW x \in Queued(r) PROVE x.pos < n /\ x.tx \in x.ids
    <3>1. CASE x = pkt
      BY <1>3, <3>1
    <3>2. CASE x \in Queued(s)
      <4>1. x.pos < m /\ x.tx \in x.ids /\ x.pos \in Nat
        BY <1>7, <3>2, PacketFields DEF Fit
      <4> QED
        BY <4>1
    <3> QED
      BY <1>6, <3>1, <3>2
  <2> QED
    BY <1>5, <2>1, <2>2 DEF Fit
<1> QED
  BY <1>3, <1>5, <1>6, <1>8 DEF Sealed

\* Only the positions matter to the next one.
LEMMA SameChain ==
    ASSUME NEW s, NEW r, r.pending = s.pending, r.send = s.send
    PROVE  sending_chain(r) = sending_chain(s)
BY DEF sending_chain

\* The merge before a post.
LEMMA MergeFit ==
    ASSUME NEW s, NEW n \in Nat, Fit(s, n), NEW L \in SUBSET Txs, NEW R \in SUBSET Txs, NEW k \in Nat,
           NEW r, r = [s EXCEPT !.log = L, !.records = R, !.since = k]
    PROVE  Fit(r, n) /\ Merged(s, L, R, r)
<1>1. s \in Senders
  BY DEF Fit
<1>2. r \in Senders
  BY <1>1 DEF Senders
<1>3. /\ r.log = L /\ r.records = R /\ r.since = k
      /\ r.pending = s.pending /\ r.writes = s.writes /\ r.send = s.send /\ r.eph = s.eph
  BY <1>1 DEF Senders
<1>4. Queued(r) = Queued(s)
  BY <1>3 DEF Queued
<1>5. sending_chain(r) = sending_chain(s)
  BY <1>3, SameChain
<1>6. Fit(r, n)
  BY <1>2, <1>3, <1>4 DEF Fit
<1> QED
  BY <1>3, <1>4, <1>5, <1>6 DEF Merged

-----------------------------------------------------------------------------
(* The steps *)

\* What mint_on makes of the sender, before the order of the packets is looked
\* at: everything new is queued.
LEMMA MintSender ==
    ASSUME IInv, mint_on
    PROVE  /\ minted' \in Nat /\ minted < minted' /\ minted' <= MaxTxs
           /\ Fit(sender', minted')
           /\ Queued(sender) \subseteq Queued(sender')
           /\ \A t \in sender'.log : t \in sender.log \/ \E pkt \in Queued(sender') : pkt.tx = t
           /\ IsSync => \E pkt \in Packets :
                /\ sender'.log = sender.log \cup {pkt.tx}
                /\ sender'.records = sender.records \cup {pkt.tx}
                /\ pkt.pos = sending_chain(sender)
                /\ Queued(sender') = Queued(sender) \cup {pkt}
                /\ sender'.eph \subseteq sender.eph \cup {pkt}
                /\ HasEph => /\ sender'.pending = Append(sender.pending, [pkt |-> pkt, at |-> now])
                             /\ sender'.writes = sender.writes /\ sender'.send = sender.send
                /\ ~HasEph => /\ sender'.pending = sender.pending
                              /\ sender'.writes = sender.writes \cup {pkt}
                              /\ sender'.send = pkt.pos + 1
<1> DEFINE t == minted + 1
           merged == [sender EXCEPT !.log = @ \cup {t}, !.records = @ \cup {t}]
           pos == sending_chain(merged)
<1>1. /\ sender \in Senders /\ minted \in 0 .. MaxTxs /\ minted \in Nat /\ MaxTxs \in Nat
      /\ now \in 0 .. MaxClock /\ Fit(sender, minted) /\ HasEph \in BOOLEAN
  BY LivePathAssumption DEF IInv, TypeOK, Fit
<1>2. /\ t + (IF owes(merged) THEN 1 ELSE 0) <= MaxTxs
      /\ minted' = t + (IF owes(merged) THEN 1 ELSE 0)
      /\ sender' = seal_at(IF owes(merged) THEN mint_if_owed(merged, t + 1) ELSE merged, t, pos, HasEph)
  BY DEF mint_on, post_live
<1>3. /\ t \in Txs /\ t \in Nat /\ minted' \in Nat /\ minted < minted' /\ minted' <= MaxTxs
      /\ minted <= minted'
  BY <1>1, <1>2 DEF Txs
<1>4. /\ sender.log \cup {t} \in SUBSET Txs /\ sender.records \cup {t} \in SUBSET Txs
      /\ sender.since \in Nat
  BY <1>1, <1>3, SenderFields
<1>5. PICK L \in SUBSET Txs, R \in SUBSET Txs : L = sender.log \cup {t} /\ R = sender.records \cup {t}
  BY <1>4
<1>6. merged = [sender EXCEPT !.log = L, !.records = R, !.since = sender.since]
  BY <1>1, <1>5 DEF Senders
<1> HIDE DEF merged
<1>7. /\ Fit(merged, minted) /\ merged.log = L /\ merged.records = R
      /\ merged.pending = sender.pending /\ merged.writes = sender.writes
      /\ merged.send = sender.send /\ merged.eph = sender.eph
      /\ Queued(merged) = Queued(sender) /\ sending_chain(merged) = sending_chain(sender)
  <2>1. Fit(merged, minted) /\ Merged(sender, L, R, merged)
    BY <1>1, <1>4, <1>6, MergeFit, Zenon
  <2> QED
    BY <2>1 DEF Merged
<1>8. pos \in Nat /\ pos <= minted /\ pos < minted'
  BY <1>1, <1>3, <1>7, ChainFit
<1> HIDE DEF pos
<1>9. CASE ~owes(merged)
  <2>1. sender' = seal_at(merged, t, pos, HasEph)
    BY <1>2, <1>9
  <2>2. t \in merged.log
    BY <1>5, <1>7
  <2> HIDE DEF t
  <2>3. Fit(sender', minted') /\ Sealed(merged, t, pos, HasEph, sender')
    <3>1. Fit(merged, minted)
      BY <1>7
    <3> QED
      BY <1>1, <1>3, <1>8, <2>1, <2>2, <3>1, SealFit
  <2>4. PICK pkt \in Packets :
            /\ pkt.tx = t /\ pkt.pos = pos
            /\ Queued(sender') = Queued(merged) \cup {pkt} /\ sender'.eph \subseteq merged.eph \cup {pkt}
            /\ HasEph => /\ sender'.pending = Append(merged.pending, [pkt |-> pkt, at |-> now])
                         /\ sender'.writes = merged.writes /\ sender'.send = merged.send
            /\ ~HasEph => /\ sender'.pending = merged.pending
                          /\ sender'.writes = merged.writes \cup {pkt} /\ sender'.send = pos + 1
    BY <2>3 DEF Sealed
  <2>5. pkt.pos = sending_chain(sender)
    BY <1>7, <2>4 DEF pos
  <2>6. sender'.log = sender.log \cup {pkt.tx} /\ sender'.records = sender.records \cup {pkt.tx}
    BY <1>5, <1>7, <2>3, <2>4 DEF Sealed
  <2>7. \A u \in sender'.log : u \in sender.log \/ \E p \in Queued(sender') : p.tx = u
    BY <2>4, <2>6
  <2> QED
    BY <1>3, <1>7, <2>3, <2>4, <2>5, <2>6, <2>7
<1>10. CASE owes(merged)
  <2> DEFINE o == t + 1
             both == [merged EXCEPT !.log = @ \cup {o}, !.since = 0]
             mid == mint_if_owed(merged, o)
  <2>1. mid = seal_at(both, o, sending_chain(both), FALSE) /\ sender' = seal_at(mid, t, pos, HasEph)
    BY <1>2, <1>10 DEF mint_if_owed
  <2>2. o \in Txs /\ merged.log \cup {o} \in SUBSET Txs /\ merged \in Senders /\ ~IsSync
    BY <1>2, <1>3, <1>7, <1>10 DEF Txs, owes, Fit
  <2>3. PICK M \in SUBSET Txs : M = merged.log \cup {o}
    BY <2>2
  <2>4. both = [merged EXCEPT !.log = M, !.records = R, !.since = 0]
    BY <1>7, <2>2, <2>3 DEF Senders
  <2> HIDE DEF both
  <2>5. /\ Fit(both, minted) /\ both.log = M /\ Queued(both) = Queued(merged)
        /\ sending_chain(both) = sending_chain(merged)
    <3>1. 0 \in Nat
      OBVIOUS
    <3>2. Fit(both, minted) /\ Merged(merged, M, R, both)
      BY <1>1, <1>7, <2>4, <3>1, MergeFit, Zenon
    <3> QED
      BY <3>2 DEF Merged
  <2>6. o \in both.log
    BY <2>3, <2>5
  <2>7. t \in both.log
    BY <1>5, <1>7, <2>3, <2>5
  <2>8. sending_chain(both) = pos
    BY <2>5 DEF pos
  <2> HIDE DEF o, t, mid
  <2>9. /\ Fit(mid, minted') /\ mid.log = both.log
        /\ \E pkt \in Packets : pkt.tx = o /\ Queued(mid) = Queued(both) \cup {pkt}
    <3>1. Fit(mid, minted') /\ Sealed(both, o, pos, FALSE, mid)
      BY <1>1, <1>3, <1>8, <2>1, <2>5, <2>6, <2>8, SealFit, Zenon
    <3> QED
      BY <3>1 DEF Sealed
  <2>10. t \in mid.log
    BY <2>7, <2>9
  <2>11. /\ Fit(sender', minted') /\ sender'.log = mid.log
         /\ \E pkt \in Packets : pkt.tx = t /\ Queued(sender') = Queued(mid) \cup {pkt}
    <3>1. minted' <= minted'
      BY <1>3
    <3>2. Fit(sender', minted') /\ Sealed(mid, t, pos, HasEph, sender')
      BY <1>1, <1>3, <1>8, <2>1, <2>9, <2>10, <3>1, SealFit, Zenon
    <3> QED
      BY <3>2 DEF Sealed
  <2>12. sender'.log = sender.log \cup {t, o}
    BY <1>5, <1>7, <2>3, <2>5, <2>9, <2>11
  <2>13. \A u \in sender'.log : u \in sender.log \/ \E p \in Queued(sender') : p.tx = u
    BY <2>9, <2>11, <2>12
  <2> QED
    BY <1>3, <1>7, <2>2, <2>5, <2>9, <2>11, <2>13
<1> QED
  BY <1>9, <1>10

\* settle_live drops packets whose set the acknowledgement names, and no others.
LEMMA SettleSender ==
    ASSUME NEW s \in Senders, NEW ids, NEW r, r = settle_live(s, ids)
    PROVE  /\ r \in Senders
           /\ r.log = s.log /\ r.records = s.records /\ r.eph = s.eph
           /\ r.writes = s.writes /\ r.send = s.send
           /\ Queued(r) \subseteq Queued(s)
           /\ \A pkt \in Queued(s) : pkt \in Queued(r) \/ pkt.ids = ids
           /\ \A at : Ordered(s, at) => Ordered(r, at)
<1> DEFINE keep == {i \in 1 .. Len(s.pending) : s.pending[i].pkt.ids # ids}
           p == retain(s.pending, keep)
<1>1. keep \in SUBSET (1 .. Len(s.pending))
  OBVIOUS
<1>2. \A i \in 1 .. Len(s.pending) : i \in keep \/ s.pending[i].pkt.ids = ids
  OBVIOUS
<1>3. r = [s EXCEPT !.pending = p]
  BY DEF settle_live, Senders
<1> HIDE DEF keep
<1>4. /\ p \in Seq(Waiting) /\ Len(p) \in Nat
      /\ \A k \in 1 .. Len(p) : \E i \in keep : p[k] = s.pending[i]
      /\ \A i \in keep : \E k \in 1 .. Len(p) : p[k] = s.pending[i]
      /\ \A j, k \in 1 .. Len(p) : j < k =>
            \E a, b \in keep : a < b /\ p[j] = s.pending[a] /\ p[k] = s.pending[b]
  <2>1. s.pending \in Seq(Waiting)
    BY SenderFields
  <2>2. p \in Seq(Waiting) /\ Len(p) \in Nat /\ Picked(s.pending, keep, p)
    BY <1>1, <2>1, RetainedSeq
  <2> QED
    BY <2>2 DEF Picked
<1> HIDE DEF p
<1>5. /\ r \in Senders /\ r.pending = p
      /\ r.log = s.log /\ r.records = s.records /\ r.eph = s.eph
      /\ r.writes = s.writes /\ r.send = s.send
  BY <1>3, <1>4 DEF Senders, Waiting
<1>6. ASSUME NEW x \in Queued(r) PROVE x \in Queued(s)
  <2>1. CASE x \in r.writes
    BY <1>5, <2>1, QueuedIs
  <2>2. ASSUME NEW k \in 1 .. Len(p), x = p[k].pkt PROVE x \in Queued(s)
    BY <1>1, <1>4, <2>2, QueuedIs
  <2> QED
    BY <1>5, <2>1, <2>2, QueuedIs
<1>7. ASSUME NEW x \in Queued(s), x.ids # ids PROVE x \in Queued(r)
  <2>1. CASE x \in s.writes
    BY <1>5, <2>1, QueuedIs
  <2>2. ASSUME NEW i \in 1 .. Len(s.pending), x = s.pending[i].pkt PROVE x \in Queued(r)
    <3>1. i \in keep
      BY <1>2, <1>7, <2>2
    <3>2. PICK k \in 1 .. Len(p) : p[k] = s.pending[i]
      BY <1>4, <3>1
    <3> QED
      BY <1>5, <2>2, <3>2, QueuedIs
  <2> QED
    BY <2>1, <2>2, QueuedIs
<1>8. ASSUME NEW at, Ordered(s, at) PROVE Ordered(r, at)
  <2>1. ~HasEph => p = <<>>
    <3> SUFFICES ASSUME ~HasEph PROVE p = <<>>
      OBVIOUS
    <3>1. s.pending = <<>>
      BY <1>8 DEF Ordered
    <3>2. keep = {}
      BY <1>1, <3>1
    <3>3. 1 .. Len(p) = {}
      BY <1>4, <3>2
    <3> QED
      BY <1>4, <3>3
  <2>2. \A k \in 1 .. Len(p) : p[k].at <= at /\ p[k].pkt.pos >= s.send
    <3> TAKE k \in 1 .. Len(p)
    <3>1. PICK i \in 1 .. Len(s.pending) : p[k] = s.pending[i]
      BY <1>1, <1>4
    <3> QED
      BY <1>8, <3>1 DEF Ordered
  <2>3. \A j, k \in 1 .. Len(p) : j < k => p[j].pkt.pos < p[k].pkt.pos /\ p[j].at <= p[k].at
    <3> SUFFICES ASSUME NEW j \in 1 .. Len(p), NEW k \in 1 .. Len(p), j < k
                 PROVE  p[j].pkt.pos < p[k].pkt.pos /\ p[j].at <= p[k].at
      OBVIOUS
    <3>1. PICK a \in keep, b \in keep : a < b /\ p[j] = s.pending[a] /\ p[k] = s.pending[b]
      BY <1>4
    <3>2. a \in 1 .. Len(s.pending) /\ b \in 1 .. Len(s.pending)
      BY <1>1
    <3> QED
      BY <1>8, <3>1, <3>2 DEF Ordered
  <2> QED
    BY <1>5, <1>8, <2>1, <2>2, <2>3 DEF Ordered
<1> QED
  BY <1>5, <1>6, <1>7, <1>8

\* r is s after the packets that are due at the time at were written.
Flushed(s, at, r) ==
    /\ r.log = s.log /\ r.records = s.records /\ r.eph = s.eph
    /\ Queued(r) = Queued(s)
    /\ \A before \in Nat : before <= at /\ Ordered(s, before) =>
        /\ Ordered(r, at) /\ s.send <= r.send
        /\ \A a \in r.writes : a \in s.writes \/ a.pos >= s.send
        /\ \A a, b \in r.writes : a \notin s.writes /\ b \notin s.writes /\ a.pos = b.pos => a = b

\* flush_live of packets that are due: they are written, in their order, and the
\* chain is set behind them.
LEMMA FlushSender ==
    ASSUME NEW s, NEW n \in Nat, n <= MaxTxs, Fit(s, n), NEW at \in Nat, NEW r, r = flush_live(s, at)
    PROVE  Fit(r, n) /\ Flushed(s, at, r)
<1> DEFINE D == due(s, at)
           last == CHOOSE i \in D : \A j \in D : j <= i
           keep == (1 .. Len(s.pending)) \ D
           w == s.writes \cup {s.pending[i].pkt : i \in D}
           next == s.pending[last].pkt.pos + 1
           p == retain(s.pending, keep)
<1>1. s \in Senders /\ s.send \in Nat /\ s.send <= n /\ s.pending \in Seq(Waiting) /\ Len(s.pending) \in Nat
  BY SenderFields DEF Fit
<1>2. D \in SUBSET (1 .. Len(s.pending)) /\ keep \in SUBSET (1 .. Len(s.pending))
  BY DEF due
<1>3. \A i \in 1 .. Len(s.pending) :
        /\ s.pending[i].pkt \in Packets /\ s.pending[i].pkt \in Queued(s)
        /\ s.pending[i].pkt.pos \in Nat /\ s.pending[i].pkt.pos < n /\ s.pending[i].at \in Nat
  <2> TAKE i \in 1 .. Len(s.pending)
  <2>1. s.pending[i].pkt \in Queued(s)
    BY QueuedIs
  <2> QED
    BY <1>1, <2>1, PendingFields DEF Fit
<1>4. CASE D = {}
  <2>1. r = s
    BY <1>4 DEF flush_live
  <2>2. ASSUME NEW before \in Nat, before <= at, Ordered(s, before) PROVE Ordered(s, at)
    <3>1. \A i \in 1 .. Len(s.pending) : s.pending[i].at <= at
      BY <1>3, <2>2 DEF Ordered
    <3> QED
      BY <2>2, <3>1 DEF Ordered
  <2> QED
    BY <1>1, <2>1, <2>2 DEF Flushed
<1>5. CASE D # {}
  <2>1. r = [s EXCEPT !.writes = w, !.send = next, !.pending = p]
    BY <1>1, <1>5 DEF flush_live, Senders
  <2>2. last \in D /\ \A j \in D : j <= last
    <3>1. \E i \in D : \A j \in D : j <= i
      BY <1>1, <1>2, <1>5, LastPosition
    <3> QED
      BY <3>1
  <2>3. /\ last \in 1 .. Len(s.pending) /\ s.pending[last].pkt.pos \in Nat
        /\ next \in Nat /\ next <= n /\ next \in Positions
    <3>1. last \in 1 .. Len(s.pending)
      BY <1>2, <2>2
    <3> HIDE DEF last
    <3>2. s.pending[last].pkt.pos \in Nat /\ s.pending[last].pkt.pos < n
      BY <1>3, <3>1
    <3>3. next \in Nat /\ next <= n
      BY <3>2
    <3>4. next \in 0 .. MaxTxs
      <4> HIDE DEF next
      <4> QED
        BY <3>3, LivePathAssumption
    <3> QED
      BY <3>1, <3>2, <3>3, <3>4 DEF Positions
  <2> HIDE DEF last
  <2>4. /\ p \in Seq(Waiting) /\ Len(p) \in Nat
        /\ \A k \in 1 .. Len(p) : \E i \in keep : p[k] = s.pending[i]
        /\ \A i \in keep : \E k \in 1 .. Len(p) : p[k] = s.pending[i]
        /\ \A j, k \in 1 .. Len(p) : j < k =>
            \E a, b \in keep : a < b /\ p[j] = s.pending[a] /\ p[k] = s.pending[b]
    <3> HIDE DEF keep
    <3>1. p \in Seq(Waiting) /\ Len(p) \in Nat /\ Picked(s.pending, keep, p)
      BY <1>1, <1>2, RetainedSeq
    <3> HIDE DEF p
    <3> QED
      BY <3>1 DEF Picked
  <2>5. w \in SUBSET Packets
    BY <1>1, <1>2, <1>3, SenderFields
  <2>6. \A x : x \in w <=> x \in s.writes \/ \E i \in D : x = s.pending[i].pkt
    OBVIOUS
  <2>7. \A i \in 1 .. Len(s.pending) : i \in keep <=> i \notin D
    OBVIOUS
  <2>8. \A i \in 1 .. Len(s.pending) : i \in D <=> at >= s.pending[i].at + Fallback
    BY DEF due
  <2> HIDE DEF D, keep, p, w, next
  <2>9. /\ r \in Senders /\ r.pending = p /\ r.writes = w /\ r.send = next
        /\ r.log = s.log /\ r.records = s.records /\ r.eph = s.eph
    BY <1>1, <2>1, <2>3, <2>4, <2>5 DEF Senders, Waiting
  <2>10. ASSUME NEW x PROVE x \in Queued(r) <=> x \in Queued(s)
    <3>1. ASSUME NEW k \in 1 .. Len(p), x = p[k].pkt PROVE x \in Queued(s)
      BY <1>2, <2>4, <3>1, QueuedIs
    <3>2. x \in w => x \in Queued(s)
      BY <1>2, <2>6, QueuedIs
    <3>3. ASSUME NEW i \in 1 .. Len(s.pending), x = s.pending[i].pkt PROVE x \in Queued(r)
      <4>1. CASE i \in D
        BY <2>6, <2>9, <3>3, <4>1, QueuedIs
      <4>2. CASE i \in keep
        <5>1. PICK k \in 1 .. Len(p) : p[k] = s.pending[i]
          BY <2>4, <4>2
        <5>2. k \in 1 .. Len(r.pending) /\ r.pending[k].pkt = x
          BY <2>9, <3>3, <5>1
        <5> QED BY <5>2, QueuedIs
      <4> QED
        BY <2>7, <4>1, <4>2
    <3>4. x \in s.writes => x \in Queued(r)
      BY <2>6, <2>9, QueuedIs
    <3> QED
      BY <2>9, <3>1, <3>2, <3>3, <3>4, QueuedIs
  <2>11. Queued(r) = Queued(s)
    BY <2>10
  <2>12. Fit(r, n)
    BY <2>3, <2>9, <2>11 DEF Fit
  <2>13. ASSUME NEW before \in Nat, before <= at, Ordered(s, before)
         PROVE  /\ Ordered(r, at) /\ s.send <= r.send
                /\ \A a \in r.writes : a \in s.writes \/ a.pos >= s.send
                /\ \A a, b \in r.writes : a \notin s.writes /\ b \notin s.writes /\ a.pos = b.pos => a = b
    <3>1. /\ \A i \in 1 .. Len(s.pending) : s.pending[i].at <= at /\ s.pending[i].pkt.pos >= s.send
          /\ \A i, j \in 1 .. Len(s.pending) :
                i < j => s.pending[i].pkt.pos < s.pending[j].pkt.pos /\ s.pending[i].at <= s.pending[j].at
      <4>1. \A i \in 1 .. Len(s.pending) : s.pending[i].at <= before /\ s.pending[i].pkt.pos >= s.send
        BY <2>13 DEF Ordered
      <4>2. \A i \in 1 .. Len(s.pending) : s.pending[i].at <= at
        BY <1>3, <2>13, <4>1
      <4> QED
        BY <2>13, <4>1, <4>2 DEF Ordered
    <3>2. next = s.pending[last].pkt.pos + 1 /\ s.send < next
      BY <1>1, <2>3, <3>1 DEF next
    <3>3. \A i \in keep : s.pending[i].pkt.pos >= next
      <4> TAKE i \in keep
      <4>1. i \in 1 .. Len(s.pending) /\ i \notin D /\ ~(at >= s.pending[i].at + Fallback)
        BY <1>2, <2>7, <2>8
      <4>2. at >= s.pending[last].at + Fallback /\ s.pending[last].at \in Nat /\ s.pending[i].at \in Nat
        BY <1>3, <2>2, <2>3, <2>8, <4>1
      <4>3. ~(s.pending[i].at <= s.pending[last].at)
        <5>1. Fallback \in Nat
          BY LivePathAssumption
        <5>2. \A x, y \in Nat : at >= y + Fallback /\ ~(at >= x + Fallback) => ~(x <= y)
          BY <5>1
        <5> QED
          BY <4>1, <4>2, <5>2
      <4>4. i # last /\ ~(i < last)
        BY <2>3, <3>1, <4>1, <4>2, <4>3
      <4>5. last < i
        BY <1>1, <2>3, <4>1, <4>4
      <4>6. s.pending[last].pkt.pos < s.pending[i].pkt.pos
        BY <2>3, <3>1, <4>1, <4>5
      <4>7. PICK a \in Nat, b \in Nat : a = s.pending[last].pkt.pos /\ b = s.pending[i].pkt.pos
        BY <1>3, <2>3, <4>1
      <4>8. a < b /\ next = a + 1
        BY <3>2, <4>6, <4>7
      <4> QED
        BY <4>7, <4>8
    <3>4. \A i \in D : s.pending[i].pkt.pos < next
      <4> TAKE i \in D
      <4>1. i \in 1 .. Len(s.pending) /\ (i = last \/ i < last)
        BY <1>1, <1>2, <2>2, <2>3
      <4>2. i = last \/ s.pending[i].pkt.pos < s.pending[last].pkt.pos
        BY <2>3, <3>1, <4>1
      <4>3. PICK a \in Nat, b \in Nat : a = s.pending[last].pkt.pos /\ b = s.pending[i].pkt.pos
        BY <1>3, <2>3, <4>1
      <4>4. (a = b \/ b < a) /\ next = a + 1
        BY <3>2, <4>2, <4>3
      <4> QED
        BY <4>3, <4>4
    <3>5. ~HasEph => p = <<>>
      <4> SUFFICES ASSUME ~HasEph PROVE p = <<>>
        OBVIOUS
      <4>1. s.pending = <<>>
        BY <2>13 DEF Ordered
      <4> QED
        BY <2>3, <4>1
    <3>6. \A k \in 1 .. Len(p) : p[k].at <= at /\ p[k].pkt.pos >= next
      BY <1>2, <2>4, <3>1, <3>3
    <3>7. ASSUME NEW j \in 1 .. Len(p), NEW k \in 1 .. Len(p), j < k
          PROVE  p[j].pkt.pos < p[k].pkt.pos /\ p[j].at <= p[k].at
      <4>1. PICK a \in 1 .. Len(s.pending), b \in 1 .. Len(s.pending) :
                a < b /\ p[j] = s.pending[a] /\ p[k] = s.pending[b]
        BY <1>2, <2>4, <3>7
      <4> QED
        BY <3>1, <4>1
    <3>8. \A x \in s.writes : x.pos \in Nat /\ x.pos < s.send
      BY <1>1, <2>13, SenderFields, PacketFields DEF Ordered
    <3>9. ASSUME NEW x \in w PROVE x.pos < next
      <4>1. CASE x \in s.writes
        <5>1. x.pos \in Nat /\ x.pos < s.send /\ s.send < next /\ s.send \in Nat /\ next \in Nat
          BY <1>1, <2>3, <3>2, <3>8, <4>1, SenderFields
        <5> QED BY <5>1
      <4>2. ASSUME NEW i \in D, x = s.pending[i].pkt PROVE x.pos < next
        BY <3>4, <4>2
      <4> QED BY <2>6, <4>1, <4>2
    <3>10. Ordered(r, at)
      BY <2>9, <3>5, <3>6, <3>7, <3>9 DEF Ordered
    <3>11. \A a \in w : a \in s.writes \/ a.pos >= s.send
      BY <1>2, <2>6, <3>1
    <3>12. ASSUME NEW a \in w, NEW b \in w, a \notin s.writes, b \notin s.writes, a.pos = b.pos
           PROVE  a = b
      <4>1. PICK i \in 1 .. Len(s.pending), j \in 1 .. Len(s.pending) :
                a = s.pending[i].pkt /\ b = s.pending[j].pkt
        BY <1>2, <2>6, <3>12
      <4>2. ~(i < j) /\ ~(j < i)
        BY <1>3, <3>1, <3>12, <4>1
      <4> QED
        BY <4>1, <4>2
    <3> QED
      BY <1>1, <2>3, <2>9, <3>2, <3>10, <3>11, <3>12
  <2> QED
    BY <2>9, <2>11, <2>12, <2>13 DEF Flushed
<1> QED
  BY <1>4, <1>5

\* NothingForgotten, of the queue as a whole.
Covered(s, channel, held) ==
    \A t \in s.log : t \in held \/ \E pkt \in Queued(s) \cup channel : pkt.tx = t

\* It says the same of pending packets and writes.
LEMMA ForgottenIs ==
    /\ NothingForgotten <=> (crashes = 0 => Covered(sender, store, got))
    /\ NothingForgotten' <=> (crashes' = 0 => Covered(sender', store', got'))
BY DEF NothingForgotten, Covered, Queued, Pending, Uninterrupted

\* OrderInv without the name of its condition.
LEMMA OrderIs ==
    /\ OrderInv <=> (IsSync /\ crashes = 0 => Ordered(sender, now) /\ ChannelInv)
    /\ OrderInv' <=> (IsSync /\ crashes' = 0 => Ordered(sender', now') /\ ChannelInv')
BY DEF OrderInv, Uninterrupted, Ordered

\* The parts of the invariant, and the types that the steps use.
LEMMA Parts ==
    ASSUME IInv
    PROVE  /\ TypeOK /\ Fit(sender, minted) /\ FarInv /\ LogInv /\ OrderInv /\ NothingForgotten
           /\ LastAckSound /\ sender \in Senders /\ minted \in Nat /\ minted <= MaxTxs /\ now \in Nat
           /\ recv \in Nat /\ store \subseteq Packets /\ sender.writes \subseteq Packets
           /\ sender.eph \subseteq Packets /\ sender.send \in Nat /\ Queued(sender) \subseteq Packets
           /\ crashes \in Nat
<1>1. /\ TypeOK /\ Fit(sender, minted) /\ FarInv /\ LogInv /\ OrderInv /\ NothingForgotten
      /\ LastAckSound
  BY DEF IInv
<1>2. sender \in Senders /\ minted \in 0 .. MaxTxs /\ now \in 0 .. MaxClock /\ recv \in 0 .. MaxTxs
      /\ crashes \in 0 .. MaxCrashes /\ store \subseteq Packets
  BY <1>1 DEF TypeOK, Positions
<1>3. minted \in Nat /\ minted <= MaxTxs /\ now \in Nat /\ recv \in Nat /\ crashes \in Nat
  BY <1>2, LivePathAssumption
<1> QED
  BY <1>1, <1>2, <1>3, SenderFields, PendingFields

\* In order, the next position is behind every packet that was sent.
LEMMA ChainAfter ==
    ASSUME NEW s \in Senders, NEW at, Ordered(s, at)
    PROVE  /\ sending_chain(s) \in Nat /\ sending_chain(s) >= s.send
           /\ \A i \in 1 .. Len(s.pending) : s.pending[i].pkt.pos < sending_chain(s)
<1>1. s.send \in Nat /\ s.pending \in Seq(Waiting) /\ Len(s.pending) \in Nat
  BY SenderFields
<1>2. \A i \in 1 .. Len(s.pending) : s.pending[i].pkt.pos \in Nat /\ s.pending[i].pkt.pos >= s.send
  BY PendingFields DEF Ordered
<1>3. CASE s.pending = <<>>
  <2>1. sending_chain(s) = s.send /\ 1 .. Len(s.pending) = {}
    BY <1>3 DEF sending_chain
  <2> QED
    BY <1>1, <2>1
<1>4. CASE s.pending # <<>>
  <2> DEFINE n == Len(s.pending)
  <2>1. n \in 1 .. n
    BY <1>1, <1>4
  <2>2. sending_chain(s) = s.pending[n].pkt.pos + 1
    BY <1>4 DEF sending_chain
  <2>3. \A i \in 1 .. n : i = n \/ i < n
    BY <1>1
  <2>4. \A i \in 1 .. n : i < n => s.pending[i].pkt.pos < s.pending[n].pkt.pos
    BY <2>1 DEF Ordered
  <2> HIDE DEF n
  <2>5. \A i \in 1 .. n : s.pending[i].pkt.pos < s.pending[n].pkt.pos + 1
    <3> TAKE i \in 1 .. n
    <3>1. s.pending[i].pkt.pos \in Nat /\ s.pending[n].pkt.pos \in Nat
      BY <1>2, <2>1 DEF n
    <3> QED
      BY <2>3, <2>4, <3>1
  <2>6. s.pending[n].pkt.pos \in Nat /\ s.pending[n].pkt.pos >= s.send
    BY <1>2, <2>1 DEF n
  <2> QED
    BY <1>1, <2>2, <2>5, <2>6 DEF n
<1> QED
  BY <1>3, <1>4

\* A packet that waits behind the others keeps their order.
LEMMA WaitOrdered ==
    ASSUME NEW s \in Senders, Ordered(s, now), now \in Nat, HasEph, NEW r \in Senders, NEW pkt \in Packets,
           pkt.pos = sending_chain(s), r.pending = Append(s.pending, [pkt |-> pkt, at |-> now]),
           r.writes = s.writes, r.send = s.send
    PROVE  Ordered(r, now)
<1> DEFINE n == Len(s.pending)
<1>1. s.pending \in Seq(Waiting) /\ n \in Nat /\ s.send \in Nat
  BY SenderFields
<1>2. /\ Len(r.pending) = n + 1 /\ r.pending[n + 1].pkt = pkt /\ r.pending[n + 1].at = now
      /\ \A i \in 1 .. n : r.pending[i] = s.pending[i]
  BY <1>1
<1>3. \A i \in 1 .. n + 1 : i \in 1 .. n \/ i = n + 1
  BY <1>1
<1>4. /\ pkt.pos >= s.send
      /\ \A i \in 1 .. n : s.pending[i].pkt.pos < pkt.pos
  BY ChainAfter
<1>5. \A i \in 1 .. n + 1 : r.pending[i].at <= now /\ r.pending[i].pkt.pos >= s.send
  BY <1>2, <1>3, <1>4 DEF Ordered
<1>6. ASSUME NEW i \in 1 .. n + 1, NEW j \in 1 .. n + 1, i < j
      PROVE  r.pending[i].pkt.pos < r.pending[j].pkt.pos /\ r.pending[i].at <= r.pending[j].at
  <2>1. CASE j \in 1 .. n
    <3>1. i \in 1 .. n
      BY <1>1, <1>6, <2>1
    <3> QED
      BY <1>2, <1>6, <2>1, <3>1 DEF Ordered
  <2>2. CASE j = n + 1
    <3>1. i \in 1 .. n
      BY <1>1, <1>6, <2>2
    <3> QED
      BY <1>2, <1>4, <2>2, <3>1 DEF Ordered
  <2> QED
    BY <1>3, <2>1, <2>2
<1> QED
  BY <1>2, <1>5, <1>6 DEF Ordered

\* mint_on
LEMMA MintStep ==
    ASSUME IInv, mint_on
    PROVE  IInv'
<1>1. /\ TypeOK /\ Fit(sender, minted) /\ FarInv /\ LogInv /\ OrderInv /\ NothingForgotten
      /\ LastAckSound /\ sender \in Senders /\ minted \in Nat /\ minted <= MaxTxs /\ now \in Nat
      /\ recv \in Nat /\ store \subseteq Packets /\ sender.writes \subseteq Packets
      /\ sender.send \in Nat
  BY Parts
<1>2. UNCHANGED <<now, store, recv, got, last_ack, acks, saved, crashes>>
  BY DEF mint_on, receiver
<1>3. /\ minted' \in Nat /\ minted < minted' /\ minted' <= MaxTxs
      /\ Fit(sender', minted')
      /\ Queued(sender) \subseteq Queued(sender')
      /\ \A t \in sender'.log : t \in sender.log \/ \E pkt \in Queued(sender') : pkt.tx = t
  BY MintSender
<1>4. sender' \in Senders
  BY <1>3 DEF Fit
<1>5. TypeOK'
  <2>1. minted' \in 0 .. MaxTxs
    BY <1>3, LivePathAssumption
  <2> QED
    BY <1>1, <1>2, <1>4, <2>1 DEF TypeOK
<1>6. FarInv'
  <2>1. \A pkt \in store : pkt.pos \in Nat /\ pkt.pos < minted
    BY <1>1, PacketFields DEF FarInv
  <2>2. \A pkt \in store : pkt.pos < minted'
    BY <1>1, <1>3, <2>1
  <2>3. saved.send \in Nat /\ saved.send <= minted
    BY <1>1, LivePathAssumption DEF TypeOK, Positions, FarInv
  <2>4. saved.send <= minted'
    BY <1>1, <1>3, <2>3
  <2> QED
    BY <1>1, <1>2, <2>2, <2>4 DEF FarInv
<1>7. NothingForgotten'
  <2>1. crashes = 0 => Covered(sender, store, got)
    BY <1>1, ForgottenIs
  <2>2. crashes = 0 => Covered(sender', store, got)
    BY <1>3, <2>1 DEF Covered
  <2> QED
    BY <1>2, <2>2, ForgottenIs
<1>8. LastAckSound'
  BY <1>1, <1>2 DEF LastAckSound
<1>9. CASE IsSync
  <2>1. PICK pkt \in Packets :
            /\ sender'.log = sender.log \cup {pkt.tx}
            /\ sender'.records = sender.records \cup {pkt.tx}
            /\ pkt.pos = sending_chain(sender)
            /\ Queued(sender') = Queued(sender) \cup {pkt}
            /\ sender'.eph \subseteq sender.eph \cup {pkt}
            /\ HasEph => /\ sender'.pending = Append(sender.pending, [pkt |-> pkt, at |-> now])
                         /\ sender'.writes = sender.writes /\ sender'.send = sender.send
            /\ ~HasEph => /\ sender'.pending = sender.pending
                          /\ sender'.writes = sender.writes \cup {pkt}
                          /\ sender'.send = pkt.pos + 1
    BY <1>9, MintSender
  <2>2. LogInv'
    BY <1>1, <1>2, <2>1 DEF LogInv
  <2>3. ASSUME crashes = 0 PROVE Ordered(sender', now) /\ ChannelInv'
    <3>1. Ordered(sender, now) /\ ChannelInv
      BY <1>1, <1>9, <2>3, OrderIs
    <3>2. /\ pkt.pos \in Nat /\ pkt.pos >= sender.send
      BY <1>1, <2>1, <3>1, ChainAfter
    <3>3. /\ \A a \in store : a.pos \in Nat /\ a.pos < sender.send
          /\ \A a \in sender.writes : a.pos \in Nat /\ a.pos < sender.send
      BY <1>1, <3>1, PacketFields DEF ChannelInv, Ordered
    <3>4. CASE HasEph
      <4>1. Ordered(sender', now)
        BY <1>1, <1>4, <2>1, <3>1, <3>4, WaitOrdered
      <4> QED
        BY <1>2, <2>1, <3>1, <3>4, <4>1 DEF ChannelInv
    <3>5. CASE ~HasEph
      <4>1. sender.pending = <<>>
        BY <3>1, <3>5 DEF Ordered
      <4>2. sender'.pending = <<>> /\ 1 .. Len(sender'.pending) = {}
        BY <2>1, <3>5, <4>1
      <4>3. \A a \in sender'.writes : a.pos < sender'.send
        BY <1>1, <2>1, <3>2, <3>3, <3>5
      <4>4. Ordered(sender', now)
        BY <4>2, <4>3 DEF Ordered
      <4>5. \A a \in store : a.pos < sender'.send /\ a.pos < pkt.pos
        BY <1>1, <2>1, <3>2, <3>3, <3>5
      <4>6. \A a \in sender.writes : a.pos < pkt.pos
        BY <1>1, <3>2, <3>3
      <4>7. \A a, b \in sender'.writes \cup store : a.pos = b.pos => a = b
        BY <2>1, <3>1, <3>2, <3>3, <3>5, <4>5, <4>6 DEF ChannelInv
      <4> QED
        BY <1>2, <2>1, <3>1, <3>5, <4>4, <4>5, <4>7 DEF ChannelInv
    <3> QED
      BY <3>4, <3>5
  <2>4. OrderInv'
    BY <1>2, <2>3, OrderIs
  <2> QED
    BY <1>3, <1>5, <1>6, <1>7, <1>8, <2>2, <2>4 DEF IInv, Fit
<1>10. CASE ~IsSync
  BY <1>3, <1>5, <1>6, <1>7, <1>8, <1>10 DEF IInv, Fit, LogInv, OrderInv
<1> QED
  BY <1>9, <1>10

\* tick, flush_live included.
LEMMA TickStep ==
    ASSUME IInv, tick
    PROVE  IInv'
<1>1. /\ TypeOK /\ Fit(sender, minted) /\ FarInv /\ LogInv /\ OrderInv /\ NothingForgotten
      /\ LastAckSound /\ sender \in Senders /\ minted \in Nat /\ minted <= MaxTxs /\ now \in Nat
      /\ recv \in Nat /\ store \subseteq Packets /\ sender.writes \subseteq Packets
      /\ sender.send \in Nat
  BY Parts
<1>2. /\ now < MaxClock /\ now' = now + 1 /\ sender' = flush_live(sender, now + 1)
      /\ UNCHANGED <<minted, store, recv, got, last_ack, acks, saved, crashes>>
  BY DEF tick, receiver
<1>3. now' \in 0 .. MaxClock /\ now' \in Nat /\ now <= now' /\ sender' = flush_live(sender, now')
  BY <1>1, <1>2, LivePathAssumption
<1>4. /\ Fit(sender', minted)
      /\ sender'.log = sender.log /\ sender'.records = sender.records /\ sender'.eph = sender.eph
      /\ Queued(sender') = Queued(sender)
      /\ \A before \in Nat : before <= now' /\ Ordered(sender, before) =>
            /\ Ordered(sender', now') /\ sender.send <= sender'.send
            /\ \A a \in sender'.writes : a \in sender.writes \/ a.pos >= sender.send
            /\ \A a, b \in sender'.writes :
                a \notin sender.writes /\ b \notin sender.writes /\ a.pos = b.pos => a = b
  <2>1. Fit(sender', minted) /\ Flushed(sender, now', sender')
    BY <1>1, <1>3, FlushSender
  <2> QED
    BY <2>1 DEF Flushed
<1>5. sender' \in Senders
  BY <1>4 DEF Fit
<1>6. TypeOK'
  BY <1>1, <1>2, <1>3, <1>5 DEF TypeOK
<1>7. FarInv' /\ LogInv' /\ LastAckSound'
  BY <1>1, <1>2, <1>4 DEF FarInv, LogInv, LastAckSound
<1>8. NothingForgotten'
  <2>1. crashes = 0 => Covered(sender, store, got)
    BY <1>1, ForgottenIs
  <2>2. crashes = 0 => Covered(sender', store, got)
    BY <1>4, <2>1 DEF Covered
  <2> QED
    BY <1>2, <2>2, ForgottenIs
<1>9. OrderInv'
  <2> SUFFICES ASSUME IsSync, crashes = 0 PROVE Ordered(sender', now') /\ ChannelInv'
    BY <1>2, OrderIs
  <2>1. Ordered(sender, now) /\ ChannelInv
    BY <1>1, OrderIs
  <2>2. /\ Ordered(sender', now') /\ sender.send <= sender'.send
        /\ \A a \in sender'.writes : a \in sender.writes \/ a.pos >= sender.send
        /\ \A a, b \in sender'.writes :
                a \notin sender.writes /\ b \notin sender.writes /\ a.pos = b.pos => a = b
    BY <1>1, <1>3, <1>4, <2>1
  <2>3. sender'.send \in Nat /\ sender'.writes \subseteq Packets
    BY <1>5, SenderFields
  <2>4. /\ \A a \in store : a.pos \in Nat /\ a.pos < sender.send
        /\ \A a \in sender.writes : a.pos \in Nat /\ a.pos < sender.send
        /\ \A a \in sender'.writes : a.pos \in Nat
    BY <1>1, <2>1, <2>3, PacketFields DEF ChannelInv, Ordered
  <2>5. \A a \in store : a.pos < sender'.send
    BY <1>1, <2>2, <2>3, <2>4
  <2>6. ASSUME NEW a \in sender'.writes \cup store, NEW b \in sender'.writes \cup store, a.pos = b.pos
        PROVE  a = b
    <3>1. CASE a \in sender.writes \cup store /\ b \in sender.writes \cup store
      BY <2>1, <2>6, <3>1 DEF ChannelInv
    <3>2. CASE a \notin sender.writes \cup store /\ b \notin sender.writes \cup store
      BY <2>2, <2>6, <3>2
    <3>3. CASE a \notin sender.writes \cup store /\ b \in sender.writes \cup store
      BY <1>1, <2>2, <2>4, <2>6, <3>3
    <3>4. CASE a \in sender.writes \cup store /\ b \notin sender.writes \cup store
      BY <1>1, <2>2, <2>4, <2>6, <3>4
    <3> QED
      BY <3>1, <3>2, <3>3, <3>4
  <2> QED
    BY <1>2, <2>2, <2>5, <2>6 DEF ChannelInv
<1> QED
  BY <1>2, <1>4, <1>6, <1>7, <1>8, <1>9 DEF IInv, Fit

\* Post
LEMMA PostStep ==
    ASSUME IInv, NEW pkt, Post(pkt)
    PROVE  IInv'
<1>1. /\ TypeOK /\ Fit(sender, minted) /\ FarInv /\ LogInv /\ OrderInv /\ NothingForgotten
      /\ LastAckSound /\ sender \in Senders /\ minted \in Nat /\ minted <= MaxTxs /\ now \in Nat
      /\ recv \in Nat /\ store \subseteq Packets /\ sender.writes \subseteq Packets
      /\ sender.send \in Nat
  BY Parts
<1>2. /\ pkt \in sender.writes
      /\ store' = store \cup {pkt} /\ sender' = [sender EXCEPT !.writes = @ \ {pkt}]
      /\ UNCHANGED <<now, minted, recv, got, last_ack, acks, saved, crashes>>
  BY DEF Post, receiver
<1>3. /\ sender' \in Senders /\ sender'.writes = sender.writes \ {pkt}
      /\ sender'.log = sender.log /\ sender'.send = sender.send /\ sender'.pending = sender.pending
      /\ sender'.eph = sender.eph /\ sender'.records = sender.records
  BY <1>1, <1>2 DEF Senders
<1>4. /\ Queued(sender') \subseteq Queued(sender)
      /\ Queued(sender') \cup {pkt} = Queued(sender)
  BY <1>2, <1>3 DEF Queued
<1>5. pkt \in Queued(sender) /\ pkt.pos < minted /\ pkt \in Packets /\ pkt.pos \in Nat
  BY <1>1, <1>2, PacketFields DEF Queued, Fit
<1>6. TypeOK'
  BY <1>1, <1>2, <1>3, <1>5 DEF TypeOK
<1>7. Fit(sender', minted)
  BY <1>1, <1>3, <1>4 DEF Fit
<1>8. FarInv'
  BY <1>1, <1>2, <1>5 DEF FarInv
<1>9. LogInv'
  BY <1>1, <1>2, <1>3, <1>4, <1>5 DEF LogInv
<1>10. LastAckSound'
  BY <1>1, <1>2 DEF LastAckSound
<1>11. NothingForgotten'
  <2>1. crashes = 0 => Covered(sender, store, got)
    BY <1>1, ForgottenIs
  <2>2. crashes = 0 => Covered(sender', store', got)
    BY <1>2, <1>3, <1>4, <2>1 DEF Covered
  <2> QED
    BY <1>2, <2>2, ForgottenIs
<1>12. OrderInv'
  <2> SUFFICES ASSUME IsSync, crashes = 0 PROVE Ordered(sender', now) /\ ChannelInv'
    BY <1>2, OrderIs
  <2>1. Ordered(sender, now) /\ ChannelInv
    BY <1>1, OrderIs
  <2>2. Ordered(sender', now)
    BY <1>3, <2>1 DEF Ordered
  <2>3. pkt.pos < sender.send
    BY <1>2, <2>1 DEF Ordered
  <2>4. \A a, b \in sender'.writes \cup store' : a.pos = b.pos => a = b
    BY <1>2, <1>3, <2>1 DEF ChannelInv
  <2>5. \A a \in sender.writes : a.pos \in Nat
    BY <1>1, PacketFields
  <2> QED
    BY <1>2, <1>3, <2>1, <2>2, <2>3, <2>4 DEF ChannelInv
<1> QED
  BY <1>2, <1>6, <1>7, <1>8, <1>9, <1>10, <1>11, <1>12 DEF IInv, Fit

\* ingest_packet
LEMMA IngestStep ==
    ASSUME IInv, NEW pkt, ingest_packet(pkt)
    PROVE  IInv'
<1>1. /\ TypeOK /\ Fit(sender, minted) /\ FarInv /\ LogInv /\ OrderInv /\ NothingForgotten
      /\ LastAckSound /\ sender \in Senders /\ minted \in Nat /\ minted <= MaxTxs /\ now \in Nat
      /\ recv \in Nat /\ store \subseteq Packets /\ sender.writes \subseteq Packets
      /\ sender.send \in Nat
  BY Parts
<1>2. /\ pkt \in store /\ opens(pkt)
      /\ recv' = pkt.pos + 1 /\ got' = got \cup {pkt.tx}
      /\ last_ack' = IF pkt.tx \notin got /\ got' = pkt.ids THEN got' ELSE last_ack
      /\ UNCHANGED <<now, sender, minted, store, acks, saved, crashes>>
  BY DEF ingest_packet
<1>3. pkt \in Packets /\ pkt.tx \in Txs /\ pkt.pos \in Nat /\ pkt.pos < minted
  BY <1>1, <1>2, PacketFields DEF FarInv
<1>4. TypeOK'
  <2>1. recv' \in Positions
    BY <1>1, <1>2, <1>3, LivePathAssumption DEF Positions
  <2>2. got' \in SUBSET Txs /\ last_ack' \in SUBSET Txs
    BY <1>1, <1>2, <1>3 DEF TypeOK
  <2> QED
    BY <1>1, <1>2, <2>1, <2>2 DEF TypeOK
<1>5. FarInv'
  BY <1>1, <1>2 DEF FarInv
<1>6. LogInv'
  BY <1>1, <1>2 DEF LogInv
<1>7. LastAckSound'
  BY <1>1, <1>2 DEF LastAckSound
<1>8. NothingForgotten'
  <2>1. crashes = 0 => Covered(sender, store, got)
    BY <1>1, ForgottenIs
  <2>2. crashes = 0 => Covered(sender, store, got')
    BY <1>2, <2>1 DEF Covered
  <2> QED
    BY <1>2, <2>2, ForgottenIs
<1>9. OrderInv'
  <2> SUFFICES ASSUME IsSync, crashes = 0 PROVE Ordered(sender', now) /\ ChannelInv'
    BY <1>2, OrderIs
  <2>1. Ordered(sender, now) /\ ChannelInv
    BY <1>1, OrderIs
  <2>2. \A a \in store \cup sender.writes : a.pos \in Nat
    BY <1>1, PacketFields
  <2> QED
    BY <1>2, <2>1 DEF Ordered, ChannelInv
<1> QED
  BY <1>1, <1>2, <1>4, <1>5, <1>6, <1>7, <1>8, <1>9 DEF IInv, Fit

\* ingest_ephemeral_packet and PeerAck
LEMMA EphemeralStep ==
    ASSUME IInv, PeerAck \/ \E pkt \in sender.eph : ingest_ephemeral_packet(pkt)
    PROVE  IInv'
<1>1. /\ TypeOK /\ Fit(sender, minted) /\ FarInv /\ LogInv /\ OrderInv /\ NothingForgotten
      /\ LastAckSound /\ sender.eph \subseteq Packets
  BY Parts
<1>2. CASE PeerAck
  <2>1. acks' = acks \cup {got} /\ UNCHANGED <<now, sender, minted, store, recv, got, last_ack, saved, crashes>>
    BY <1>2 DEF PeerAck, receiver
  <2>2. TypeOK' /\ FarInv' /\ LogInv'
    BY <1>1, <2>1 DEF TypeOK, FarInv, LogInv
  <2>3. NothingForgotten' /\ LastAckSound'
    BY <1>1, <2>1 DEF NothingForgotten, LastAckSound, Uninterrupted, Pending
  <2>4. OrderInv'
    BY <1>1, <2>1 DEF OrderInv, Uninterrupted, Ordered, ChannelInv
  <2> QED
    BY <1>1, <2>1, <2>2, <2>3, <2>4 DEF IInv, Fit
<1>3. ASSUME NEW pkt \in sender.eph, ingest_ephemeral_packet(pkt)
      PROVE  IInv'
  <2>1. /\ got' = got \cup {pkt.tx}
        /\ UNCHANGED <<now, sender, minted, store, recv, last_ack, acks, saved, crashes>>
    BY <1>3 DEF ingest_ephemeral_packet
  <2>2. pkt.tx \in Txs
    BY <1>1, PacketFields
  <2>3. TypeOK' /\ FarInv' /\ LogInv'
    BY <1>1, <2>1, <2>2 DEF TypeOK, FarInv, LogInv
  <2>4. NothingForgotten' /\ LastAckSound'
    BY <1>1, <2>1 DEF NothingForgotten, LastAckSound, Uninterrupted, Pending
  <2>5. OrderInv'
    BY <1>1, <2>1 DEF OrderInv, Uninterrupted, Ordered, ChannelInv
  <2> QED
    BY <1>1, <2>1, <2>3, <2>4, <2>5 DEF IInv, Fit
<1> QED
  BY <1>2, <1>3

\* observe_ephemeral: what is settled is with the peer.
LEMMA ObserveStep ==
    ASSUME IInv, NEW ids \in acks, observe_ephemeral(ids)
    PROVE  IInv'
<1>1. /\ TypeOK /\ Fit(sender, minted) /\ FarInv /\ LogInv /\ OrderInv /\ NothingForgotten
      /\ LastAckSound /\ sender \in Senders
  BY Parts
<1>2. /\ sender' = settle_live(sender, ids)
      /\ UNCHANGED <<now, minted, store, recv, got, last_ack, acks, saved, crashes>>
  BY DEF observe_ephemeral, receiver
<1>3. /\ sender' \in Senders
      /\ sender'.log = sender.log /\ sender'.records = sender.records /\ sender'.eph = sender.eph
      /\ sender'.writes = sender.writes /\ sender'.send = sender.send
      /\ Queued(sender') \subseteq Queued(sender)
      /\ \A pkt \in Queued(sender) : pkt \in Queued(sender') \/ pkt.ids = ids
      /\ \A at : Ordered(sender, at) => Ordered(sender', at)
  BY <1>1, <1>2, SettleSender
<1>4. ids \subseteq got
  BY <1>1 DEF FarInv
<1>5. TypeOK' /\ FarInv' /\ LogInv' /\ LastAckSound'
  BY <1>1, <1>2, <1>3 DEF TypeOK, FarInv, LogInv, LastAckSound
<1>6. Fit(sender', minted)
  BY <1>1, <1>3 DEF Fit
<1>7. NothingForgotten'
  <2>1. crashes = 0 => Covered(sender, store, got)
    BY <1>1, ForgottenIs
  <2>2. ASSUME crashes = 0, NEW t \in sender.log, t \notin got
        PROVE  \E pkt \in Queued(sender') \cup store : pkt.tx = t
    <3>1. PICK pkt \in Queued(sender) \cup store : pkt.tx = t
      BY <2>1, <2>2 DEF Covered
    <3>2. pkt \in Queued(sender) => pkt.tx \in pkt.ids
      BY <1>1 DEF Fit
    <3>3. pkt \in Queued(sender') \cup store
      BY <1>3, <1>4, <2>2, <3>1, <3>2
    <3> QED
      BY <3>1, <3>3
  <2>3. crashes = 0 => Covered(sender', store, got)
    BY <1>3, <2>2 DEF Covered
  <2> QED
    BY <1>2, <2>3, ForgottenIs
<1>8. OrderInv'
  <2> SUFFICES ASSUME IsSync, crashes = 0 PROVE Ordered(sender', now) /\ ChannelInv'
    BY <1>2, OrderIs
  <2>1. Ordered(sender, now) /\ ChannelInv
    BY <1>1, OrderIs
  <2> QED
    BY <1>2, <1>3, <2>1 DEF ChannelInv
<1> QED
  BY <1>2, <1>5, <1>6, <1>7, <1>8 DEF IInv, Fit

\* fold
LEMMA FoldStep ==
    ASSUME IInv, fold
    PROVE  IInv'
<1>1. /\ TypeOK /\ Fit(sender, minted) /\ FarInv /\ LogInv /\ OrderInv /\ NothingForgotten
      /\ LastAckSound /\ sender \in Senders
  BY Parts
<1>2. /\ saved' = [log |-> sender.log, send |-> sender.send, since |-> sender.since]
      /\ UNCHANGED <<now, sender, minted, store, recv, got, last_ack, acks, crashes>>
  BY DEF fold, receiver
<1>3. sender.log \in SUBSET Txs /\ sender.send \in Positions /\ sender.since \in Nat
  BY <1>1, SenderFields
<1>4. TypeOK' /\ FarInv' /\ LogInv'
  BY <1>1, <1>2, <1>3 DEF TypeOK, FarInv, LogInv, Fit
<1>5. NothingForgotten' /\ LastAckSound'
  BY <1>1, <1>2 DEF NothingForgotten, LastAckSound, Uninterrupted, Pending
<1>6. OrderInv'
  BY <1>1, <1>2 DEF OrderInv, Uninterrupted, Ordered, ChannelInv
<1> QED
  BY <1>1, <1>2, <1>4, <1>5, <1>6 DEF IInv, Fit

\* reload: the queue is lost, the log of a Synchronization is not.
LEMMA ReloadStep ==
    ASSUME IInv, reload
    PROVE  IInv'
<1>1. /\ TypeOK /\ Fit(sender, minted) /\ FarInv /\ LogInv /\ OrderInv /\ NothingForgotten
      /\ LastAckSound /\ sender \in Senders /\ crashes \in Nat
  BY Parts
<1>2. /\ crashes < MaxCrashes /\ crashes' = crashes + 1
      /\ sender' = [log |-> saved.log \cup sender.records, send |-> saved.send,
                    pending |-> <<>>, since |-> saved.since, writes |-> {},
                    eph |-> sender.eph, records |-> sender.records]
      /\ UNCHANGED <<now, minted, store, recv, got, last_ack, acks, saved>>
  BY DEF reload, receiver
<1>3. /\ saved.log \in SUBSET Txs /\ saved.send \in Positions /\ saved.since \in Nat
      /\ sender.eph \in SUBSET Packets /\ sender.records \in SUBSET Txs
  BY <1>1, SenderFields DEF TypeOK
<1>4. <<>> \in Seq(Waiting) /\ saved.log \cup sender.records \in SUBSET Txs
  BY <1>3
<1>5. /\ sender' \in Senders
      /\ sender'.log = saved.log \cup sender.records /\ sender'.send = saved.send
      /\ sender'.pending = <<>> /\ sender'.writes = {} /\ sender'.eph = sender.eph
      /\ sender'.records = sender.records
  BY <1>2, <1>3, <1>4 DEF Senders, Waiting
<1>6. Queued(sender') = {}
  <2>1. 1 .. Len(sender'.pending) = {}
    BY <1>5
  <2> QED
    BY <1>5, <2>1 DEF Queued
<1>7. crashes' \in 0 .. MaxCrashes /\ crashes' # 0
  BY <1>1, <1>2, LivePathAssumption
<1>8. TypeOK'
  BY <1>1, <1>2, <1>5, <1>7 DEF TypeOK
<1>9. Fit(sender', minted)
  BY <1>1, <1>5, <1>6 DEF Fit, FarInv
<1>10. FarInv' /\ LastAckSound'
  BY <1>1, <1>2 DEF FarInv, LastAckSound
<1>11. LogInv'
  BY <1>1, <1>2, <1>5, <1>6 DEF LogInv
<1>12. NothingForgotten' /\ OrderInv'
  BY <1>7 DEF NothingForgotten, OrderInv, Uninterrupted
<1> QED
  BY <1>2, <1>8, <1>9, <1>10, <1>11, <1>12 DEF IInv, Fit

-----------------------------------------------------------------------------
(* The theorems *)

\* Nothing has been sent.
LEMMA InitInv == Init => IInv
<1> SUFFICES ASSUME Init PROVE IInv
  OBVIOUS
<1>1. /\ now = 0 /\ minted = 0 /\ store = {} /\ recv = 0 /\ got = {} /\ last_ack = {}
      /\ acks = {} /\ crashes = 0
      /\ sender = [log |-> {}, send |-> 0, pending |-> <<>>, since |-> 0, writes |-> {},
                   eph |-> {}, records |-> {}]
      /\ saved = [log |-> {}, send |-> 0, since |-> 0]
  BY DEF Init
<1>2. 0 \in 0 .. MaxClock /\ 0 \in 0 .. MaxTxs /\ 0 \in 0 .. MaxCrashes /\ 0 \in Positions
  BY LivePathAssumption DEF Positions
<1>3. <<>> \in Seq(Waiting)
  OBVIOUS
<1>4. /\ sender \in Senders /\ sender.log = {} /\ sender.send = 0 /\ sender.pending = <<>>
      /\ sender.writes = {} /\ sender.eph = {} /\ sender.records = {}
  BY <1>1, <1>2, <1>3 DEF Senders, Waiting
<1>5. 1 .. Len(sender.pending) = {}
  BY <1>4
<1>6. Queued(sender) = {}
  BY <1>4, <1>5 DEF Queued
<1>7. TypeOK
  BY <1>1, <1>2, <1>4 DEF TypeOK
<1>8. Fit(sender, minted)
  BY <1>1, <1>4, <1>6 DEF Fit
<1>9. FarInv /\ LogInv /\ LastAckSound /\ NothingForgotten
  BY <1>1, <1>4, <1>6 DEF FarInv, LogInv, LastAckSound, NothingForgotten
<1>10. OrderInv
  BY <1>1, <1>4, <1>5 DEF OrderInv, Ordered, ChannelInv
<1> QED
  BY <1>7, <1>8, <1>9, <1>10 DEF IInv

\* Every step keeps the invariant.
LEMMA StepInv == IInv /\ [Next]_vars => IInv'
<1> SUFFICES ASSUME IInv, [Next]_vars PROVE IInv'
  OBVIOUS
<1>1. CASE UNCHANGED vars
  <2>1. UNCHANGED <<now, sender, minted, store, recv, got, last_ack, acks, saved, crashes>>
    BY <1>1 DEF vars
  <2>2. TypeOK' /\ Fit(sender, minted)' /\ FarInv' /\ LogInv'
    BY <2>1 DEF IInv, TypeOK, Fit, FarInv, LogInv
  <2>3. OrderInv'
    BY <2>1 DEF IInv, OrderInv, Uninterrupted, Ordered, ChannelInv
  <2>4. NothingForgotten' /\ LastAckSound'
    BY <2>1 DEF IInv, NothingForgotten, LastAckSound, Uninterrupted, Pending
  <2> QED
    BY <2>2, <2>3, <2>4 DEF IInv
<1> QED
  BY <1>1, MintStep, TickStep, PostStep, IngestStep, EphemeralStep, ObserveStep, FoldStep, ReloadStep
     DEF Next

\* The invariant holds in every reachable state.
LEMMA Inductive == Spec => []IInv
BY InitInv, StepInv, PTL DEF Spec

\* Positions, packets and clocks stay within their bounds: no order of sends,
\* acknowledgements, fallbacks and reloads makes the chain outrun the transactions.
THEOREM TypeCorrect == Spec => []TypeOK
<1>1. IInv => TypeOK
  BY DEF IInv
<1> QED
  BY <1>1, Inductive, PTL

\* A transaction that the peer does not hold is waiting, about to be posted, or on
\* the durable channel; of every conversation, those that owe ratchet
\* transactions included.
THEOREM NothingForgottenAlways == Spec => []NothingForgotten
<1>1. IInv => NothingForgotten
  BY DEF IInv
<1> QED
  BY <1>1, Inductive, PTL

\* The set that store_durable_last_ack keeps is one that a durable packet named.
THEOREM LastAckSoundAlways == Spec => []LastAckSound
<1>1. IInv => LastAckSound
  BY DEF IInv
<1> QED
  BY <1>1, Inductive, PTL

\* In a conversation that owes no ratchet transaction one message key seals one
\* durable packet: positions of settled packets are used again, those of posted
\* ones never.
THEOREM MkUniqueAlways ==
    ASSUME IsSync
    PROVE  Spec => []MkUnique
<1>1. IInv => MkUnique
  <2> SUFFICES ASSUME IInv, crashes = 0,
                      NEW a \in Pending \cup sender.writes \cup store,
                      NEW b \in Pending \cup sender.writes \cup store, a.pos = b.pos
               PROVE  a = b
    BY DEF MkUnique, Uninterrupted
  <2>1. /\ sender \in Senders /\ sender.send \in Nat /\ sender.writes \subseteq Packets
        /\ store \subseteq Packets
    BY Parts
  <2>2. Ordered(sender, now) /\ ChannelInv
    BY Parts, OrderIs
  <2>3. \A x \in sender.writes \cup store : x.pos \in Nat /\ x.pos < sender.send
    BY <2>1, <2>2, PacketFields DEF Ordered, ChannelInv
  <2>4. ASSUME NEW x \in Pending
        PROVE  \E i \in 1 .. Len(sender.pending) :
                 x = sender.pending[i].pkt /\ x.pos \in Nat /\ x.pos >= sender.send
    <3>1. PICK i \in 1 .. Len(sender.pending) : x = sender.pending[i].pkt
      BY DEF Pending
    <3> QED
      BY <2>1, <2>2, <3>1, PendingFields DEF Ordered
  <2>5. CASE a \in Pending /\ b \in Pending
    <3>1. PICK i \in 1 .. Len(sender.pending), j \in 1 .. Len(sender.pending) :
            a = sender.pending[i].pkt /\ b = sender.pending[j].pkt
      BY <2>4, <2>5
    <3>2. sender.pending[i].pkt.pos \in Nat /\ sender.pending[j].pkt.pos \in Nat
      BY <2>1, PendingFields
    <3>3. ~(i < j) /\ ~(j < i)
      BY <2>2, <3>1, <3>2 DEF Ordered
    <3> QED
      BY <3>1, <3>3
  <2>6. CASE a \in Pending /\ b \in sender.writes \cup store
    BY <2>1, <2>3, <2>4, <2>6
  <2>7. CASE a \in sender.writes \cup store /\ b \in Pending
    BY <2>1, <2>3, <2>4, <2>7
  <2>8. CASE a \in sender.writes \cup store /\ b \in sender.writes \cup store
    BY <2>2, <2>8 DEF ChannelInv
  <2> QED
    BY <2>5, <2>6, <2>7, <2>8
<1> QED
  BY <1>1, Inductive, PTL

\* A reload forgets nothing that the peer holds, when no ratchet transaction, of
\* which there is no record, was sent.
THEOREM SenderRemembersAlways ==
    ASSUME IsSync
    PROVE  Spec => []SenderRemembers
<1>1. IInv => SenderRemembers
  BY DEF IInv, LogInv, SenderRemembers
<1> QED
  BY <1>1, Inductive, PTL
=============================================================================
