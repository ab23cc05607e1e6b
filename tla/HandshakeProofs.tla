---------------------------- MODULE HandshakeProofs ----------------------------
(***************************************************************************)
(* Proofs about Handshake, for every set of ticket holders, every set of   *)
(* channels and every bound.                                               *)
(***************************************************************************)
EXTENDS Handshake, TLAPS

\* What TypeOK says of one party's row.
RowOK(p, r) ==
    /\ r \in Rows
    /\ p = Inviter => r.phase \in InviterPhases \cup NoRow \cup {"Failed"}
    /\ p # Inviter => r.phase \in InviteePhases \cup NoRow \cup {"Failed"}
    /\ (r.phase = "Failed") <=> (r.reason # None)

-----------------------------------------------------------------------------
(* The helpers keep rows well formed. *)

\* A transaction that carries a holder's name carries the name of a holder.
LEMMA IntroOf ==
    ASSUME NEW r \in Rows, has_kind(r, "InviteeIntro")
    PROVE  /\ (CHOOSE t \in r.log : t.kind = "InviteeIntro") \in r.log
           /\ (CHOOSE t \in r.log : t.kind = "InviteeIntro").kind = "InviteeIntro"
           /\ (CHOOSE t \in r.log : t.kind = "InviteeIntro").of \in Invitees
<1> DEFINE c == CHOOSE t \in r.log : t.kind = "InviteeIntro"
<1>1. c \in r.log /\ c.kind = "InviteeIntro"
  BY DEF has_kind
<1>2. c \in Txs
  BY <1>1 DEF Rows
<1>3. c.of \in Invitees
  BY <1>1, <1>2 DEF Txs, Notice, Confirm, Reject
<1> QED BY <1>1, <1>3

\* fail keeps rows well formed.
LEMMA FailOK ==
    ASSUME NEW p \in Parties, NEW r, RowOK(p, r), NEW why \in Reasons
    PROVE  RowOK(p, fail(r, why))
BY NoneAssumption DEF RowOK, Rows, fail

\* ack_posted keeps rows well formed.
LEMMA AckPostedOK ==
    ASSUME NEW p \in Parties, NEW r, RowOK(p, r)
    PROVE  RowOK(p, ack_posted(p, r))
BY DEF RowOK, Rows, ack_posted, InviterPhases, InviteePhases, NoRow

\* packets keeps rows well formed.
LEMMA PacketsOK ==
    ASSUME NEW r \in Rows, NEW t \in Txs \cup {Probe}
    PROVE  packets(t, r) \subseteq Packets
BY DEF Rows, packets, Packets

\* mint keeps rows well formed.
LEMMA MintOK ==
    ASSUME NEW p \in Parties, NEW r, RowOK(p, r), NEW t \in Txs
    PROVE  RowOK(p, mint(t, r))
<1> DEFINE merged == [r EXCEPT !.log = @ \cup {t}]
<1>1. RowOK(p, merged)
  BY DEF RowOK, Rows
<1>2. packets(t, merged) \subseteq Packets
  BY <1>1, PacketsOK DEF RowOK
<1> QED
  BY <1>1, <1>2 DEF RowOK, Rows, mint

\* post_heal keeps rows well formed.
LEMMA PostHealOK ==
    ASSUME NEW p \in Parties, NEW r, RowOK(p, r), r.probes # MaxProbes
    PROVE  RowOK(p, post_heal(r))
<1>1. packets(Probe, r) \subseteq Packets
  BY PacketsOK DEF RowOK
<1>2. r.probes + 1 \in 0 .. MaxProbes
  BY HandshakeAssumption DEF RowOK, Rows
<1> QED
  BY <1>1, <1>2 DEF RowOK, Rows, post_heal

\* ack_completed_last keeps rows well formed.
LEMMA AckCompletedOK ==
    ASSUME NEW p \in Parties, NEW r, RowOK(p, r), NEW ids
    PROVE  RowOK(p, ack_completed_last(r, ids))
<1>1. CASE ids = r.log
  BY <1>1 DEF RowOK, Rows, ack_completed_last
<1>2. CASE ids # r.log
  BY <1>2, PostHealOK DEF ack_completed_last
<1> QED BY <1>1, <1>2

\* Every transaction that the code mints is one of Txs.
LEMMA NoticeTxs ==
    /\ Notice \in Txs /\ Confirm \in Txs /\ Reject \in Txs
    /\ \A e \in Invitees : InviteeIntro(e) \in Txs /\ InviterIntro(e) \in Txs /\ SyncDek(e) \in Txs
BY DEF Txs, InviteeIntro, InviterIntro, SyncDek

\* try_mint_invitee_intro keeps rows well formed.
LEMMA InviteeIntroOK ==
    ASSUME NEW p \in Parties, NEW r, RowOK(p, r)
    PROVE  RowOK(p, try_mint_invitee_intro(p, r))
<1> DEFINE s == [r EXCEPT !.phase = "IntroductionMinted", !.shared_inviter = ToInviter(p)]
<1>1. CASE p # Inviter /\ r.phase = "InviteReceived"
  <2>1. p \in Invitees
    BY <1>1 DEF Parties
  <2>2. ToInviter(p) \in Secrets
    BY <2>1 DEF ToInviter, Secrets
  <2>3. RowOK(p, s)
    BY <1>1, <2>2 DEF RowOK, Rows, InviteePhases
  <2>4. RowOK(p, mint(InviteeIntro(p), s))
    BY <2>1, <2>3, MintOK, NoticeTxs
  <2>5. RowOK(p, fail(r, "PolicyNotAccepted"))
    BY FailOK DEF Reasons
  <2> QED
    BY <2>4, <2>5 DEF try_mint_invitee_intro
<1>2. CASE ~(p # Inviter /\ r.phase = "InviteReceived")
  BY <1>2 DEF try_mint_invitee_intro
<1> QED BY <1>1, <1>2

\* try_mint_inviter_intro keeps rows well formed.
LEMMA InviterIntroOK ==
    ASSUME NEW p \in Parties, NEW r, RowOK(p, r)
    PROVE  RowOK(p, try_mint_inviter_intro(p, r))
<1> DEFINE e == (CHOOSE t \in r.log : t.kind = "InviteeIntro").of
           s == [r EXCEPT !.phase = "IntroductionMinted",
                          !.shared_inviter = ToInviter(e),
                          !.shared_invitee = ToInvitee(e)]
<1>1. CASE p = Inviter /\ r.phase = "NoticePinned" /\ has_kind(r, "InviteeIntro")
  <2>1. e \in Invitees
    BY <1>1, IntroOf DEF RowOK
  <2> HIDE DEF e
  <2>2. ToInviter(e) \in Secrets /\ ToInvitee(e) \in Secrets
    BY <2>1 DEF ToInviter, ToInvitee, Secrets
  <2>3. RowOK(p, s)
    BY <1>1, <2>2 DEF RowOK, Rows, InviterPhases
  <2>4. RowOK(p, mint(InviterIntro(e), s))
    BY <2>1, <2>3, MintOK, NoticeTxs
  <2> QED
    BY <2>4 DEF try_mint_inviter_intro, e
<1>2. CASE ~(p = Inviter /\ r.phase = "NoticePinned" /\ has_kind(r, "InviteeIntro"))
  BY <1>2 DEF try_mint_inviter_intro
<1> QED BY <1>1, <1>2

\* mint_pending_intros keeps rows well formed.
LEMMA PendingIntrosOK ==
    ASSUME NEW p \in Parties, NEW r, RowOK(p, r)
    PROVE  RowOK(p, mint_pending_intros(p, r))
BY InviteeIntroOK, InviterIntroOK DEF mint_pending_intros

\* handshake_ingest_gate keeps rows well formed.
LEMMA GateOK ==
    ASSUME NEW p \in Parties, NEW r, RowOK(p, r), NEW t \in Txs, r.phase # "Failed",
           refusal(p, r, t) = None
    PROVE  RowOK(p, handshake_ingest_gate(p, r, t))
<1>1. CASE t.kind = "Notice" /\ p # Inviter
  <2>1. RowOK(p, fail(r, "PolicyNotAccepted"))
    BY FailOK DEF Reasons
  <2>2. r.phase = "TicketReceived" => RowOK(p, [r EXCEPT !.phase = "InviteReceived"])
    BY <1>1 DEF RowOK, Rows, InviteePhases
  <2> QED
    BY <1>1, <2>1, <2>2 DEF handshake_ingest_gate
<1>2. CASE t.kind = "InviterIntro" /\ p # Inviter
  <2>1. p \in Invitees
    BY <1>2 DEF Parties
  <2>2. {ToInvitee(p), Unrelated(p)} \subseteq Secrets
    BY <2>1 DEF ToInvitee, Unrelated, Secrets
  <2>3. PICK x \in Secrets :
            handshake_ingest_gate(p, r, t) =
                [r EXCEPT !.phase = "Confirming", !.shared_invitee = x]
    <3>1. t.kind # "Notice"
      BY <1>2
    <3>2. handshake_ingest_gate(p, r, t) =
            [r EXCEPT !.phase = "Confirming",
                      !.shared_invitee = IF t.of = p THEN ToInvitee(p) ELSE Unrelated(p)]
      BY <1>2, <3>1 DEF handshake_ingest_gate
    <3> QED BY <2>2, <3>2
  <2>4. RowOK(p, [r EXCEPT !.phase = "Confirming", !.shared_invitee = x])
    BY <1>2 DEF RowOK, Rows, InviteePhases
  <2> QED
    BY <2>3, <2>4, Zenon
<1>3. CASE t.kind = "SyncDek"
  <2>1. handshake_ingest_gate(p, r, t) = [r EXCEPT !.dek = TRUE]
    BY <1>3 DEF handshake_ingest_gate
  <2> QED BY <2>1 DEF RowOK, Rows
<1>4. CASE ~(t.kind = "Notice" /\ p # Inviter) /\ ~(t.kind = "InviterIntro" /\ p # Inviter)
           /\ t.kind # "SyncDek"
  BY <1>4 DEF handshake_ingest_gate
<1> QED BY <1>1, <1>2, <1>3, <1>4

\* A refusal is one of the reasons.
LEMMA RefusalReason ==
    ASSUME NEW p, NEW r, NEW t
    PROVE  refusal(p, r, t) \in Reasons \cup {None}
BY DEF refusal, Reasons

\* open_and_merge keeps rows well formed.
LEMMA MergeOK ==
    ASSUME NEW p \in Parties, NEW r, RowOK(p, r), r.phase # "Failed",
           NEW pkt \in Packets, pkt.tx \in Txs
    PROVE  RowOK(p, open_and_merge(p, r, pkt))
<1> DEFINE t == pkt.tx
           gated == handshake_ingest_gate(p, r, t)
           merged == [gated EXCEPT !.log = @ \cup {t}]
<1>1. CASE t \in r.log
  BY <1>1, AckCompletedOK DEF open_and_merge
<1>2. CASE t \notin r.log /\ refusal(p, r, t) # None
  BY <1>2, FailOK, RefusalReason DEF open_and_merge
<1>3. CASE t \notin r.log /\ refusal(p, r, t) = None
  <2>1. RowOK(p, gated)
    BY <1>3, GateOK
  <2> HIDE DEF gated
  <2>2. RowOK(p, merged)
    BY <2>1 DEF RowOK, Rows
  <2> HIDE DEF merged
  <2>3. RowOK(p, mint_pending_intros(p, ack_completed_last(merged, pkt.ids)))
    BY <2>2, AckCompletedOK, PendingIntrosOK
  <2> QED BY <1>3, <2>3 DEF open_and_merge, merged, gated
<1> QED BY <1>1, <1>2, <1>3

-----------------------------------------------------------------------------
(* What the helpers may do to a row besides. *)

Intros == [kind : {"InviteeIntro", "InviterIntro"}, of : Invitees]

\* s is r after helpers that added only transactions of new, queued only those
\* and probes, rejected nothing, and took no acknowledgement but that of ids.
Extends(r, s, new, ids) ==
    /\ r.log \subseteq s.log
    /\ s.log \subseteq r.log \cup new
    /\ r.writes \subseteq s.writes
    /\ \A pkt \in s.writes : pkt \in r.writes \/ pkt.tx \in new \cup {Probe}
    /\ s.reason = r.reason \/ s.reason \in Reasons \ {"ConfirmationRejected"}
    /\ s.last_ack = r.last_ack \/ (s.last_ack = ids /\ ids \subseteq s.log)

\* Extends is transitive.
LEMMA ExtendsTrans ==
    ASSUME NEW r, NEW s, NEW u, NEW new, NEW ids,
           Extends(r, s, new, ids), Extends(s, u, new, ids)
    PROVE  Extends(r, u, new, ids)
BY DEF Extends

\* Extends is reflexive.
LEMMA ExtendsSelf ==
    ASSUME NEW r, NEW new, NEW ids
    PROVE  Extends(r, r, new, ids)
BY DEF Extends

\* fail only extends a row.
LEMMA FailExtends ==
    ASSUME NEW r \in Rows, NEW why \in Reasons \ {"ConfirmationRejected"}, NEW new, NEW ids
    PROVE  Extends(r, fail(r, why), new, ids)
BY DEF Extends, fail, Rows

\* mint only extends a row.
LEMMA MintExtends ==
    ASSUME NEW r \in Rows, NEW t, NEW new, t \in new, NEW ids
    PROVE  Extends(r, mint(t, r), new, ids)
<1> DEFINE merged == [r EXCEPT !.log = @ \cup {t}]
<1>1. \A pkt \in packets(t, merged) : pkt.tx = t
  BY DEF packets
<1>2. /\ mint(t, r).log = r.log \cup {t}
      /\ mint(t, r).writes = r.writes \cup packets(t, merged)
      /\ mint(t, r).reason = r.reason
      /\ mint(t, r).last_ack = r.last_ack
  BY DEF mint, Rows
<1> HIDE DEF merged
<1> QED
  BY <1>1, <1>2 DEF Extends

\* ack_completed_last only extends a row.
LEMMA AckCompletedExtends ==
    ASSUME NEW r \in Rows, NEW new, NEW ids
    PROVE  Extends(r, ack_completed_last(r, ids), new, ids)
<1>1. CASE ids = r.log
  <2>1. ack_completed_last(r, ids) = [r EXCEPT !.last_ack = r.log, !.healing = FALSE]
    BY <1>1 DEF ack_completed_last
  <2> QED
    BY <1>1, <2>1 DEF Extends, Rows
<1>2. CASE ids # r.log
  <2>1. \A pkt \in packets(Probe, r) : pkt.tx = Probe
    BY DEF packets
  <2>2. /\ post_heal(r).log = r.log
        /\ post_heal(r).writes = r.writes \cup packets(Probe, r)
        /\ post_heal(r).reason = r.reason
        /\ post_heal(r).last_ack = r.last_ack
    BY DEF post_heal, Rows
  <2>3. Extends(r, post_heal(r), new, ids)
    BY <2>1, <2>2 DEF Extends
  <2> QED
    BY <1>2, <2>3, ExtendsSelf DEF ack_completed_last
<1> QED BY <1>1, <1>2

\* mint_pending_intros only extends a row.
LEMMA PendingIntrosExtends ==
    ASSUME NEW p \in Parties, NEW r, RowOK(p, r), NEW new, Intros \subseteq new, NEW ids
    PROVE  Extends(r, mint_pending_intros(p, r), new, ids)
<1>1. ASSUME NEW s, RowOK(p, s)
      PROVE  Extends(s, try_mint_invitee_intro(p, s), new, ids)
  <2> DEFINE u == [s EXCEPT !.phase = "IntroductionMinted", !.shared_inviter = ToInviter(p)]
  <2>1. CASE p # Inviter /\ s.phase = "InviteReceived"
    <3>1. InviteeIntro(p) \in new
      BY <2>1 DEF Intros, InviteeIntro, Parties
    <3>2. u \in Rows
      <4>1. ToInviter(p) \in Secrets
        BY <2>1 DEF ToInviter, Secrets, Parties
      <4> QED BY <1>1, <4>1 DEF RowOK, Rows, InviteePhases
    <3>3. Extends(s, u, new, ids)
      BY <1>1 DEF Extends, RowOK, Rows
    <3> HIDE DEF u
    <3>4. Extends(s, mint(InviteeIntro(p), u), new, ids)
      BY <3>1, <3>2, <3>3, MintExtends, ExtendsTrans
    <3>5. Extends(s, fail(s, "PolicyNotAccepted"), new, ids)
      BY <1>1, FailExtends DEF Reasons, RowOK
    <3> QED
      BY <3>4, <3>5, ExtendsSelf DEF try_mint_invitee_intro, u
  <2>2. CASE ~(p # Inviter /\ s.phase = "InviteReceived")
    BY <2>2, ExtendsSelf DEF try_mint_invitee_intro
  <2> QED BY <2>1, <2>2
<1>2. ASSUME NEW s, RowOK(p, s)
      PROVE  Extends(s, try_mint_inviter_intro(p, s), new, ids)
  <2> DEFINE e == (CHOOSE t \in s.log : t.kind = "InviteeIntro").of
             u == [s EXCEPT !.phase = "IntroductionMinted",
                            !.shared_inviter = ToInviter(e),
                            !.shared_invitee = ToInvitee(e)]
  <2>1. CASE p = Inviter /\ s.phase = "NoticePinned" /\ has_kind(s, "InviteeIntro")
    <3>1. e \in Invitees
      BY <1>2, <2>1, IntroOf DEF RowOK
    <3> HIDE DEF e
    <3>2. InviterIntro(e) \in new
      BY <3>1 DEF Intros, InviterIntro
    <3>3. u \in Rows
      <4>1. ToInviter(e) \in Secrets /\ ToInvitee(e) \in Secrets
        BY <3>1 DEF ToInviter, ToInvitee, Secrets
      <4> QED BY <1>2, <4>1 DEF RowOK, Rows, InviterPhases
    <3>4. Extends(s, u, new, ids)
      BY <1>2 DEF Extends, RowOK, Rows
    <3> HIDE DEF u
    <3>5. Extends(s, mint(InviterIntro(e), u), new, ids)
      BY <3>2, <3>3, <3>4, MintExtends, ExtendsTrans
    <3> QED
      BY <3>5, ExtendsSelf DEF try_mint_inviter_intro, u, e
  <2>2. CASE ~(p = Inviter /\ s.phase = "NoticePinned" /\ has_kind(s, "InviteeIntro"))
    BY <2>2, ExtendsSelf DEF try_mint_inviter_intro
  <2> QED BY <2>1, <2>2
<1>3. RowOK(p, try_mint_invitee_intro(p, r))
  BY InviteeIntroOK
<1> QED
  BY <1>1, <1>2, <1>3, ExtendsTrans DEF mint_pending_intros

\* handshake_ingest_gate only extends a row.
LEMMA GateExtends ==
    ASSUME NEW p \in Parties, NEW r, RowOK(p, r), NEW t \in Txs, NEW new, NEW ids
    PROVE  Extends(r, handshake_ingest_gate(p, r, t), new, ids)
<1>1. Extends(r, fail(r, "PolicyNotAccepted"), new, ids)
  BY FailExtends DEF Reasons, RowOK
<1>2. Extends(r, [r EXCEPT !.phase = "InviteReceived"], new, ids)
  BY DEF Extends, RowOK, Rows
<1>3. \A x : Extends(r, [r EXCEPT !.phase = "Confirming", !.shared_invitee = x], new, ids)
  BY DEF Extends, RowOK, Rows
<1>4. Extends(r, [r EXCEPT !.dek = TRUE], new, ids)
  BY DEF Extends, RowOK, Rows
<1>5. Extends(r, r, new, ids)
  BY ExtendsSelf
<1> QED
  BY <1>1, <1>2, <1>3, <1>4, <1>5 DEF handshake_ingest_gate

\* open_and_merge only extends a row.
LEMMA MergeExtends ==
    ASSUME NEW p \in Parties, NEW r, RowOK(p, r), r.phase # "Failed",
           NEW pkt \in Packets, pkt.tx \in Txs
    PROVE  Extends(r, open_and_merge(p, r, pkt), Intros \cup {pkt.tx}, pkt.ids)
<1> DEFINE t == pkt.tx
           new == Intros \cup {t}
           gated == handshake_ingest_gate(p, r, t)
           merged == [gated EXCEPT !.log = @ \cup {t}]
           acked == ack_completed_last(merged, pkt.ids)
<1>1. CASE t \in r.log
  BY <1>1, AckCompletedExtends DEF open_and_merge, RowOK
<1>2. CASE t \notin r.log /\ refusal(p, r, t) # None
  <2>1. refusal(p, r, t) \in Reasons \ {"ConfirmationRejected"}
    BY <1>2 DEF refusal, Reasons
  <2> QED
    BY <1>2, <2>1, FailExtends DEF open_and_merge, RowOK
<1>3. CASE t \notin r.log /\ refusal(p, r, t) = None
  <2>1. RowOK(p, gated)
    BY <1>3, GateOK
  <2>2. Extends(r, gated, new, pkt.ids)
    BY GateExtends
  <2> HIDE DEF gated
  <2>3. RowOK(p, merged)
    BY <2>1 DEF RowOK, Rows
  <2>4. Extends(gated, merged, new, pkt.ids)
    BY <2>1 DEF Extends, RowOK, Rows
  <2> HIDE DEF merged
  <2>5. RowOK(p, acked) /\ Extends(merged, acked, new, pkt.ids)
    BY <2>3, AckCompletedOK, AckCompletedExtends DEF RowOK
  <2> HIDE DEF acked
  <2>6. Extends(acked, mint_pending_intros(p, acked), new, pkt.ids)
    BY <2>5, PendingIntrosExtends
  <2>7. Extends(r, mint_pending_intros(p, acked), new, pkt.ids)
    BY <2>2, <2>4, <2>5, <2>6, ExtendsTrans
  <2> QED BY <1>3, <2>7 DEF open_and_merge, acked, merged, gated
<1> QED BY <1>1, <1>2, <1>3

-----------------------------------------------------------------------------
(* Phases and posted packets. *)

\* Every channel holds a packet of t, or will once the writes ws are posted.
Queued(t, ws, S) == \A c \in Channels : \E pkt \in ws \cup S : pkt.tx = t /\ pkt.chan = c

\* What a phase says about the packets of the row, with the store S.
PostRow(p, r, S) ==
    /\ p = Inviter /\ r.phase # "None" => Queued(Notice, r.writes, S)
    /\ p = Inviter /\ r.phase \in {"NoticePinned", "IntroductionMinted", "Confirming"}
          => Queued(Notice, {}, S)
    /\ p = Inviter /\ r.phase \in {"IntroductionMinted", "Confirming"}
          => \E e \in Invitees : InviterIntro(e) \in r.log /\ Queued(InviterIntro(e), r.writes, S)
    /\ p = Inviter /\ r.phase = "Confirming"
          => \E e \in Invitees : InviterIntro(e) \in r.log /\ Queued(InviterIntro(e), {}, S)
    /\ p # Inviter /\ r.phase = "IntroductionMinted" => Queued(InviteeIntro(p), r.writes, S)
    /\ p # Inviter /\ r.phase = "IntroductionSent" => Queued(InviteeIntro(p), {}, S)

\* What is queued stays queued in a row and a store with more packets.
LEMMA QueuedMore ==
    ASSUME NEW t, NEW ws, NEW S, NEW more, NEW T, Queued(t, ws, S),
           ws \subseteq more \cup T, S \subseteq T
    PROVE  Queued(t, more, T)
BY DEF Queued

\* mint queues its transaction on every channel.
LEMMA MintQueues ==
    ASSUME NEW r \in Rows, NEW t, NEW S
    PROVE  Queued(t, mint(t, r).writes, S)
<1> DEFINE merged == [r EXCEPT !.log = @ \cup {t}]
<1>1. mint(t, r).writes = r.writes \cup packets(t, merged)
  BY DEF mint, Rows
<1> HIDE DEF merged
<1>2. ASSUME NEW c \in Channels
      PROVE  \E pkt \in packets(t, merged) : pkt.tx = t /\ pkt.chan = c
  <2>1. [tx |-> t, ids |-> merged.log, chan |-> c] \in packets(t, merged)
    BY DEF packets
  <2> QED BY <2>1
<1> QED
  BY <1>1, <1>2 DEF Queued

\* A row that keeps its phase, or fails, keeps what its phase says.
LEMMA SamePhasePost ==
    ASSUME NEW p, NEW r, NEW s, NEW S, NEW T, PostRow(p, r, S),
           r.log \subseteq s.log, r.writes \subseteq s.writes \cup T, S \subseteq T,
           s.phase = r.phase \/ (s.phase = "Failed" /\ r.phase # "None")
    PROVE  PostRow(p, s, T)
<1>1. \A t : Queued(t, r.writes, S) => Queued(t, s.writes, T)
  BY QueuedMore
<1>2. \A t : Queued(t, {}, S) => Queued(t, {}, T)
  BY QueuedMore
<1>3. CASE s.phase = r.phase
  <2> USE <1>1, <1>2, <1>3 DEF PostRow
  <2>1. p = Inviter /\ s.phase \in {"IntroductionMinted", "Confirming"}
          => \E e \in Invitees : InviterIntro(e) \in s.log /\ Queued(InviterIntro(e), s.writes, T)
    OBVIOUS
  <2>2. p = Inviter /\ s.phase = "Confirming"
          => \E e \in Invitees : InviterIntro(e) \in s.log /\ Queued(InviterIntro(e), {}, T)
    OBVIOUS
  <2> QED BY <2>1, <2>2
<1>4. CASE s.phase = "Failed" /\ r.phase # "None"
  BY <1>1, <1>4 DEF PostRow
<1> QED BY <1>3, <1>4

\* ack_posted keeps the meaning of the phase.
LEMMA AckPostedPost ==
    ASSUME NEW p \in Parties, NEW r, RowOK(p, r), NEW S, PostRow(p, r, S), r.writes = {}
    PROVE  PostRow(p, ack_posted(p, r), S)
<1> DEFINE s == ack_posted(p, r)
<1>1. s.log = r.log /\ s.writes = {}
  BY DEF ack_posted, RowOK, Rows
<1>2. p = Inviter => \/ s.phase = "NoticePinned" /\ r.phase = "InviteCreated"
                     \/ s.phase = "Confirming" /\ r.phase = "IntroductionMinted"
                     \/ s.phase = r.phase
  BY DEF ack_posted, RowOK, Rows
<1>3. p # Inviter => \/ s.phase = "IntroductionSent" /\ r.phase = "IntroductionMinted"
                     \/ s.phase = r.phase
  BY DEF ack_posted, RowOK, Rows
<1> HIDE DEF s
<1>4. PostRow(p, s, S)
  BY <1>1, <1>2, <1>3 DEF PostRow
<1> QED
  BY <1>4 DEF s

\* mint_pending_intros keeps the meaning of the phase.
LEMMA PendingIntrosPost ==
    ASSUME NEW p \in Parties, NEW r, RowOK(p, r), NEW S, PostRow(p, r, S)
    PROVE  PostRow(p, mint_pending_intros(p, r), S)
<1>1. ASSUME NEW s, RowOK(p, s), PostRow(p, s, S)
      PROVE  PostRow(p, try_mint_invitee_intro(p, s), S)
  <2> DEFINE u == [s EXCEPT !.phase = "IntroductionMinted", !.shared_inviter = ToInviter(p)]
  <2>1. CASE p # Inviter /\ s.phase = "InviteReceived"
    <3>1. u \in Rows
      <4>1. ToInviter(p) \in Secrets
        BY <2>1 DEF ToInviter, Secrets, Parties
      <4> QED BY <1>1, <4>1 DEF RowOK, Rows, InviteePhases
    <3>2. u.phase = "IntroductionMinted"
      BY <1>1 DEF RowOK, Rows
    <3> HIDE DEF u
    <3>3. Queued(InviteeIntro(p), mint(InviteeIntro(p), u).writes, S)
      BY <3>1, MintQueues
    <3>4. mint(InviteeIntro(p), u).phase = "IntroductionMinted"
      BY <3>1, <3>2 DEF mint, Rows
    <3>5. PostRow(p, mint(InviteeIntro(p), u), S)
      BY <2>1, <3>3, <3>4 DEF PostRow
    <3>6. PostRow(p, fail(s, "PolicyNotAccepted"), S)
      <4>1. fail(s, "PolicyNotAccepted").phase = "Failed"
        BY <1>1, <2>1 DEF fail, RowOK, Rows
      <4> QED BY <2>1, <4>1 DEF PostRow
    <3> QED
      BY <1>1, <3>5, <3>6 DEF try_mint_invitee_intro, u
  <2>2. CASE ~(p # Inviter /\ s.phase = "InviteReceived")
    BY <1>1, <2>2 DEF try_mint_invitee_intro
  <2> QED BY <2>1, <2>2
<1>2. ASSUME NEW s, RowOK(p, s), PostRow(p, s, S)
      PROVE  PostRow(p, try_mint_inviter_intro(p, s), S)
  <2> DEFINE e == (CHOOSE t \in s.log : t.kind = "InviteeIntro").of
             u == [s EXCEPT !.phase = "IntroductionMinted",
                            !.shared_inviter = ToInviter(e),
                            !.shared_invitee = ToInvitee(e)]
             v == mint(InviterIntro(e), u)
  <2>1. CASE p = Inviter /\ s.phase = "NoticePinned" /\ has_kind(s, "InviteeIntro")
    <3>1. e \in Invitees
      BY <1>2, <2>1, IntroOf DEF RowOK
    <3> HIDE DEF e
    <3>2. u \in Rows
      <4>1. ToInviter(e) \in Secrets /\ ToInvitee(e) \in Secrets
        BY <3>1 DEF ToInviter, ToInvitee, Secrets
      <4> QED BY <1>2, <4>1 DEF RowOK, Rows, InviterPhases
    <3>3. u.phase = "IntroductionMinted" /\ u.writes = s.writes
      BY <1>2 DEF RowOK, Rows
    <3> HIDE DEF u
    <3>4. Queued(InviterIntro(e), v.writes, S)
      BY <3>2, MintQueues
    <3>5. /\ v.phase = "IntroductionMinted"
          /\ InviterIntro(e) \in v.log
          /\ s.writes \subseteq v.writes
      BY <3>2, <3>3 DEF mint, Rows
    <3> HIDE DEF v
    <3>6. Queued(Notice, {}, S) /\ Queued(Notice, s.writes, S)
      BY <1>2, <2>1 DEF PostRow
    <3>7. Queued(Notice, v.writes, S)
      BY <3>5, <3>6, QueuedMore
    <3>8. PostRow(p, v, S)
      BY <2>1, <3>1, <3>4, <3>5, <3>6, <3>7 DEF PostRow
    <3> QED
      BY <1>2, <3>8 DEF try_mint_inviter_intro, v, u, e
  <2>2. CASE ~(p = Inviter /\ s.phase = "NoticePinned" /\ has_kind(s, "InviteeIntro"))
    BY <1>2, <2>2 DEF try_mint_inviter_intro
  <2> QED BY <2>1, <2>2
<1>3. RowOK(p, try_mint_invitee_intro(p, r))
  BY InviteeIntroOK
<1> QED
  BY <1>1, <1>2, <1>3 DEF mint_pending_intros

\* ack_completed_last keeps the meaning of the phase.
LEMMA AckCompletedPost ==
    ASSUME NEW p \in Parties, NEW r, RowOK(p, r), NEW S, PostRow(p, r, S), NEW ids
    PROVE  PostRow(p, ack_completed_last(r, ids), S)
<1>1. ack_completed_last(r, ids).phase = r.phase
  BY DEF ack_completed_last, post_heal, RowOK, Rows
<1>2. Extends(r, ack_completed_last(r, ids), {}, ids)
  BY AckCompletedExtends DEF RowOK
<1> QED
  BY <1>1, <1>2, SamePhasePost DEF Extends

\* fail keeps the meaning of the phase.
LEMMA FailPost ==
    ASSUME NEW p \in Parties, NEW r, RowOK(p, r), NEW S, PostRow(p, r, S),
           NEW why, r.phase # "None"
    PROVE  PostRow(p, fail(r, why), S)
<1>1. CASE r.phase = "Failed"
  BY <1>1 DEF fail
<1>2. CASE r.phase # "Failed"
  <2>1. fail(r, why).phase = "Failed" /\ fail(r, why).log = r.log /\ fail(r, why).writes = r.writes
    BY <1>2 DEF fail, RowOK, Rows
  <2> QED
    BY <2>1, SamePhasePost
<1> QED BY <1>1, <1>2

\* handshake_ingest_gate keeps the meaning of the phase.
LEMMA GatePost ==
    ASSUME NEW p \in Parties, NEW r, RowOK(p, r), NEW S, PostRow(p, r, S),
           r.phase # "None", NEW t \in Txs
    PROVE  PostRow(p, handshake_ingest_gate(p, r, t), S)
<1>1. PostRow(p, fail(r, "PolicyNotAccepted"), S)
  BY FailPost
<1>2. p # Inviter => PostRow(p, [r EXCEPT !.phase = "InviteReceived"], S)
  BY DEF PostRow, RowOK, Rows
<1>3. p # Inviter => \A x : PostRow(p, [r EXCEPT !.phase = "Confirming", !.shared_invitee = x], S)
  BY DEF PostRow, RowOK, Rows
<1>4. PostRow(p, [r EXCEPT !.dek = TRUE], S)
  <2> DEFINE s == [r EXCEPT !.dek = TRUE]
  <2>1. s.phase = r.phase /\ s.log = r.log /\ s.writes = r.writes
    BY DEF RowOK, Rows
  <2> HIDE DEF s
  <2>2. PostRow(p, s, S)
    BY <2>1, SamePhasePost
  <2> QED BY <2>2 DEF s
<1> QED
  BY <1>1, <1>2, <1>3, <1>4 DEF handshake_ingest_gate

\* open_and_merge keeps the meaning of the phase.
LEMMA MergePost ==
    ASSUME NEW p \in Parties, NEW r, RowOK(p, r), r.phase \notin NoRow \cup {"Failed"},
           NEW S, PostRow(p, r, S), NEW pkt \in Packets, pkt.tx \in Txs
    PROVE  PostRow(p, open_and_merge(p, r, pkt), S)
<1> DEFINE t == pkt.tx
           gated == handshake_ingest_gate(p, r, t)
           merged == [gated EXCEPT !.log = @ \cup {t}]
           acked == ack_completed_last(merged, pkt.ids)
<1>0. r.phase # "None" /\ r.phase # "Failed"
  BY DEF NoRow
<1>1. CASE t \in r.log
  BY <1>1, AckCompletedPost DEF open_and_merge
<1>2. CASE t \notin r.log /\ refusal(p, r, t) # None
  BY <1>0, <1>2, FailPost DEF open_and_merge
<1>3. CASE t \notin r.log /\ refusal(p, r, t) = None
  <2>1. RowOK(p, gated)
    BY <1>0, <1>3, GateOK
  <2>2. PostRow(p, gated, S)
    BY <1>0, GatePost
  <2> HIDE DEF gated
  <2>3. RowOK(p, merged)
    BY <2>1 DEF RowOK, Rows
  <2>4. merged.phase = gated.phase /\ gated.log \subseteq merged.log /\ merged.writes = gated.writes
    BY <2>1 DEF RowOK, Rows
  <2> HIDE DEF merged
  <2>5. PostRow(p, merged, S)
    BY <2>2, <2>4, SamePhasePost
  <2>6. RowOK(p, acked) /\ PostRow(p, acked, S)
    BY <2>3, <2>5, AckCompletedOK, AckCompletedPost
  <2> HIDE DEF acked
  <2>7. PostRow(p, mint_pending_intros(p, acked), S)
    BY <2>6, PendingIntrosPost
  <2> QED BY <1>3, <2>7 DEF open_and_merge, acked, merged, gated
<1> QED BY <1>1, <1>2, <1>3

-----------------------------------------------------------------------------
(* The inductive invariant. *)

\* TxReject stays in the failed row that its user rejected: it is in no packet,
\* and a row that holds it holds no TxConfirm.  A child comes with TxConfirm.
DecRow(r, ch) ==
    /\ Reject \in r.log => r.phase = "Failed" /\ Confirm \notin r.log
    /\ r.reason = "ConfirmationRejected" => ch = None
    /\ ch # None => Confirm \in r.log \/ r.phase = "Deleted"
    /\ \A pkt \in r.writes : pkt.tx # Reject

\* AckSound of one row, with the store S.
AckRow(r, S) ==
    /\ r.last_ack \subseteq r.log
    /\ r.last_ack # {} => \E pkt \in S : r.last_ack = pkt.ids

RowInv(p, r, ch, S) == RowOK(p, r) /\ DecRow(r, ch) /\ AckRow(r, S) /\ PostRow(p, r, S)

IInv ==
    /\ row \in [Parties -> Rows]
    /\ store \in SUBSET Packets
    /\ listening \in [Parties -> BOOLEAN]
    /\ child \in [Parties -> (SUBSET Secrets) \cup {None}]
    /\ \A pkt \in store : pkt.tx # Reject
    /\ \A p \in Parties : RowInv(p, row[p], child[p], store)

\* Decisions differ from each other and from every other transaction.
LEMMA KindsDiffer ==
    /\ Probe # Reject /\ Notice # Reject /\ Confirm # Reject /\ Confirm \notin Intros
    /\ Reject \notin Intros /\ Notice # Confirm
    /\ \A e : SyncDek(e) # Reject /\ SyncDek(e) # Confirm
BY DEF Probe, Reject, Notice, Confirm, Intros, SyncDek

\* Helpers that only extend a row decide nothing.
LEMMA ExtendsDec ==
    ASSUME NEW r, NEW s, NEW new, NEW ids, NEW ch, DecRow(r, ch), Extends(r, s, new, ids),
           Reject \notin new,
           \/ r.phase # "Failed" /\ r.phase # "Deleted"
           \/ s.phase = r.phase /\ Confirm \notin new
    PROVE  DecRow(s, ch)
BY KindsDiffer DEF DecRow, Extends

\* Helpers that only extend a row keep its acknowledgements sound.
LEMMA ExtendsAck ==
    ASSUME NEW r, NEW s, NEW new, NEW ids, NEW S, AckRow(r, S), Extends(r, s, new, ids),
           ids = r.last_ack \/ \E pkt \in S : ids = pkt.ids
    PROVE  AckRow(s, S)
BY DEF AckRow, Extends

\* A step that changes one row only.
LEMMA OneRow ==
    ASSUME IInv, NEW p \in Parties, NEW s, row' = [row EXCEPT ![p] = s],
           RowInv(p, s, child[p], store),
           UNCHANGED <<store, listening, child>>
    PROVE  IInv'
BY DEF IInv, RowInv, RowOK

\* The invariant holds before any invite.
LEMMA InitInv == Init => IInv
<1> SUFFICES ASSUME Init PROVE IInv
  OBVIOUS
<1>1. PICK named \in [Parties -> BOOLEAN], accepts \in [Parties -> BOOLEAN] :
          row = [p \in Parties |-> [NewRow EXCEPT !.named = named[p], !.accepts = accepts[p]]]
  BY DEF Init
<1>2. ASSUME NEW p \in Parties
      PROVE  /\ row[p] \in Rows
             /\ row[p].phase = "None" /\ row[p].reason = None
             /\ row[p].log = {} /\ row[p].writes = {} /\ row[p].last_ack = {}
  <2>1. row[p] = [NewRow EXCEPT !.named = named[p], !.accepts = accepts[p]]
    BY <1>1
  <2>2. named[p] \in BOOLEAN /\ accepts[p] \in BOOLEAN
    BY <1>1
  <2>3. 0 \in 0 .. MaxProbes
    BY HandshakeAssumption
  <2> QED
    BY <2>1, <2>2, <2>3 DEF NewRow, Rows, NoRow
<1>3. row \in [Parties -> Rows]
  BY <1>1, <1>2
<1>4. ASSUME NEW p \in Parties
      PROVE  RowInv(p, row[p], child[p], store)
  <2>1. child[p] = None
    BY DEF Init
  <2> QED
    BY <1>2, <2>1 DEF RowInv, RowOK, DecRow, AckRow, PostRow, NoRow
<1> QED
  BY <1>3, <1>4 DEF Init, IInv

-----------------------------------------------------------------------------
(* One lemma per action. *)

\* create_invite keeps the invariant.
LEMMA CreateInviteInv == IInv /\ create_invite => IInv'
<1> SUFFICES ASSUME IInv, create_invite PROVE IInv'
  OBVIOUS
<1> DEFINE r == row[Inviter]
           u == [r EXCEPT !.phase = "InviteCreated"]
           s == mint(Notice, u)
<1>1. Inviter \in Parties
  BY DEF Parties
<1>2. RowInv(Inviter, r, child[Inviter], store) /\ r.phase = "None"
  BY <1>1 DEF IInv, create_invite
<1>3. row' = [row EXCEPT ![Inviter] = s] /\ UNCHANGED <<store, listening, child>>
  BY DEF create_invite
<1> HIDE DEF r
<1>4. RowOK(Inviter, u) /\ DecRow(u, child[Inviter])
  BY <1>2 DEF RowInv, RowOK, Rows, InviterPhases, DecRow
<1>5. u.phase = "InviteCreated" /\ u.last_ack = r.last_ack /\ u.log = r.log
  BY <1>2 DEF RowInv, RowOK, Rows
<1> HIDE DEF u
<1>6. RowOK(Inviter, s)
  BY <1>1, <1>4, MintOK, NoticeTxs
<1>7. Extends(u, s, {Notice}, {})
  BY <1>4, MintExtends DEF RowOK
<1>8. DecRow(s, child[Inviter])
  BY <1>4, <1>5, <1>7, ExtendsDec, KindsDiffer
<1>9. AckRow(s, store)
  BY <1>2, <1>5, <1>7 DEF RowInv, AckRow, Extends
<1>10. PostRow(Inviter, s, store)
  <2>1. Queued(Notice, s.writes, store)
    BY <1>4, MintQueues DEF RowOK
  <2>2. s.phase = "InviteCreated"
    BY <1>4, <1>5 DEF mint, RowOK, Rows
  <2> QED BY <2>1, <2>2 DEF PostRow
<1> HIDE DEF s
<1> QED
  BY <1>1, <1>3, <1>6, <1>8, <1>9, <1>10, OneRow DEF RowInv

\* receive_ticket keeps the invariant.
LEMMA ReceiveTicketInv ==
    ASSUME IInv, NEW e \in Invitees, receive_ticket(e)
    PROVE  IInv'
<1> DEFINE r == row[e]
           s == [r EXCEPT !.phase = "TicketReceived"]
<1>1. e \in Parties /\ e # Inviter
  BY HandshakeAssumption DEF Parties
<1>2. RowInv(e, r, child[e], store) /\ r.phase = "None"
  BY <1>1 DEF IInv, receive_ticket
<1>3. row' = [row EXCEPT ![e] = s] /\ UNCHANGED <<store, listening, child>>
  BY DEF receive_ticket
<1> HIDE DEF r
<1>4. RowOK(e, s) /\ DecRow(s, child[e]) /\ AckRow(s, store)
  BY <1>1, <1>2 DEF RowInv, RowOK, Rows, InviteePhases, DecRow, AckRow
<1>5. PostRow(e, s, store)
  BY <1>1, <1>2 DEF RowInv, RowOK, Rows, PostRow
<1> HIDE DEF s
<1> QED
  BY <1>1, <1>3, <1>4, <1>5, OneRow DEF RowInv

\* A post by the host keeps the invariant.
LEMMA PostInv ==
    ASSUME IInv, NEW p \in Parties, NEW pkt, Post(p, pkt)
    PROVE  IInv'
<1>1. pkt \in Packets /\ pkt.tx # Reject
  BY DEF Post, IInv, RowInv, RowOK, Rows, DecRow
<1>2. store \subseteq store'
  BY DEF Post
<1>3. ASSUME NEW q \in Parties
      PROVE  RowInv(q, row[q], child[q], store')
  <2>1. RowInv(q, row[q], child[q], store)
    BY DEF IInv
  <2>2. AckRow(row[q], store')
    BY <1>2, <2>1 DEF RowInv, AckRow
  <2>3. PostRow(q, row[q], store')
    BY <1>2, <2>1, SamePhasePost DEF RowInv
  <2> QED BY <2>1, <2>2, <2>3 DEF RowInv
<1> QED
  BY <1>1, <1>3 DEF IInv, Post

\* write_ack keeps the invariant.
LEMMA WriteAckInv ==
    ASSUME IInv, NEW p \in Parties, NEW pkt, write_ack(p, pkt)
    PROVE  IInv'
<1> DEFINE r == row[p]
           acked == [r EXCEPT !.writes = @ \ {pkt}]
           s == IF acked.writes = {} THEN ack_posted(p, acked) ELSE acked
<1>1. RowInv(p, r, child[p], store) /\ pkt \in store
  BY DEF IInv, write_ack
<1>2. row' = [row EXCEPT ![p] = s] /\ UNCHANGED <<store, listening, child>>
  BY DEF write_ack
<1> HIDE DEF r
<1>3. /\ RowOK(p, acked)
      /\ acked.log = r.log /\ acked.writes = r.writes \ {pkt} /\ acked.phase = r.phase
      /\ acked.last_ack = r.last_ack /\ acked.reason = r.reason
  BY <1>1 DEF RowInv, RowOK, Rows
<1> HIDE DEF acked
<1>4. RowInv(p, acked, child[p], store)
  <2>1. DecRow(acked, child[p]) /\ AckRow(acked, store)
    BY <1>1, <1>3 DEF RowInv, DecRow, AckRow
  <2>2. PostRow(p, acked, store)
    BY <1>1, <1>3, SamePhasePost DEF RowInv
  <2> QED BY <1>3, <2>1, <2>2 DEF RowInv
<1>5. ASSUME acked.writes = {}
      PROVE  RowInv(p, ack_posted(p, acked), child[p], store)
  <2> DEFINE u == ack_posted(p, acked)
  <2>1. RowOK(p, u) /\ PostRow(p, u, store)
    BY <1>4, <1>5, AckPostedOK, AckPostedPost DEF RowInv
  <2>2. /\ u.log = acked.log /\ u.writes = acked.writes
        /\ u.last_ack = acked.last_ack /\ u.reason = acked.reason
        /\ acked.phase \in {"Failed", "Deleted"} => u.phase = acked.phase
    BY <1>3 DEF ack_posted, RowOK, Rows
  <2> HIDE DEF u
  <2>3. RowInv(p, u, child[p], store)
    BY <1>4, <2>1, <2>2 DEF RowInv, DecRow, AckRow
  <2> QED BY <2>3 DEF u
<1>6. RowInv(p, s, child[p], store)
  BY <1>4, <1>5
<1> HIDE DEF s
<1> QED
  BY <1>2, <1>6, OneRow

\* poll keeps the invariant.
LEMMA PollInv ==
    ASSUME IInv, NEW p \in Parties, poll(p)
    PROVE  IInv'
<1>1. polls(row[p]) \in BOOLEAN
  BY DEF polls
<1>2. listening' \in [Parties -> BOOLEAN]
  BY <1>1 DEF IInv, poll
<1> QED
  BY <1>2 DEF IInv, poll

\* ingest_packet keeps the invariant.
LEMMA IngestInv ==
    ASSUME IInv, NEW p \in Parties, NEW pkt \in store, ingest_packet(p, pkt)
    PROVE  IInv'
<1> DEFINE r == row[p]
           s == open_and_merge(p, r, pkt)
<1>1. RowInv(p, r, child[p], store) /\ r.phase \notin NoRow \cup {"Failed"}
  BY DEF IInv, ingest_packet
<1>2. pkt \in Packets /\ pkt.tx \in Txs /\ pkt.tx # Reject
  BY DEF IInv, ingest_packet, Packets
<1>3. row' = [row EXCEPT ![p] = s] /\ UNCHANGED <<store, listening, child>>
  BY DEF ingest_packet
<1> HIDE DEF r
<1>4. r.phase # "Failed" /\ r.phase # "Deleted"
  BY <1>1 DEF NoRow
<1>5. RowOK(p, s)
  BY <1>1, <1>2, <1>4, MergeOK DEF RowInv
<1>6. Extends(r, s, Intros \cup {pkt.tx}, pkt.ids)
  BY <1>1, <1>2, <1>4, MergeExtends DEF RowInv
<1>7. PostRow(p, s, store)
  BY <1>1, <1>2, MergePost DEF RowInv
<1> HIDE DEF s
<1>8. DecRow(s, child[p])
  <2>1. Reject \notin Intros \cup {pkt.tx}
    BY <1>2, KindsDiffer
  <2> QED BY <1>1, <1>4, <1>6, <2>1, ExtendsDec DEF RowInv
<1>9. AckRow(s, store)
  BY <1>1, <1>6, ExtendsAck DEF RowInv
<1> QED
  BY <1>3, <1>5, <1>7, <1>8, <1>9, OneRow DEF RowInv

\* on_heal_packet keeps the invariant.
LEMMA HealInv ==
    ASSUME IInv, NEW p \in Parties, NEW pkt \in store, on_heal_packet(p, pkt)
    PROVE  IInv'
<1> DEFINE r == row[p]
           again == UNION {packets(t, r) : t \in r.log \ pkt.ids}
           u == [r EXCEPT !.healing = FALSE, !.writes = @ \cup again]
<1>1. RowInv(p, r, child[p], store) /\ r.phase \notin NoRow \cup {"Failed"}
  BY DEF IInv, on_heal_packet
<1>2. /\ \/ r.probes < MaxProbes /\ row' = [row EXCEPT ![p] = post_heal(r)]
         \/ row' = [row EXCEPT ![p] = u]
      /\ UNCHANGED <<store, listening, child>>
  BY DEF on_heal_packet
<1> HIDE DEF r
<1>3. r \in Rows /\ r.phase # "Failed" /\ Reject \notin r.log
  BY <1>1 DEF RowInv, RowOK, DecRow
<1>4. CASE r.probes < MaxProbes /\ row' = [row EXCEPT ![p] = post_heal(r)]
  <2> DEFINE s == post_heal(r)
  <2>1. RowOK(p, s)
    <3>1. r.probes # MaxProbes
      BY <1>3, <1>4, HandshakeAssumption DEF Rows
    <3> QED BY <1>1, <3>1, PostHealOK DEF RowInv
  <2>2. /\ s.log = r.log /\ s.writes = r.writes \cup packets(Probe, r) /\ s.phase = r.phase
        /\ s.last_ack = r.last_ack /\ s.reason = r.reason
    BY <1>3 DEF post_heal, Rows
  <2>3. \A x \in packets(Probe, r) : x.tx # Reject
    BY KindsDiffer DEF packets
  <2> HIDE DEF s
  <2>4. DecRow(s, child[p]) /\ AckRow(s, store)
    BY <1>1, <2>2, <2>3 DEF RowInv, DecRow, AckRow
  <2>5. PostRow(p, s, store)
    BY <1>1, <2>2, SamePhasePost DEF RowInv
  <2>6. RowInv(p, s, child[p], store)
    BY <2>1, <2>4, <2>5 DEF RowInv
  <2>7. row' = [row EXCEPT ![p] = s]
    BY <1>4 DEF s
  <2> QED BY <1>2, <2>6, <2>7, OneRow
<1>5. CASE row' = [row EXCEPT ![p] = u]
  <2>1. \A t \in r.log : packets(t, r) \subseteq Packets /\ \A x \in packets(t, r) : x.tx # Reject
    <3>1. ASSUME NEW t \in r.log
          PROVE  packets(t, r) \subseteq Packets
      <4>1. t \in Txs
        BY <1>3 DEF Rows
      <4> QED BY <1>3, <4>1, PacketsOK
    <3>2. ASSUME NEW t \in r.log
          PROVE  \A x \in packets(t, r) : x.tx # Reject
      BY <1>3 DEF packets
    <3> QED BY <3>1, <3>2
  <2>2. again \subseteq Packets /\ \A x \in again : x.tx # Reject
    BY <2>1
  <2> HIDE DEF again
  <2>3. /\ u.log = r.log /\ u.writes = r.writes \cup again /\ u.phase = r.phase
        /\ u.last_ack = r.last_ack /\ u.reason = r.reason
    BY <1>3 DEF Rows
  <2>4. RowOK(p, u)
    BY <1>1, <2>2 DEF RowInv, RowOK, Rows
  <2> HIDE DEF u
  <2>5. DecRow(u, child[p]) /\ AckRow(u, store)
    BY <1>1, <2>2, <2>3 DEF RowInv, DecRow, AckRow
  <2>6. PostRow(p, u, store)
    BY <1>1, <2>3, SamePhasePost DEF RowInv
  <2> QED
    BY <1>2, <1>5, <2>4, <2>5, <2>6, OneRow DEF RowInv
<1> QED BY <1>2, <1>4, <1>5

\* set_display_name keeps the invariant.
LEMMA SetNameInv ==
    ASSUME IInv, NEW p \in Parties, set_display_name(p)
    PROVE  IInv'
<1> DEFINE r == row[p]
           u == [r EXCEPT !.named = TRUE]
           s == mint_pending_intros(p, u)
<1>1. RowInv(p, r, child[p], store)
  BY DEF IInv
<1>2. row' = [row EXCEPT ![p] = s] /\ UNCHANGED <<store, listening, child>>
  BY DEF set_display_name
<1> HIDE DEF r
<1>3. /\ RowOK(p, u) /\ u.log = r.log /\ u.writes = r.writes /\ u.phase = r.phase
      /\ u.last_ack = r.last_ack /\ u.reason = r.reason
  BY <1>1 DEF RowInv, RowOK, Rows
<1> HIDE DEF u
<1>4. RowInv(p, u, child[p], store)
  <2>1. PostRow(p, u, store)
    BY <1>1, <1>3, SamePhasePost DEF RowInv
  <2> QED BY <1>1, <1>3, <2>1 DEF RowInv, DecRow, AckRow
<1>5. RowOK(p, s) /\ PostRow(p, s, store)
  BY <1>4, PendingIntrosOK, PendingIntrosPost DEF RowInv
<1>6. Extends(u, s, Intros, u.last_ack)
  BY <1>4, PendingIntrosExtends DEF RowInv
<1>7. u.phase \in {"Failed", "Deleted"} => s.phase = u.phase
  BY DEF mint_pending_intros, try_mint_invitee_intro, try_mint_inviter_intro
<1> HIDE DEF s
<1>8. DecRow(s, child[p])
  BY <1>4, <1>6, <1>7, ExtendsDec, KindsDiffer DEF RowInv
<1>9. AckRow(s, store)
  BY <1>4, <1>6, ExtendsAck DEF RowInv
<1> QED
  BY <1>2, <1>5, <1>8, <1>9, OneRow DEF RowInv

\* tick keeps the invariant.
LEMMA TickInv ==
    ASSUME IInv, NEW p \in Parties, tick(p)
    PROVE  IInv'
<1> DEFINE r == row[p]
           s == fail(r, "InviteExpired")
<1>1. RowInv(p, r, child[p], store) /\ r.phase # "None" /\ r.phase # "Deleted"
  BY DEF IInv, tick, NoRow
<1>2. row' = [row EXCEPT ![p] = s] /\ UNCHANGED <<store, listening, child>>
  BY DEF tick
<1> HIDE DEF r
<1>3. RowOK(p, s) /\ PostRow(p, s, store)
  BY <1>1, FailOK, FailPost DEF RowInv, Reasons
<1>4. Extends(r, s, {}, r.last_ack)
  BY <1>1, FailExtends DEF RowInv, RowOK, Reasons
<1>5. r.phase = "Failed" => s.phase = r.phase
  BY DEF fail
<1> HIDE DEF s
<1>6. DecRow(s, child[p]) /\ AckRow(s, store)
  BY <1>1, <1>4, <1>5, ExtendsDec, ExtendsAck DEF RowInv
<1> QED
  BY <1>2, <1>3, <1>6, OneRow DEF RowInv

\* reject_established keeps the invariant.
LEMMA RejectInv ==
    ASSUME IInv, NEW p \in Parties, reject_established(p)
    PROVE  IInv'
<1> DEFINE r == row[p]
           u == [r EXCEPT !.log = @ \cup {Reject}]
           s == fail(u, "ConfirmationRejected")
<1>1. /\ RowInv(p, r, child[p], store)
      /\ r.phase = "Confirming" /\ Confirm \notin r.log
  BY DEF IInv, reject_established, require_confirming
<1>2. row' = [row EXCEPT ![p] = s] /\ UNCHANGED <<store, listening, child>>
  BY DEF reject_established
<1> HIDE DEF r
<1>3. /\ RowOK(p, u) /\ u.log = r.log \cup {Reject} /\ u.writes = r.writes
      /\ u.phase = r.phase /\ u.last_ack = r.last_ack
  BY <1>1, NoticeTxs DEF RowInv, RowOK, Rows
<1> HIDE DEF u
<1>4. RowOK(p, s)
  BY <1>3, FailOK DEF Reasons
<1>5. /\ s.log = u.log /\ s.writes = u.writes /\ s.phase = "Failed"
      /\ s.last_ack = u.last_ack
  BY <1>1, <1>3 DEF fail, RowOK, Rows
<1> HIDE DEF s
<1>6. DecRow(s, child[p]) /\ AckRow(s, store)
  BY <1>1, <1>3, <1>5, KindsDiffer DEF RowInv, DecRow, AckRow
<1>7. PostRow(p, s, store)
  BY <1>1, <1>3, <1>5, SamePhasePost DEF RowInv
<1> QED
  BY <1>2, <1>4, <1>6, <1>7, OneRow DEF RowInv

\* delete_conversation keeps the invariant.
LEMMA DeleteInv ==
    ASSUME IInv, NEW p \in Parties, delete_conversation(p)
    PROVE  IInv'
<1> DEFINE r == row[p]
           s == [NewRow EXCEPT !.phase = "Deleted", !.writes = r.writes,
                               !.named = r.named, !.accepts = r.accepts, !.dek = r.dek]
<1>1. RowInv(p, r, child[p], store) /\ r.phase # "None"
  BY DEF IInv, delete_conversation, NoRow
<1>2. row' = [row EXCEPT ![p] = s] /\ UNCHANGED <<store, listening, child>>
  BY DEF delete_conversation
<1> HIDE DEF r
<1>3. r \in Rows
  BY <1>1 DEF RowInv, RowOK
<1>4. /\ s.phase = "Deleted" /\ s.reason = None /\ s.log = {} /\ s.last_ack = {}
      /\ s.writes = r.writes
  BY DEF NewRow
<1>5. s \in Rows
  <2>1. 0 \in 0 .. MaxProbes
    BY HandshakeAssumption
  <2> QED BY <1>3, <2>1 DEF NewRow, Rows, NoRow
<1> HIDE DEF s
<1>6. RowOK(p, s) /\ AckRow(s, store)
  BY <1>4, <1>5 DEF RowOK, NoRow, AckRow
<1>7. DecRow(s, child[p])
  BY <1>1, <1>4, NoneAssumption DEF RowInv, DecRow, Reasons
<1>8. PostRow(p, s, store)
  BY <1>1, <1>4 DEF RowInv, PostRow
<1> QED
  BY <1>2, <1>6, <1>7, <1>8, OneRow DEF RowInv

\* confirm_established keeps the invariant.
LEMMA ConfirmInv ==
    ASSUME IInv, NEW p \in Parties, confirm_established(p)
    PROVE  IInv'
<1> DEFINE r == row[p]
           u == [r EXCEPT !.log = @ \cup {Confirm}]
           e == (CHOOSE t \in u.log : t.kind = "InviteeIntro").of
           s == IF IsSync /\ p = Inviter THEN mint(SyncDek(e), u) ELSE u
           ch == fingerprint(r).spawn
<1>1. /\ RowInv(p, r, child[p], store)
      /\ r.phase = "Confirming" /\ fingerprint(r) # None
  BY DEF IInv, confirm_established, require_confirming
<1>2. /\ row' = [row EXCEPT ![p] = s]
      /\ child' = [child EXCEPT ![p] = ch]
      /\ UNCHANGED <<store, listening>>
  BY DEF confirm_established
<1> HIDE DEF r
<1>3. ch \in SUBSET Secrets /\ has_kind(r, "InviteeIntro")
  <2>1. /\ has_kind(r, "InviteeIntro") /\ has_kind(r, "InviterIntro")
        /\ r.shared_inviter # None /\ r.shared_invitee # None
    BY <1>1 DEF fingerprint
  <2>2. ch = {r.shared_inviter, r.shared_invitee}
    BY <2>1 DEF fingerprint
  <2>3. r.shared_inviter \in Secrets /\ r.shared_invitee \in Secrets
    BY <1>1, <2>1 DEF RowInv, RowOK, Rows
  <2> QED BY <2>1, <2>2, <2>3
<1> HIDE DEF ch
<1>4. /\ RowOK(p, u) /\ u.log = r.log \cup {Confirm} /\ u.writes = r.writes
      /\ u.phase = r.phase /\ u.last_ack = r.last_ack /\ u.reason = r.reason
  BY <1>1, NoticeTxs DEF RowInv, RowOK, Rows
<1> HIDE DEF u
<1>5. e \in Invitees
  <2>1. has_kind(u, "InviteeIntro")
    BY <1>3, <1>4 DEF has_kind
  <2> QED BY <1>4, <2>1, IntroOf DEF RowOK
<1> HIDE DEF e
<1>6. RowInv(p, u, ch, store)
  <2>1. r.reason # "ConfirmationRejected"
    BY <1>1, NoneAssumption DEF RowInv, RowOK, Reasons
  <2>2. DecRow(u, ch) /\ AckRow(u, store)
    BY <1>1, <1>4, <2>1, KindsDiffer DEF RowInv, DecRow, AckRow
  <2>3. PostRow(p, u, store)
    BY <1>1, <1>4, SamePhasePost DEF RowInv
  <2> QED BY <1>4, <2>2, <2>3 DEF RowInv
<1>7. RowInv(p, mint(SyncDek(e), u), ch, store)
  <2> DEFINE v == mint(SyncDek(e), u)
  <2>1. RowOK(p, v)
    BY <1>5, <1>6, MintOK, NoticeTxs DEF RowInv
  <2>2. Extends(u, v, {SyncDek(e)}, u.last_ack)
    BY <1>6, MintExtends DEF RowInv, RowOK
  <2>3. v.phase = u.phase
    BY <1>4 DEF mint, RowOK, Rows
  <2> HIDE DEF v
  <2>4. DecRow(v, ch) /\ AckRow(v, store)
    BY <1>1, <1>4, <1>6, <2>2, ExtendsDec, ExtendsAck, KindsDiffer DEF RowInv
  <2>5. PostRow(p, v, store)
    BY <1>6, <2>2, <2>3, SamePhasePost DEF RowInv, Extends
  <2>6. RowInv(p, v, ch, store)
    BY <2>1, <2>4, <2>5 DEF RowInv
  <2> QED BY <2>6 DEF v
<1>8. RowInv(p, s, ch, store)
  BY <1>6, <1>7
<1> HIDE DEF s
<1> QED
  <2>1. row' \in [Parties -> Rows]
    BY <1>2, <1>8 DEF IInv, RowInv, RowOK
  <2>2. child' \in [Parties -> (SUBSET Secrets) \cup {None}]
    BY <1>2, <1>3 DEF IInv
  <2>3. ASSUME NEW q \in Parties
        PROVE  RowInv(q, row'[q], child'[q], store')
    <3>1. CASE q = p
      <4>1. row'[p] = s /\ child'[p] = ch
        BY <1>2 DEF IInv
      <4> QED BY <1>2, <1>8, <3>1, <4>1
    <3>2. CASE q # p
      <4>1. row'[q] = row[q] /\ child'[q] = child[q]
        BY <1>2, <3>2 DEF IInv
      <4> QED BY <1>2, <4>1 DEF IInv
    <3> QED BY <3>1, <3>2
  <2> QED BY <1>2, <2>1, <2>2, <2>3 DEF IInv

-----------------------------------------------------------------------------
(* Theorems. *)

\* Every action, and stuttering, keeps the invariant of the rows.
LEMMA NextInv == IInv /\ [Next]_vars => IInv'
<1> SUFFICES ASSUME IInv, [Next]_vars PROVE IInv'
  OBVIOUS
<1>1. CASE create_invite
  BY <1>1, CreateInviteInv
<1>2. CASE \E e \in Invitees : receive_ticket(e)
  BY <1>2, ReceiveTicketInv
<1>3. ASSUME NEW p \in Parties, NEW pkt \in row[p].writes, Post(p, pkt) \/ write_ack(p, pkt)
      PROVE  IInv'
  BY <1>3, PostInv, WriteAckInv
<1>4. ASSUME NEW p \in Parties, NEW pkt \in store, ingest_packet(p, pkt) \/ on_heal_packet(p, pkt)
      PROVE  IInv'
  BY <1>4, IngestInv, HealInv
<1>5. ASSUME NEW p \in Parties, poll(p) \/ set_display_name(p) \/ tick(p)
      PROVE  IInv'
  BY <1>5, PollInv, SetNameInv, TickInv
<1>6. ASSUME NEW p \in Parties,
             confirm_established(p) \/ reject_established(p) \/ delete_conversation(p)
      PROVE  IInv'
  BY <1>6, ConfirmInv, RejectInv, DeleteInv
<1>7. CASE UNCHANGED vars
  BY <1>7 DEF IInv, vars
<1> QED
  BY <1>1, <1>2, <1>3, <1>4, <1>5, <1>6, <1>7 DEF Next

\* The invariant of the rows holds in every reachable state.
THEOREM RowsInvariant == Spec => []IInv
<1>1. Init => IInv
  BY InitInv
<1>2. IInv /\ [Next]_vars => IInv'
  BY NextInv
<1> QED
  BY <1>1, <1>2, PTL DEF Spec

\* Rows, store and children keep their types, the phases of an inviter and of
\* an invitee never mix, and a row holds a failure reason exactly if it failed.
THEOREM TypeCorrect == Spec => []TypeOK
<1>1. IInv => TypeOK
  <2> SUFFICES ASSUME IInv PROVE TypeOK
    OBVIOUS
  <2>1. Inviter \in Parties /\ \A e \in Invitees : e \in Parties /\ e # Inviter
    BY HandshakeAssumption DEF Parties
  <2>2. \A p \in Parties : RowOK(p, row[p])
    BY DEF IInv, RowInv
  <2> QED BY <2>1, <2>2 DEF IInv, TypeOK, RowOK
<1> QED
  BY <1>1, RowsInvariant, PTL

\* No row is decided twice, whatever the channels replay and healing brings in:
\* TxReject never leaves the row whose user rejected, so no packet can add it to
\* a row that confirmed, nor TxConfirm to a row that rejected.
THEOREM DecidedOnceAlways == Spec => []DecidedOnce
<1>1. IInv => DecidedOnce
  BY DEF IInv, RowInv, DecRow, DecidedOnce
<1> QED
  BY <1>1, RowsInvariant, PTL

\* Whatever last_acks holds is in the log and was named by a posted packet.
THEOREM AckSoundAlways == Spec => []AckSound
<1>1. IInv => AckSound
  BY DEF IInv, RowInv, AckRow, AckSound
<1> QED
  BY <1>1, RowsInvariant, PTL

\* advance_ack_phases enters NoticePinned, IntroductionSent and the inviter's
\* Confirming only when every channel of the ticket holds the transaction.
THEOREM PhaseMeansPostedAlways == Spec => []PhaseMeansPosted
<1>1. IInv => PhaseMeansPosted
  <2> SUFFICES ASSUME IInv PROVE PhaseMeansPosted
    OBVIOUS
  <2>1. Inviter \in Parties /\ \A e \in Invitees : e \in Parties /\ e # Inviter
    BY HandshakeAssumption DEF Parties
  <2>2. \A p \in Parties : PostRow(p, row[p], store)
    BY DEF IInv, RowInv
  <2>3. \A t : Queued(t, {}, store) => Posted(t)
    BY DEF Queued, Posted
  <2> QED BY <2>1, <2>2, <2>3 DEF PostRow, PhaseMeansPosted
<1> QED
  BY <1>1, RowsInvariant, PTL

-----------------------------------------------------------------------------
(* Secrets: which intros, secrets, DEKs and children can be where, for every *)
(* set of ticket holders.                                                    *)

\* What a row's intros, secrets and phase say about each other: at most one
\* intro of a role, none once the row is deleted, and secrets that come from the intros of the log.
SecretRow(p, r) ==
    /\ \A s, t \in r.log : s.kind = t.kind /\ s.kind \in {"InviteeIntro", "InviterIntro"} => s = t
    /\ r.phase = "Deleted" => r.log = {}
    /\ p = Inviter /\ (\/ r.shared_inviter # None \/ r.shared_invitee # None
                       \/ r.phase \in {"IntroductionMinted", "Confirming"})
          => \E e \in Invitees : /\ InviteeIntro(e) \in r.log /\ InviterIntro(e) \in r.log
                                 /\ r.shared_inviter = ToInviter(e)
                                 /\ r.shared_invitee = ToInvitee(e)
    /\ p # Inviter /\ (\/ r.shared_inviter # None
                       \/ r.phase \in {"IntroductionMinted", "IntroductionSent", "Confirming"})
          => InviteeIntro(p) \in r.log /\ r.shared_inviter = ToInviter(p)
    /\ p # Inviter /\ (r.shared_invitee # None \/ r.phase = "Confirming")
          => \E e \in Invitees : /\ InviterIntro(e) \in r.log
                                 /\ r.shared_invitee = IF e = p THEN ToInvitee(p) ELSE Unrelated(p)

\* The secrets of a child are those of one pair of intros.
ChildRow(p, c) ==
    \/ c = None
    \/ p = Inviter /\ \E e \in Invitees : c = {ToInviter(e), ToInvitee(e)}
    \/ p # Inviter /\ \E x \in {ToInvitee(p), Unrelated(p)} : c = {ToInviter(p), x}

\* Where a transaction of the inviter comes from, wherever it is met: from the
\* inviter's log, with the inviter's row r and child c.
Known(t, r, c) ==
    /\ t.kind = "InviterIntro" => t \in r.log \/ r.phase = "Deleted"
    /\ t.kind = "SyncDek" => /\ c = {ToInviter(t.of), ToInvitee(t.of)}
                             /\ Confirm \in r.log \/ r.phase = "Deleted"

\* Everything in a log, waiting or posted is known, and every DEK.
SInv ==
    /\ \A p \in Parties : SecretRow(p, row[p]) /\ ChildRow(p, child[p])
    /\ \A p \in Parties : \A t \in row[p].log : Known(t, row[Inviter], child[Inviter])
    /\ \A p \in Parties : \A pkt \in row[p].writes : Known(pkt.tx, row[Inviter], child[Inviter])
    /\ \A pkt \in store : Known(pkt.tx, row[Inviter], child[Inviter])
    /\ \A e \in Invitees : row[e].dek => Known(SyncDek(e), row[Inviter], child[Inviter])

-----------------------------------------------------------------------------
(* What the helpers do to secrets and to the origin of transactions. *)

\* Transactions that say nothing of the inviter's secrets, or that the inviter
\* itself adds.
Harmless(p, t) == t.kind # "SyncDek" /\ (t.kind = "InviterIntro" => p = Inviter)

\* s is r after helpers that added harmless transactions and those of new,
\* queued only what the log holds, and took only a DEK of new.
Grows(p, r, s, new) ==
    /\ r.log \subseteq s.log
    /\ \A t \in s.log : t \in r.log \/ t \in new \/ Harmless(p, t)
    /\ \A pkt \in s.writes : pkt \in r.writes \/ pkt.tx \in s.log \/ pkt.tx = Probe
    /\ p = Inviter /\ r.phase = "Deleted" => s.phase = "Deleted"
    /\ s.dek => r.dek \/ \E t \in new : t.kind = "SyncDek"

\* An intro or a DEK is determined by its kind and its holder.
LEMMA TxShape ==
    ASSUME NEW t \in Txs
    PROVE  /\ t.kind = "InviteeIntro" => t.of \in Invitees /\ t = InviteeIntro(t.of)
           /\ t.kind = "InviterIntro" => t.of \in Invitees /\ t = InviterIntro(t.of)
           /\ t.kind = "SyncDek" => t.of \in Invitees /\ t = SyncDek(t.of)
<1>1. CASE t \in {Notice, Confirm, Reject}
  BY <1>1 DEF Notice, Confirm, Reject
<1>2. CASE t \in [kind : {"InviteeIntro", "InviterIntro", "SyncDek"}, of : Invitees]
  BY <1>2 DEF InviteeIntro, InviterIntro, SyncDek
<1> QED
  BY <1>1, <1>2 DEF Txs

\* The kinds of the transactions.
LEMMA TxKinds ==
    /\ Notice.kind = "Notice" /\ Confirm.kind = "Confirm" /\ Reject.kind = "Reject"
    /\ Probe.kind = "Probe"
    /\ \A e : /\ InviteeIntro(e).kind = "InviteeIntro" /\ InviteeIntro(e).of = e
              /\ InviterIntro(e).kind = "InviterIntro" /\ InviterIntro(e).of = e
              /\ SyncDek(e).kind = "SyncDek" /\ SyncDek(e).of = e
BY DEF Notice, Confirm, Reject, Probe, InviteeIntro, InviterIntro, SyncDek

\* Grows is transitive.
LEMMA GrowsTrans ==
    ASSUME NEW p, NEW r, NEW s, NEW u, NEW new, Grows(p, r, s, new), Grows(p, s, u, new)
    PROVE  Grows(p, r, u, new)
BY DEF Grows

\* Grows is reflexive.
LEMMA GrowsSelf ==
    ASSUME NEW p, NEW r, NEW new
    PROVE  Grows(p, r, r, new)
BY DEF Grows

\* A row with the same log, phase and secrets.
LEMMA SameSecrets ==
    ASSUME NEW p, NEW r, NEW s, SecretRow(p, r), s.log = r.log, s.phase = r.phase,
           s.shared_inviter = r.shared_inviter, s.shared_invitee = r.shared_invitee
    PROVE  SecretRow(p, s)
BY DEF SecretRow

\* A failure drops the secrets.
LEMMA FailSecret ==
    ASSUME NEW p, NEW r \in Rows, SecretRow(p, r), NEW why, NEW new,
           p = Inviter => r.phase # "Deleted"
    PROVE  SecretRow(p, fail(r, why)) /\ Grows(p, r, fail(r, why), new)
<1>1. CASE r.phase = "Failed"
  BY <1>1, GrowsSelf DEF fail
<1>2. CASE r.phase # "Failed"
  <2> DEFINE s == fail(r, why)
  <2>1. /\ s.phase = "Failed" /\ s.shared_inviter = None /\ s.shared_invitee = None
        /\ s.log = r.log /\ s.writes = r.writes /\ s.dek = r.dek
    BY <1>2 DEF fail, Rows
  <2> HIDE DEF s
  <2>2. SecretRow(p, s) /\ Grows(p, r, s, new)
    BY <2>1 DEF SecretRow, Grows
  <2> QED BY <2>2 DEF s
<1> QED BY <1>1, <1>2

\* The fields of a row after a mint.
LEMMA MintFields ==
    ASSUME NEW r \in Rows, NEW t
    PROVE  LET s == mint(t, r)
           IN  /\ s.log = r.log \cup {t} /\ s.phase = r.phase /\ s.dek = r.dek
               /\ s.shared_inviter = r.shared_inviter /\ s.shared_invitee = r.shared_invitee
               /\ \A pkt \in s.writes : pkt \in r.writes \/ pkt.tx = t
<1> DEFINE merged == [r EXCEPT !.log = @ \cup {t}]
<1>1. \A pkt \in packets(t, merged) : pkt.tx = t
  BY DEF packets
<1>2. /\ mint(t, r).log = r.log \cup {t}
      /\ mint(t, r).writes = r.writes \cup packets(t, merged)
      /\ mint(t, r).phase = r.phase /\ mint(t, r).dek = r.dek
      /\ mint(t, r).shared_inviter = r.shared_inviter
      /\ mint(t, r).shared_invitee = r.shared_invitee
  BY DEF mint, Rows
<1> HIDE DEF merged
<1> QED
  BY <1>1, <1>2

\* ack_completed_last keeps what is said of secrets and of the origin of transactions.
LEMMA AckCompletedSecret ==
    ASSUME NEW p, NEW r \in Rows, SecretRow(p, r), NEW ids, NEW new
    PROVE  /\ SecretRow(p, ack_completed_last(r, ids))
           /\ Grows(p, r, ack_completed_last(r, ids), new)
<1> DEFINE s == ack_completed_last(r, ids)
<1>1. /\ s.log = r.log /\ s.phase = r.phase /\ s.dek = r.dek
      /\ s.shared_inviter = r.shared_inviter /\ s.shared_invitee = r.shared_invitee
      /\ \A pkt \in s.writes : pkt \in r.writes \/ pkt.tx = Probe
  <2>1. CASE ids = r.log
    <3>1. s = [r EXCEPT !.last_ack = r.log, !.healing = FALSE]
      BY <2>1 DEF ack_completed_last
    <3> QED BY <3>1 DEF Rows
  <2>2. CASE ids # r.log
    <3>1. \A pkt \in packets(Probe, r) : pkt.tx = Probe
      BY DEF packets
    <3>2. /\ post_heal(r).log = r.log /\ post_heal(r).phase = r.phase /\ post_heal(r).dek = r.dek
          /\ post_heal(r).shared_inviter = r.shared_inviter
          /\ post_heal(r).shared_invitee = r.shared_invitee
          /\ post_heal(r).writes = r.writes \cup packets(Probe, r)
      BY DEF post_heal, Rows
    <3>3. s = r \/ s = post_heal(r)
      BY <2>2 DEF ack_completed_last
    <3> HIDE DEF s
    <3> QED BY <3>1, <3>2, <3>3
  <2> QED BY <2>1, <2>2
<1> HIDE DEF s
<1>2. SecretRow(p, s) /\ Grows(p, r, s, new)
  BY <1>1, SameSecrets DEF Grows
<1> QED BY <1>2 DEF s

\* The invitee's intro and the secret that it carries are minted together.
LEMMA InviteeIntroSecret ==
    ASSUME NEW p \in Parties, NEW r, RowOK(p, r), SecretRow(p, r), NEW new
    PROVE  /\ SecretRow(p, try_mint_invitee_intro(p, r))
           /\ Grows(p, r, try_mint_invitee_intro(p, r), new)
<1> DEFINE u == [r EXCEPT !.phase = "IntroductionMinted", !.shared_inviter = ToInviter(p)]
           t == InviteeIntro(p)
           s == mint(t, u)
<1>1. CASE \/ p = Inviter \/ r.phase # "InviteReceived"
           \/ has_kind(r, "InviteeIntro") \/ ~has_kind(r, "Notice") \/ ~r.named
  BY <1>1, GrowsSelf DEF try_mint_invitee_intro
<1>2. CASE ~(\/ p = Inviter \/ r.phase # "InviteReceived"
             \/ has_kind(r, "InviteeIntro") \/ ~has_kind(r, "Notice") \/ ~r.named)
  <2>1. SecretRow(p, fail(r, "PolicyNotAccepted")) /\ Grows(p, r, fail(r, "PolicyNotAccepted"), new)
    BY <1>2, FailSecret DEF RowOK
  <2>2. /\ u \in Rows /\ u.log = r.log /\ u.phase = "IntroductionMinted" /\ u.dek = r.dek
        /\ u.shared_inviter = ToInviter(p) /\ u.shared_invitee = r.shared_invitee
        /\ u.writes = r.writes
    <3>1. ToInviter(p) \in Secrets
      BY <1>2 DEF ToInviter, Secrets, Parties
    <3> QED BY <3>1 DEF RowOK, Rows, InviteePhases
  <2> HIDE DEF u
  <2>3. /\ s.log = r.log \cup {t} /\ s.phase = "IntroductionMinted" /\ s.dek = r.dek
        /\ s.shared_inviter = ToInviter(p) /\ s.shared_invitee = r.shared_invitee
        /\ \A pkt \in s.writes : pkt \in r.writes \/ pkt.tx = t
    BY <2>2, MintFields
  <2>4. t.kind = "InviteeIntro" /\ \A x \in r.log : x.kind # "InviteeIntro"
    BY <1>2, TxKinds DEF has_kind
  <2> HIDE DEF s
  <2>5. SecretRow(p, s)
    BY <1>2, <2>3, <2>4 DEF SecretRow
  <2>6. Grows(p, r, s, new)
    BY <1>2, <2>3, <2>4 DEF Grows, Harmless
  <2> QED
    BY <1>2, <2>1, <2>5, <2>6 DEF try_mint_invitee_intro, s, u
<1> QED BY <1>1, <1>2

\* The inviter's intro answers the one invitee intro of its log.
LEMMA InviterIntroSecret ==
    ASSUME NEW p \in Parties, NEW r, RowOK(p, r), SecretRow(p, r), NEW new
    PROVE  /\ SecretRow(p, try_mint_inviter_intro(p, r))
           /\ Grows(p, r, try_mint_inviter_intro(p, r), new)
<1> DEFINE c == CHOOSE t \in r.log : t.kind = "InviteeIntro"
           e == c.of
           u == [r EXCEPT !.phase = "IntroductionMinted",
                          !.shared_inviter = ToInviter(e),
                          !.shared_invitee = ToInvitee(e)]
           t == InviterIntro(e)
           s == mint(t, u)
<1>1. CASE ~(/\ p = Inviter /\ r.phase = "NoticePinned" /\ ~has_kind(r, "InviterIntro") /\ r.named
             /\ has_kind(r, "InviteeIntro"))
  BY <1>1, GrowsSelf DEF try_mint_inviter_intro
<1>2. CASE /\ p = Inviter /\ r.phase = "NoticePinned" /\ ~has_kind(r, "InviterIntro") /\ r.named
           /\ has_kind(r, "InviteeIntro")
  <2>1. c \in r.log /\ c.kind = "InviteeIntro" /\ e \in Invitees
    BY <1>2, IntroOf DEF RowOK
  <2>2. InviteeIntro(e) \in r.log
    <3>1. c \in Txs
      BY <2>1 DEF RowOK, Rows
    <3> QED BY <2>1, <3>1, TxShape
  <2> HIDE DEF e
  <2>3. /\ u \in Rows /\ u.log = r.log /\ u.phase = "IntroductionMinted" /\ u.dek = r.dek
        /\ u.shared_inviter = ToInviter(e) /\ u.shared_invitee = ToInvitee(e)
        /\ u.writes = r.writes
    <3>1. ToInviter(e) \in Secrets /\ ToInvitee(e) \in Secrets
      BY <2>1 DEF ToInviter, ToInvitee, Secrets
    <3> QED BY <3>1 DEF RowOK, Rows, InviterPhases
  <2> HIDE DEF u
  <2>4. /\ s.log = r.log \cup {t} /\ s.phase = "IntroductionMinted" /\ s.dek = r.dek
        /\ s.shared_inviter = ToInviter(e) /\ s.shared_invitee = ToInvitee(e)
        /\ \A pkt \in s.writes : pkt \in r.writes \/ pkt.tx = t
    BY <2>3, MintFields
  <2>5. t.kind = "InviterIntro" /\ \A x \in r.log : x.kind # "InviterIntro"
    BY <1>2, TxKinds DEF has_kind
  <2> HIDE DEF s
  <2>6. SecretRow(p, s)
    BY <1>2, <2>1, <2>2, <2>4, <2>5 DEF SecretRow
  <2>7. Grows(p, r, s, new)
    BY <1>2, <2>4, <2>5 DEF Grows, Harmless
  <2> QED
    BY <1>2, <2>6, <2>7 DEF try_mint_inviter_intro, s, u, e
<1> QED BY <1>1, <1>2

\* mint_pending_intros keeps what is said of secrets and of the origin of transactions.
LEMMA PendingIntrosSecret ==
    ASSUME NEW p \in Parties, NEW r, RowOK(p, r), SecretRow(p, r), NEW new
    PROVE  /\ SecretRow(p, mint_pending_intros(p, r))
           /\ Grows(p, r, mint_pending_intros(p, r), new)
<1> DEFINE s == try_mint_invitee_intro(p, r)
<1>1. RowOK(p, s) /\ SecretRow(p, s) /\ Grows(p, r, s, new)
  BY InviteeIntroOK, InviteeIntroSecret
<1> HIDE DEF s
<1>2. /\ SecretRow(p, try_mint_inviter_intro(p, s))
      /\ Grows(p, s, try_mint_inviter_intro(p, s), new)
  BY <1>1, InviterIntroSecret
<1> QED
  BY <1>1, <1>2, GrowsTrans DEF mint_pending_intros, s

\* The gates and the merge of a transaction that they let in: a second intro of
\* a role is refused, and an invitee takes the inviter's only after its own.
LEMMA GateSecret ==
    ASSUME NEW p \in Parties, NEW r, RowOK(p, r), SecretRow(p, r), NEW t \in Txs,
           r.phase \notin NoRow \cup {"Failed"}, refusal(p, r, t) = None,
           NEW s, s = [handshake_ingest_gate(p, r, t) EXCEPT !.log = @ \cup {t}]
    PROVE  SecretRow(p, s) /\ Grows(p, r, s, {t})
<1>1. r \in Rows /\ r.phase # "Deleted" /\ r.phase # "Failed"
  BY DEF RowOK, NoRow
<1>2. t.kind \in {"InviteeIntro", "InviterIntro"} => \A x \in r.log : x.kind # t.kind
  BY NoneAssumption DEF refusal, has_kind, Reasons
<1>3. CASE t.kind = "Notice" /\ p # Inviter
  <2> DEFINE g == handshake_ingest_gate(p, r, t)
  <2>1. g \in {fail(r, "PolicyNotAccepted"), [r EXCEPT !.phase = "InviteReceived"], r}
    BY <1>3 DEF handshake_ingest_gate
  <2>2. SecretRow(p, fail(r, "PolicyNotAccepted")) /\ Grows(p, r, fail(r, "PolicyNotAccepted"), {t})
    BY <1>1, FailSecret
  <2>3. fail(r, "PolicyNotAccepted") \in Rows
    BY FailOK DEF RowOK, Reasons
  <2>4. /\ [r EXCEPT !.phase = "InviteReceived"] \in Rows
        /\ SecretRow(p, [r EXCEPT !.phase = "InviteReceived"])
        /\ Grows(p, r, [r EXCEPT !.phase = "InviteReceived"], {t})
    <3> DEFINE u == [r EXCEPT !.phase = "InviteReceived"]
    <3>1. /\ u \in Rows /\ u.phase = "InviteReceived" /\ u.log = r.log /\ u.writes = r.writes
          /\ u.shared_inviter = r.shared_inviter /\ u.shared_invitee = r.shared_invitee
          /\ u.dek = r.dek
      BY <1>1 DEF Rows, InviteePhases
    <3> HIDE DEF u
    <3>2. SecretRow(p, u) /\ Grows(p, r, u, {t})
      BY <1>1, <3>1 DEF SecretRow, Grows
    <3> QED BY <3>1, <3>2 DEF u
  <2>5. g \in Rows /\ SecretRow(p, g) /\ Grows(p, r, g, {t})
    BY <1>1, <2>1, <2>2, <2>3, <2>4, GrowsSelf
  <2> HIDE DEF g
  <2>6. /\ s.log = g.log \cup {t} /\ s.phase = g.phase /\ s.writes = g.writes /\ s.dek = g.dek
        /\ s.shared_inviter = g.shared_inviter /\ s.shared_invitee = g.shared_invitee
    BY <2>5 DEF Rows, g
  <2>7. SecretRow(p, s)
    <3>1. g.phase # "Deleted"
      BY <1>1, <2>1 DEF fail, Rows, g
    <3> QED BY <1>3, <2>5, <2>6, <3>1 DEF SecretRow
  <2>8. Grows(p, g, s, {t})
    BY <2>6 DEF Grows
  <2> QED BY <2>5, <2>7, <2>8, GrowsTrans
<1>4. CASE t.kind = "InviterIntro" /\ p # Inviter
  <2>1. r.phase \in {"IntroductionMinted", "IntroductionSent"}
    BY <1>4, NoneAssumption DEF refusal, Reasons
  <2>2. t.of \in Invitees /\ t = InviterIntro(t.of)
    BY <1>4, TxShape
  <2> DEFINE x == IF t.of = p THEN ToInvitee(p) ELSE Unrelated(p)
             g == [r EXCEPT !.phase = "Confirming", !.shared_invitee = x]
  <2>3. handshake_ingest_gate(p, r, t) = g
    <3>1. t.kind # "Notice"
      BY <1>4
    <3> QED BY <1>4, <3>1 DEF handshake_ingest_gate
  <2> HIDE DEF x
  <2>4. /\ s.log = r.log \cup {t} /\ s.phase = "Confirming" /\ s.writes = r.writes /\ s.dek = r.dek
        /\ s.shared_inviter = r.shared_inviter /\ s.shared_invitee = x
    BY <1>1, <2>3 DEF Rows
  <2>5. SecretRow(p, s)
    <3>1. \A y, z \in s.log : y.kind = z.kind /\ y.kind \in {"InviteeIntro", "InviterIntro"} => y = z
      BY <1>2, <1>4, <2>4 DEF SecretRow
    <3>2. InviteeIntro(p) \in s.log /\ s.shared_inviter = ToInviter(p)
      BY <1>4, <2>1, <2>4 DEF SecretRow
    <3>3. InviterIntro(t.of) \in s.log /\ s.shared_invitee = IF t.of = p THEN ToInvitee(p) ELSE Unrelated(p)
      BY <2>2, <2>4 DEF x
    <3> QED BY <1>4, <2>2, <2>4, <3>1, <3>2, <3>3 DEF SecretRow
  <2>6. Grows(p, r, s, {t})
    BY <1>4, <2>4 DEF Grows
  <2> QED BY <2>5, <2>6
<1>5. CASE ~(t.kind = "Notice" /\ p # Inviter) /\ ~(t.kind = "InviterIntro" /\ p # Inviter)
  <2>1. /\ s.log = r.log \cup {t} /\ s.phase = r.phase /\ s.writes = r.writes
        /\ s.shared_inviter = r.shared_inviter /\ s.shared_invitee = r.shared_invitee
        /\ s.dek => r.dek \/ t.kind = "SyncDek"
    <3>1. CASE t.kind = "SyncDek"
      <4>1. handshake_ingest_gate(p, r, t) = [r EXCEPT !.dek = TRUE]
        BY <3>1 DEF handshake_ingest_gate
      <4> QED BY <1>1, <3>1, <4>1 DEF Rows
    <3>2. CASE t.kind # "SyncDek"
      <4>1. handshake_ingest_gate(p, r, t) = r
        BY <1>5, <3>2 DEF handshake_ingest_gate
      <4> QED BY <1>1, <4>1 DEF Rows
    <3> QED BY <3>1, <3>2
  <2>2. SecretRow(p, s)
    BY <1>1, <1>2, <2>1 DEF SecretRow
  <2>3. Grows(p, r, s, {t})
    BY <2>1 DEF Grows
  <2> QED BY <2>2, <2>3
<1> QED BY <1>3, <1>4, <1>5

\* open_and_merge keeps what is said of secrets and of the origin of transactions.
LEMMA MergeSecret ==
    ASSUME NEW p \in Parties, NEW r, RowOK(p, r), SecretRow(p, r),
           r.phase \notin NoRow \cup {"Failed"}, NEW pkt \in Packets, pkt.tx \in Txs
    PROVE  /\ SecretRow(p, open_and_merge(p, r, pkt))
           /\ Grows(p, r, open_and_merge(p, r, pkt), {pkt.tx} \ r.log)
<1> DEFINE t == pkt.tx
           new == {t} \ r.log
           gated == handshake_ingest_gate(p, r, t)
           merged == [gated EXCEPT !.log = @ \cup {t}]
           acked == ack_completed_last(merged, pkt.ids)
<1>1. r \in Rows /\ r.phase # "Deleted" /\ r.phase # "Failed"
  BY DEF RowOK, NoRow
<1>2. CASE t \in r.log
  BY <1>1, <1>2, AckCompletedSecret DEF open_and_merge
<1>3. CASE t \notin r.log /\ refusal(p, r, t) # None
  BY <1>1, <1>3, FailSecret DEF open_and_merge
<1>4. CASE t \notin r.log /\ refusal(p, r, t) = None
  <2>1. RowOK(p, gated)
    BY <1>1, <1>4, GateOK
  <2>2. SecretRow(p, merged) /\ Grows(p, r, merged, {t})
    BY <1>4, GateSecret
  <2> HIDE DEF gated
  <2>3. RowOK(p, merged)
    BY <2>1 DEF RowOK, Rows
  <2> HIDE DEF merged
  <2>4. RowOK(p, acked) /\ SecretRow(p, acked) /\ Grows(p, merged, acked, {t})
    BY <2>2, <2>3, AckCompletedOK, AckCompletedSecret DEF RowOK
  <2> HIDE DEF acked
  <2>5. SecretRow(p, mint_pending_intros(p, acked)) /\ Grows(p, acked, mint_pending_intros(p, acked), {t})
    BY <2>4, PendingIntrosSecret
  <2>6. Grows(p, r, mint_pending_intros(p, acked), {t})
    BY <2>2, <2>4, <2>5, GrowsTrans
  <2>7. new = {t}
    BY <1>4
  <2> QED BY <1>4, <2>5, <2>6, <2>7 DEF open_and_merge, acked, merged, gated
<1> QED BY <1>2, <1>3, <1>4

-----------------------------------------------------------------------------
(* Steps. *)

\* What is known stays known while the inviter's log grows.
LEMMA KnownStays ==
    ASSUME NEW t, NEW r, NEW s, NEW c, Known(t, r, c), r.log \subseteq s.log,
           r.phase = "Deleted" => s.phase = "Deleted"
    PROVE  Known(t, s, c)
BY DEF Known

\* A step of one row that adds nothing unknown.
LEMMA GrowsStep ==
    ASSUME IInv, SInv, NEW p \in Parties, NEW s, row' = [row EXCEPT ![p] = s],
           child' = child, store' = store, NEW new,
           SecretRow(p, s), Grows(p, row[p], s, new),
           \A t \in new : Known(t, row[Inviter], child[Inviter]),
           \A t \in new : t.kind = "SyncDek" => t = SyncDek(p)
    PROVE  SInv'
<1> DEFINE c == child[Inviter]
<1>1. /\ Inviter \in Parties /\ row \in [Parties -> Rows] /\ Inviter \notin Invitees
      /\ \A e \in Invitees : e \in Parties
  BY HandshakeAssumption DEF IInv, Parties
<1>2. row'[p] = s /\ \A q \in Parties : q # p => row'[q] = row[q]
  BY <1>1
<1>3. \A t : Known(t, row[Inviter], c) => Known(t, row'[Inviter], c)
  <2>1. row[Inviter].log \subseteq row'[Inviter].log
    BY <1>1, <1>2 DEF Grows
  <2>2. row[Inviter].phase = "Deleted" => row'[Inviter].phase = "Deleted"
    BY <1>1, <1>2 DEF Grows
  <2> QED BY <2>1, <2>2, KnownStays
<1>4. \A t \in s.log : Known(t, row'[Inviter], c)
  <2> SUFFICES ASSUME NEW t \in s.log PROVE Known(t, row'[Inviter], c)
    OBVIOUS
  <2>1. CASE t \in row[p].log \/ t \in new
    BY <1>3, <2>1 DEF SInv
  <2>2. CASE Harmless(p, t)
    BY <1>2, <2>2 DEF Harmless, Known
  <2> QED BY <2>1, <2>2 DEF Grows
<1>5. Known(Probe, row'[Inviter], c)
  BY TxKinds DEF Known
<1>6. \A pkt \in s.writes : Known(pkt.tx, row'[Inviter], c)
  BY <1>3, <1>4, <1>5 DEF Grows, SInv
<1>7. p \in Invitees /\ s.dek => Known(SyncDek(p), row'[Inviter], c)
  BY <1>3 DEF Grows, SInv
<1>8. \A q \in Parties : SecretRow(q, row'[q]) /\ ChildRow(q, child'[q])
  BY <1>2 DEF SInv
<1>9. \A q \in Parties : \A t \in row'[q].log : Known(t, row'[Inviter], child'[Inviter])
  BY <1>2, <1>3, <1>4 DEF SInv
<1>10. \A q \in Parties : \A pkt \in row'[q].writes : Known(pkt.tx, row'[Inviter], child'[Inviter])
  BY <1>2, <1>3, <1>6 DEF SInv
<1>11. \A pkt \in store' : Known(pkt.tx, row'[Inviter], child'[Inviter])
  BY <1>3 DEF SInv
<1>12. \A e \in Invitees : row'[e].dek => Known(SyncDek(e), row'[Inviter], child'[Inviter])
  BY <1>1, <1>2, <1>3, <1>7 DEF SInv
<1> QED
  BY <1>8, <1>9, <1>10, <1>11, <1>12 DEF SInv

\* The same, for a step that takes nothing from a channel.
LEMMA OwnStep ==
    ASSUME IInv, SInv, NEW p \in Parties, NEW s, row' = [row EXCEPT ![p] = s],
           child' = child, store' = store, SecretRow(p, s), Grows(p, row[p], s, {})
    PROVE  SInv'
<1>1. PICK new : new = {}
  OBVIOUS
<1>2. /\ \A t \in new : Known(t, row[Inviter], child[Inviter])
      /\ \A t \in new : t.kind = "SyncDek" => t = SyncDek(p)
  BY <1>1
<1> QED BY <1>1, <1>2, GrowsStep

\* create_invite keeps what is said of secrets and of the origin of transactions.
LEMMA CreateInviteSecret ==
    ASSUME IInv, SInv, create_invite
    PROVE  SInv'
<1> DEFINE r == row[Inviter]
           u == [r EXCEPT !.phase = "InviteCreated"]
           s == mint(Notice, u)
<1>1. Inviter \in Parties /\ RowOK(Inviter, r) /\ SecretRow(Inviter, r) /\ r.phase = "None"
  BY DEF IInv, RowInv, SInv, Parties, create_invite
<1>2. row' = [row EXCEPT ![Inviter] = s] /\ child' = child /\ store' = store
  BY DEF create_invite
<1> HIDE DEF r
<1>3. /\ u \in Rows /\ u.log = r.log /\ u.phase = "InviteCreated" /\ u.dek = r.dek
      /\ u.shared_inviter = r.shared_inviter /\ u.shared_invitee = r.shared_invitee
      /\ u.writes = r.writes
  BY <1>1 DEF RowOK, Rows, InviterPhases
<1> HIDE DEF u
<1>4. /\ s.log = r.log \cup {Notice} /\ s.phase = "InviteCreated" /\ s.dek = r.dek
      /\ s.shared_inviter = r.shared_inviter /\ s.shared_invitee = r.shared_invitee
      /\ \A pkt \in s.writes : pkt \in r.writes \/ pkt.tx = Notice
  BY <1>3, MintFields
<1> HIDE DEF s
<1>5. SecretRow(Inviter, s)
  BY <1>1, <1>4, TxKinds DEF SecretRow
<1>6. Grows(Inviter, r, s, {})
  BY <1>1, <1>4, TxKinds DEF Grows, Harmless
<1> QED
  BY <1>1, <1>2, <1>5, <1>6, OwnStep DEF r

\* receive_ticket keeps what is said of secrets and of the origin of transactions.
LEMMA ReceiveTicketSecret ==
    ASSUME IInv, SInv, NEW e \in Invitees, receive_ticket(e)
    PROVE  SInv'
<1> DEFINE r == row[e]
           s == [r EXCEPT !.phase = "TicketReceived"]
<1>1. e \in Parties /\ e # Inviter /\ RowOK(e, r) /\ SecretRow(e, r)
  BY HandshakeAssumption DEF IInv, RowInv, SInv, Parties
<1>2. row' = [row EXCEPT ![e] = s] /\ child' = child /\ store' = store
  BY <1>1 DEF receive_ticket, IInv
<1> HIDE DEF r
<1>3. /\ s.log = r.log /\ s.phase = "TicketReceived" /\ s.dek = r.dek
      /\ s.shared_inviter = r.shared_inviter /\ s.shared_invitee = r.shared_invitee
      /\ s.writes = r.writes
  BY <1>1 DEF RowOK, Rows
<1> HIDE DEF s
<1>4. SecretRow(e, s) /\ Grows(e, r, s, {})
  BY <1>1, <1>3 DEF SecretRow, Grows
<1> QED
  BY <1>1, <1>2, <1>4, OwnStep DEF r

\* A post by the host keeps what is said of secrets and of the origin of transactions.
LEMMA PostSecret ==
    ASSUME IInv, SInv, NEW p \in Parties, NEW pkt, Post(p, pkt)
    PROVE  SInv'
BY DEF SInv, Post

\* write_ack keeps what is said of secrets and of the origin of transactions.
LEMMA WriteAckSecret ==
    ASSUME IInv, SInv, NEW p \in Parties, NEW pkt, write_ack(p, pkt)
    PROVE  SInv'
<1> DEFINE r == row[p]
           acked == [r EXCEPT !.writes = @ \ {pkt}]
           s == IF acked.writes = {} THEN ack_posted(p, acked) ELSE acked
<1>1. RowOK(p, r) /\ SecretRow(p, r)
  BY DEF IInv, RowInv, SInv
<1>2. row' = [row EXCEPT ![p] = s] /\ child' = child /\ store' = store
  BY DEF write_ack
<1> HIDE DEF r
<1>3. /\ acked \in Rows /\ acked.log = r.log /\ acked.phase = r.phase /\ acked.dek = r.dek
      /\ acked.shared_inviter = r.shared_inviter /\ acked.shared_invitee = r.shared_invitee
      /\ acked.writes \subseteq r.writes
  BY <1>1 DEF RowOK, Rows
<1> HIDE DEF acked
<1>4. SecretRow(p, acked) /\ Grows(p, r, acked, {})
  BY <1>1, <1>3, SameSecrets DEF Grows
<1>5. SecretRow(p, ack_posted(p, acked)) /\ Grows(p, r, ack_posted(p, acked), {})
  <2> DEFINE u == ack_posted(p, acked)
  <2>1. /\ u.log = r.log /\ u.dek = r.dek /\ u.writes \subseteq r.writes
        /\ u.shared_inviter = r.shared_inviter /\ u.shared_invitee = r.shared_invitee
        /\ \/ u.phase = r.phase
           \/ p = Inviter /\ r.phase = "InviteCreated" /\ u.phase = "NoticePinned"
           \/ p = Inviter /\ r.phase = "IntroductionMinted" /\ u.phase = "Confirming"
           \/ p # Inviter /\ r.phase = "IntroductionMinted" /\ u.phase = "IntroductionSent"
    BY <1>3 DEF ack_posted, Rows
  <2> HIDE DEF u
  <2>2. SecretRow(p, u) /\ Grows(p, r, u, {})
    BY <1>1, <2>1 DEF SecretRow, Grows
  <2> QED BY <2>2 DEF u
<1>6. SecretRow(p, s) /\ Grows(p, r, s, {})
  BY <1>4, <1>5
<1> HIDE DEF s
<1> QED
  BY <1>2, <1>6, OwnStep DEF r

\* ingest_packet keeps what is said of secrets and of the origin of transactions.
LEMMA IngestSecret ==
    ASSUME IInv, SInv, NEW p \in Parties, NEW pkt \in store, ingest_packet(p, pkt)
    PROVE  SInv'
<1> DEFINE r == row[p]
           s == open_and_merge(p, r, pkt)
           new == {pkt.tx} \ r.log
<1>1. RowOK(p, r) /\ SecretRow(p, r) /\ r.phase \notin NoRow \cup {"Failed"}
  BY DEF IInv, RowInv, SInv, ingest_packet
<1>2. pkt \in Packets /\ pkt.tx \in Txs
  BY DEF IInv, ingest_packet, Packets
<1>3. row' = [row EXCEPT ![p] = s] /\ child' = child /\ store' = store
  BY DEF ingest_packet
<1>4. \A t \in new : Known(t, row[Inviter], child[Inviter])
  BY DEF SInv
<1>5. \A t \in new : t.kind = "SyncDek" => t = SyncDek(p)
  BY <1>2, TxShape DEF ingest_packet
<1> HIDE DEF r
<1>6. SecretRow(p, s) /\ Grows(p, r, s, new)
  BY <1>1, <1>2, MergeSecret
<1> HIDE DEF s, new
<1> QED
  BY <1>3, <1>4, <1>5, <1>6, GrowsStep DEF r

\* on_heal_packet keeps what is said of secrets and of the origin of transactions.
LEMMA HealSecret ==
    ASSUME IInv, SInv, NEW p \in Parties, NEW pkt \in store, on_heal_packet(p, pkt)
    PROVE  SInv'
<1> DEFINE r == row[p]
           again == UNION {packets(t, r) : t \in r.log \ pkt.ids}
           u == [r EXCEPT !.healing = FALSE, !.writes = @ \cup again]
<1>1. RowOK(p, r) /\ SecretRow(p, r)
  BY DEF IInv, RowInv, SInv
<1>2. /\ row' = [row EXCEPT ![p] = post_heal(r)] \/ row' = [row EXCEPT ![p] = u]
      /\ child' = child /\ store' = store
  BY DEF on_heal_packet
<1> HIDE DEF r
<1>3. \A t, x : x \in packets(t, r) => x.tx = t
  BY DEF packets
<1>4. \A x \in again : x.tx \in r.log
  BY <1>3
<1> HIDE DEF again
<1>5. SecretRow(p, post_heal(r)) /\ Grows(p, r, post_heal(r), {})
  <2> DEFINE s == post_heal(r)
  <2>1. /\ s.log = r.log /\ s.phase = r.phase /\ s.dek = r.dek
        /\ s.shared_inviter = r.shared_inviter /\ s.shared_invitee = r.shared_invitee
        /\ s.writes = r.writes \cup packets(Probe, r)
    BY <1>1 DEF post_heal, RowOK, Rows
  <2> HIDE DEF s
  <2>2. SecretRow(p, s) /\ Grows(p, r, s, {})
    BY <1>1, <1>3, <2>1, SameSecrets DEF Grows
  <2> QED BY <2>2 DEF s
<1>6. SecretRow(p, u) /\ Grows(p, r, u, {})
  <2>1. /\ u.log = r.log /\ u.phase = r.phase /\ u.dek = r.dek
        /\ u.shared_inviter = r.shared_inviter /\ u.shared_invitee = r.shared_invitee
        /\ u.writes = r.writes \cup again
    BY <1>1 DEF RowOK, Rows
  <2> HIDE DEF u
  <2> QED BY <1>1, <1>4, <2>1, SameSecrets DEF Grows
<1> HIDE DEF u
<1>7. CASE row' = [row EXCEPT ![p] = post_heal(r)]
  BY <1>2, <1>5, <1>7, OwnStep DEF r
<1>8. CASE row' = [row EXCEPT ![p] = u]
  BY <1>2, <1>6, <1>8, OwnStep DEF r
<1> QED BY <1>2, <1>7, <1>8

\* set_display_name keeps what is said of secrets and of the origin of transactions.
LEMMA SetNameSecret ==
    ASSUME IInv, SInv, NEW p \in Parties, set_display_name(p)
    PROVE  SInv'
<1> DEFINE r == row[p]
           u == [r EXCEPT !.named = TRUE]
           s == mint_pending_intros(p, u)
<1>1. RowOK(p, r) /\ SecretRow(p, r)
  BY DEF IInv, RowInv, SInv
<1>2. row' = [row EXCEPT ![p] = s] /\ child' = child /\ store' = store
  BY DEF set_display_name
<1> HIDE DEF r
<1>3. /\ RowOK(p, u) /\ u.log = r.log /\ u.phase = r.phase /\ u.dek = r.dek
      /\ u.shared_inviter = r.shared_inviter /\ u.shared_invitee = r.shared_invitee
      /\ u.writes = r.writes
  BY <1>1 DEF RowOK, Rows
<1> HIDE DEF u
<1>4. SecretRow(p, u) /\ Grows(p, r, u, {})
  BY <1>1, <1>3, SameSecrets DEF Grows
<1>5. SecretRow(p, s) /\ Grows(p, u, s, {})
  BY <1>3, <1>4, PendingIntrosSecret
<1> HIDE DEF s
<1>6. Grows(p, r, s, {})
  BY <1>4, <1>5, GrowsTrans
<1> QED
  BY <1>2, <1>5, <1>6, OwnStep DEF r

\* tick keeps what is said of secrets and of the origin of transactions.
LEMMA TickSecret ==
    ASSUME IInv, SInv, NEW p \in Parties, tick(p)
    PROVE  SInv'
<1> DEFINE r == row[p]
           s == fail(r, "InviteExpired")
<1>1. RowOK(p, r) /\ SecretRow(p, r) /\ r.phase # "Deleted"
  BY DEF IInv, RowInv, SInv, tick, NoRow
<1>2. row' = [row EXCEPT ![p] = s] /\ child' = child /\ store' = store
  BY DEF tick
<1> HIDE DEF r
<1>3. SecretRow(p, s) /\ Grows(p, r, s, {})
  BY <1>1, FailSecret DEF RowOK
<1> HIDE DEF s
<1> QED
  BY <1>2, <1>3, OwnStep DEF r

\* reject_established keeps what is said of secrets and of the origin of transactions.
LEMMA RejectSecret ==
    ASSUME IInv, SInv, NEW p \in Parties, reject_established(p)
    PROVE  SInv'
<1> DEFINE r == row[p]
           u == [r EXCEPT !.log = @ \cup {Reject}]
           s == fail(u, "ConfirmationRejected")
<1>1. RowOK(p, r) /\ SecretRow(p, r) /\ r.phase = "Confirming"
  BY DEF IInv, RowInv, SInv, reject_established, require_confirming
<1>2. row' = [row EXCEPT ![p] = s] /\ child' = child /\ store' = store
  BY DEF reject_established
<1> HIDE DEF r
<1>3. /\ u \in Rows /\ u.log = r.log \cup {Reject} /\ u.phase = r.phase /\ u.dek = r.dek
      /\ u.shared_inviter = r.shared_inviter /\ u.shared_invitee = r.shared_invitee
      /\ u.writes = r.writes
  BY <1>1, NoticeTxs DEF RowOK, Rows
<1> HIDE DEF u
<1>4. SecretRow(p, u) /\ Grows(p, r, u, {})
  BY <1>1, <1>3, TxKinds DEF SecretRow, Grows, Harmless
<1>5. SecretRow(p, s) /\ Grows(p, u, s, {})
  BY <1>1, <1>3, <1>4, FailSecret
<1> HIDE DEF s
<1>6. Grows(p, r, s, {})
  BY <1>4, <1>5, GrowsTrans
<1> QED
  BY <1>2, <1>5, <1>6, OwnStep DEF r

\* A deleted row keeps its writes and its DEK, and what was known stays known.
LEMMA DeleteSecret ==
    ASSUME IInv, SInv, NEW p \in Parties, delete_conversation(p)
    PROVE  SInv'
<1> DEFINE r == row[p]
           s == [NewRow EXCEPT !.phase = "Deleted", !.writes = r.writes,
                               !.named = r.named, !.accepts = r.accepts, !.dek = r.dek]
           c == child[Inviter]
<1>1. row' = [row EXCEPT ![p] = s] /\ child' = child /\ store' = store
  BY DEF delete_conversation
<1> HIDE DEF r
<1>2. /\ s.phase = "Deleted" /\ s.log = {} /\ s.writes = r.writes /\ s.dek = r.dek
      /\ s.shared_inviter = None /\ s.shared_invitee = None
  BY DEF NewRow
<1> HIDE DEF s
<1>3. /\ Inviter \in Parties /\ row \in [Parties -> Rows]
      /\ \A e \in Invitees : e \in Parties
  BY DEF IInv, Parties
<1>4. row'[p] = s /\ \A q \in Parties : q # p => row'[q] = row[q]
  BY <1>1, <1>3
<1>5. \A t : Known(t, row[Inviter], c) => Known(t, row'[Inviter], c)
  BY <1>2, <1>3, <1>4 DEF Known
<1>6. SecretRow(p, s)
  BY <1>2 DEF SecretRow
<1>7. \A q \in Parties : SecretRow(q, row'[q]) /\ ChildRow(q, child'[q])
  BY <1>1, <1>4, <1>6 DEF SInv
<1>8. \A q \in Parties : \A t \in row'[q].log : Known(t, row'[Inviter], child'[Inviter])
  BY <1>1, <1>2, <1>4, <1>5 DEF SInv
<1>9. \A q \in Parties : \A pkt \in row'[q].writes : Known(pkt.tx, row'[Inviter], child'[Inviter])
  BY <1>1, <1>2, <1>4, <1>5 DEF SInv, r
<1>10. \A pkt \in store' : Known(pkt.tx, row'[Inviter], child'[Inviter])
  BY <1>1, <1>5 DEF SInv
<1>11. \A e \in Invitees : row'[e].dek => Known(SyncDek(e), row'[Inviter], child'[Inviter])
  BY <1>1, <1>2, <1>3, <1>4, <1>5 DEF SInv, r
<1> QED
  BY <1>7, <1>8, <1>9, <1>10, <1>11 DEF SInv

\* What a row with a digest holds.
LEMMA DigestOf ==
    ASSUME NEW r, fingerprint(r) # None
    PROVE  /\ has_kind(r, "InviteeIntro") /\ has_kind(r, "InviterIntro")
           /\ r.shared_inviter # None /\ r.shared_invitee # None
           /\ fingerprint(r) = [intros |-> {t \in r.log : t.kind \in {"InviteeIntro", "InviterIntro"}},
                                spawn |-> {r.shared_inviter, r.shared_invitee}]
BY DEF fingerprint

\* confirm_established: the child has the secrets of the row's intros, and the
\* DEK goes to the holder whose intro that is.
LEMMA ConfirmSecret ==
    ASSUME IInv, SInv, NEW p \in Parties, confirm_established(p)
    PROVE  SInv'
<1> DEFINE r == row[p]
           u == [r EXCEPT !.log = @ \cup {Confirm}]
           d == (CHOOSE t \in u.log : t.kind = "InviteeIntro").of
           s == IF IsSync /\ p = Inviter THEN mint(SyncDek(d), u) ELSE u
           ch == fingerprint(r).spawn
<1>1. /\ RowOK(p, r) /\ SecretRow(p, r) /\ r.phase = "Confirming"
      /\ Confirm \notin r.log /\ fingerprint(r) # None
  BY DEF IInv, RowInv, SInv, confirm_established, require_confirming
<1>2. /\ row' = [row EXCEPT ![p] = s] /\ child' = [child EXCEPT ![p] = ch] /\ store' = store
  BY DEF confirm_established
<1>3. /\ Inviter \in Parties /\ row \in [Parties -> Rows] /\ Inviter \notin Invitees
      /\ child \in [Parties -> (SUBSET Secrets) \cup {None}]
      /\ \A e \in Invitees : e \in Parties
  BY HandshakeAssumption DEF IInv, Parties
<1>4. ASSUME p = Inviter
      PROVE  \A t : Known(t, r, child[Inviter]) => t.kind # "SyncDek"
  BY <1>1, <1>4 DEF Known
<1>5. \A e \in Invitees : p = Inviter => ~row[e].dek
  BY <1>4, TxKinds DEF SInv
<1> HIDE DEF r
<1>6. /\ r.shared_inviter # None /\ r.shared_invitee # None /\ has_kind(r, "InviteeIntro")
      /\ ch = {r.shared_inviter, r.shared_invitee}
  BY <1>1, DigestOf
<1> HIDE DEF ch
<1>7. /\ u \in Rows /\ u.log = r.log \cup {Confirm} /\ u.phase = r.phase /\ u.dek = r.dek
      /\ u.shared_inviter = r.shared_inviter /\ u.shared_invitee = r.shared_invitee
      /\ u.writes = r.writes
  BY <1>1, NoticeTxs DEF RowOK, Rows
<1> HIDE DEF u
<1>8. d \in Invitees /\ InviteeIntro(d) \in r.log
  <2> DEFINE x == CHOOSE t \in u.log : t.kind = "InviteeIntro"
  <2>1. has_kind(u, "InviteeIntro")
    BY <1>6, <1>7 DEF has_kind
  <2>2. x \in u.log /\ x.kind = "InviteeIntro" /\ x.of \in Invitees
    BY <1>7, <2>1, IntroOf
  <2>3. x \in Txs /\ x # Confirm
    BY <1>7, <2>2, TxKinds DEF Rows
  <2> HIDE DEF x
  <2>4. x = InviteeIntro(x.of) /\ x \in r.log
    BY <1>7, <2>2, <2>3, TxShape
  <2> QED BY <2>2, <2>4 DEF x
<1> HIDE DEF d
<1>9. SecretRow(p, u)
  BY <1>1, <1>7, TxKinds DEF SecretRow
<1>10. /\ s.log \subseteq u.log \cup {SyncDek(d)} /\ u.log \subseteq s.log /\ s.dek = r.dek
       /\ p # Inviter => s = u
       /\ \A pkt \in s.writes : pkt \in r.writes \/ (pkt.tx = SyncDek(d) /\ p = Inviter)
       /\ SecretRow(p, s)
  <2> DEFINE v == mint(SyncDek(d), u)
  <2>1. /\ v.log = u.log \cup {SyncDek(d)} /\ v.phase = u.phase /\ v.dek = u.dek
        /\ v.shared_inviter = u.shared_inviter /\ v.shared_invitee = u.shared_invitee
        /\ \A pkt \in v.writes : pkt \in u.writes \/ pkt.tx = SyncDek(d)
    BY <1>7, MintFields
  <2> HIDE DEF v
  <2>2. SecretRow(p, v)
    BY <1>1, <1>7, <1>9, <2>1, TxKinds DEF SecretRow
  <2>3. s = u \/ (s = v /\ p = Inviter)
    BY DEF v
  <2> HIDE DEF s
  <2>4. CASE s = u
    <3>1. /\ s.log \subseteq u.log \cup {SyncDek(d)} /\ u.log \subseteq s.log
          /\ s.dek = r.dek /\ s.writes = r.writes
      BY <1>7, <2>4
    <3>2. SecretRow(p, s)
      BY <1>9, <2>4
    <3> QED BY <2>4, <3>1, <3>2
  <2>5. CASE s = v /\ p = Inviter
    BY <1>7, <2>1, <2>2, <2>5
  <2> QED BY <2>3, <2>4, <2>5
<1> HIDE DEF s
<1>11. row'[p] = s /\ child'[p] = ch
       /\ \A q \in Parties : q # p => row'[q] = row[q] /\ child'[q] = child[q]
  BY <1>2, <1>3
<1>12. CASE p # Inviter
  <2>1. ChildRow(p, ch)
    <3>1. r.shared_inviter = ToInviter(p)
      BY <1>1, <1>6, <1>12 DEF SecretRow
    <3>2. r.shared_invitee \in {ToInvitee(p), Unrelated(p)}
      BY <1>1, <1>6, <1>12 DEF SecretRow
    <3> QED BY <1>6, <1>12, <3>1, <3>2 DEF ChildRow
  <2>2. row'[Inviter] = row[Inviter] /\ child'[Inviter] = child[Inviter]
    BY <1>3, <1>11, <1>12
  <2>3. Known(Confirm, row[Inviter], child[Inviter])
    BY TxKinds DEF Known
  <2>4. \A q \in Parties : SecretRow(q, row'[q]) /\ ChildRow(q, child'[q])
    BY <1>10, <1>11, <2>1 DEF SInv
  <2>5. \A t \in s.log : Known(t, row[Inviter], child[Inviter])
    BY <1>7, <1>10, <1>12, <2>3 DEF SInv, r
  <2>6. \A pkt \in s.writes : Known(pkt.tx, row[Inviter], child[Inviter])
    BY <1>10, <1>12 DEF SInv, r
  <2>7. s.dek => row[p].dek
    BY <1>10 DEF r
  <2> QED
    BY <1>2, <1>3, <1>11, <2>2, <2>4, <2>5, <2>6, <2>7 DEF SInv
<1>13. CASE p = Inviter
  <2>1. ch = {ToInviter(d), ToInvitee(d)}
    <3>1. PICK e \in Invitees : /\ InviteeIntro(e) \in r.log
                                /\ r.shared_inviter = ToInviter(e) /\ r.shared_invitee = ToInvitee(e)
      BY <1>1, <1>6, <1>13 DEF SecretRow
    <3>2. InviteeIntro(e) = InviteeIntro(d)
      BY <1>1, <1>8, <3>1, TxKinds DEF SecretRow
    <3>3. e = d
      BY <3>2, TxKinds
    <3> QED BY <1>6, <3>1, <3>3
  <2>2. ChildRow(p, ch)
    BY <1>8, <1>13, <2>1 DEF ChildRow
  <2>3. \A t : Known(t, row[Inviter], child[Inviter]) => Known(t, s, ch)
    <3>1. row[Inviter].log \subseteq s.log /\ row[Inviter].phase # "Deleted"
      BY <1>1, <1>7, <1>10, <1>13 DEF r
    <3>2. \A t : Known(t, row[Inviter], child[Inviter]) => t.kind # "SyncDek"
      BY <1>4, <1>13 DEF r
    <3> QED BY <3>1, <3>2 DEF Known
  <2>4. Known(Confirm, s, ch) /\ Known(SyncDek(d), s, ch)
    BY <1>7, <1>10, <2>1, TxKinds DEF Known
  <2>5. row'[Inviter] = s /\ child'[Inviter] = ch
    BY <1>11, <1>13
  <2>6. \A q \in Parties : SecretRow(q, row'[q]) /\ ChildRow(q, child'[q])
    BY <1>10, <1>11, <2>2 DEF SInv
  <2>7. \A t \in s.log : Known(t, s, ch)
    BY <1>7, <1>10, <2>3, <2>4 DEF SInv, r
  <2>8. \A pkt \in s.writes : Known(pkt.tx, s, ch)
    BY <1>10, <2>3, <2>4 DEF SInv, r
  <2> QED
    BY <1>2, <1>3, <1>5, <1>11, <1>13, <2>3, <2>5, <2>6, <2>7, <2>8 DEF SInv
<1> QED BY <1>12, <1>13

\* No row, packet or child at first.
LEMMA InitSecret == ASSUME Init PROVE SInv
<1>1. PICK named \in [Parties -> BOOLEAN], accepts \in [Parties -> BOOLEAN] :
        row = [p \in Parties |-> [NewRow EXCEPT !.named = named[p], !.accepts = accepts[p]]]
  BY DEF Init
<1>2. \A p \in Parties : /\ row[p].log = {} /\ row[p].writes = {} /\ row[p].phase = "None"
                         /\ row[p].shared_inviter = None /\ row[p].shared_invitee = None
                         /\ row[p].dek = FALSE
  BY <1>1 DEF NewRow
<1>3. \A p \in Parties : SecretRow(p, row[p])
  BY <1>2 DEF SecretRow
<1>4. store = {} /\ \A p \in Parties : ChildRow(p, child[p])
  BY DEF Init, ChildRow
<1> QED
  BY <1>2, <1>3, <1>4 DEF SInv, Parties

-----------------------------------------------------------------------------
(* Theorems. *)

\* Every action, and stuttering, keeps what is said of secrets.
LEMMA NextSecret == IInv /\ SInv /\ [Next]_vars => SInv'
<1> SUFFICES ASSUME IInv, SInv, [Next]_vars PROVE SInv'
  OBVIOUS
<1>1. CASE create_invite
  BY <1>1, CreateInviteSecret
<1>2. CASE \E e \in Invitees : receive_ticket(e)
  BY <1>2, ReceiveTicketSecret
<1>3. ASSUME NEW p \in Parties, NEW pkt \in row[p].writes, Post(p, pkt) \/ write_ack(p, pkt)
      PROVE  SInv'
  BY <1>3, PostSecret, WriteAckSecret
<1>4. ASSUME NEW p \in Parties, NEW pkt \in store, ingest_packet(p, pkt) \/ on_heal_packet(p, pkt)
      PROVE  SInv'
  BY <1>4, IngestSecret, HealSecret
<1>5. ASSUME NEW p \in Parties, poll(p)
      PROVE  SInv'
  BY <1>5 DEF SInv, poll
<1>6. ASSUME NEW p \in Parties, set_display_name(p) \/ tick(p)
      PROVE  SInv'
  BY <1>6, SetNameSecret, TickSecret
<1>7. ASSUME NEW p \in Parties,
             confirm_established(p) \/ reject_established(p) \/ delete_conversation(p)
      PROVE  SInv'
  BY <1>7, ConfirmSecret, RejectSecret, DeleteSecret
<1>8. CASE UNCHANGED vars
  BY <1>8 DEF SInv, vars
<1> QED
  BY <1>1, <1>2, <1>3, <1>4, <1>5, <1>6, <1>7, <1>8 DEF Next

\* What is said of secrets holds in every reachable state.
LEMMA SecretsInvariant == Spec => [](IInv /\ SInv)
<1>1. Init => SInv
  BY InitSecret
<1>2. IInv /\ SInv /\ [Next]_vars => SInv'
  BY NextSecret
<1> QED
  BY <1>1, <1>2, RowsInvariant, PTL DEF Spec

\* A row that reaches Confirming has both intros and both secrets, so
\* confirm_established finds a digest (try_mint_inviter_intro,
\* handshake_ingest_gate, ack_posted).
THEOREM ConfirmingHasDigestAlways == Spec => []ConfirmingHasDigest
<1>1. ASSUME IInv, SInv PROVE ConfirmingHasDigest
  <2> SUFFICES ASSUME NEW p \in Parties, row[p].phase = "Confirming"
               PROVE  fingerprint(row[p]) # None
    BY DEF ConfirmingHasDigest
  <2> DEFINE r == row[p]
  <2>1. r \in Rows /\ SecretRow(p, r) /\ r.phase = "Confirming"
    BY <1>1 DEF IInv, SInv
  <2> HIDE DEF r
  <2>2. \A e \in Invitees : /\ ToInviter(e) \in Secrets /\ ToInvitee(e) \in Secrets
                            /\ Unrelated(e) \in Secrets
    BY DEF Secrets, ToInviter, ToInvitee, Unrelated
  <2>3. /\ r.shared_inviter \in Secrets /\ r.shared_invitee \in Secrets
        /\ has_kind(r, "InviteeIntro") /\ has_kind(r, "InviterIntro")
    <3>1. CASE p = Inviter
      BY <2>1, <2>2, <3>1, TxKinds DEF SecretRow, has_kind
    <3>2. CASE p # Inviter
      BY <2>1, <2>2, <3>2, TxKinds DEF SecretRow, has_kind, Parties
    <3> QED BY <3>1, <3>2
  <2>4. fingerprint(r) = [intros |-> {t \in r.log : t.kind \in {"InviteeIntro", "InviterIntro"}},
                          spawn |-> {r.shared_inviter, r.shared_invitee}]
    BY <2>3, NoneAssumption DEF fingerprint
  <2>5. fingerprint(r) \in Digests
    BY <2>1, <2>3, <2>4 DEF Digests, Rows
  <2> QED BY <2>5, NoneAssumption DEF r
<1> QED
  BY <1>1, SecretsInvariant, PTL

\* A device holds the inviter's DEK only if the inviter's user confirmed the
\* digest of exactly that device (confirm_established, handshake_ingest_gate).
THEOREM DekAfterConfirmAlways == Spec => []DekAfterConfirm
<1>1. SInv => DekAfterConfirm
  BY TxKinds DEF SInv, Known, DekAfterConfirm
<1> QED
  BY <1>1, SecretsInvariant, PTL

\* Secrets of different holders differ.
LEMMA SecretsDiffer ==
    /\ \A d, e : ToInviter(d) = ToInviter(e) => d = e
    /\ \A d, e : ToInvitee(d) = ToInvitee(e) => d = e
    /\ \A d, e : /\ ToInviter(d) # ToInvitee(e) /\ ToInviter(d) # Unrelated(e)
                 /\ ToInvitee(d) # Unrelated(e)
BY DEF ToInviter, ToInvitee, Unrelated

\* Only the inviter and the invitee it answered can hold the same child
\* (confirm_established).
THEOREM ChildExclusiveAlways == Spec => []ChildExclusive
<1>1. ASSUME SInv PROVE ChildExclusive
  <2> SUFFICES ASSUME NEW p \in Parties, NEW q \in Parties, p # q, child[p] # None,
                      child[p] = child[q]
               PROVE  \E e \in Invitees : {p, q} = {Inviter, e} /\ child[p] = {ToInviter(e), ToInvitee(e)}
    BY DEF ChildExclusive
  <2>1. ChildRow(p, child[p]) /\ ChildRow(q, child[p])
    BY <1>1 DEF SInv
  <2>2. ASSUME NEW e \in Parties, e # Inviter, ChildRow(Inviter, child[p]), ChildRow(e, child[p])
        PROVE  e \in Invitees /\ child[p] = {ToInviter(e), ToInvitee(e)}
    <3>1. PICK d \in Invitees : child[p] = {ToInviter(d), ToInvitee(d)}
      BY <2>2 DEF ChildRow
    <3>2. PICK x \in {ToInvitee(e), Unrelated(e)} : child[p] = {ToInviter(e), x}
      BY <2>2 DEF ChildRow
    <3>3. ToInviter(e) \in {ToInviter(d), ToInvitee(d)}
      BY <3>1, <3>2
    <3>4. d = e
      BY <3>3, SecretsDiffer
    <3> QED BY <2>2, <3>1, <3>4 DEF Parties
  <2>3. CASE p = Inviter \/ q = Inviter
    BY <2>1, <2>2, <2>3
  <2>4. CASE p # Inviter /\ q # Inviter
    <3>1. PICK x \in {ToInvitee(p), Unrelated(p)} : child[p] = {ToInviter(p), x}
      BY <2>1, <2>4 DEF ChildRow
    <3>2. PICK y \in {ToInvitee(q), Unrelated(q)} : child[p] = {ToInviter(q), y}
      BY <2>1, <2>4 DEF ChildRow
    <3>3. ToInviter(p) \in {ToInviter(q), y}
      BY <3>1, <3>2
    <3> QED BY <3>2, <3>3, SecretsDiffer
  <2> QED BY <2>3, <2>4
<1> QED
  BY <1>1, SecretsInvariant, PTL

\* Two users see equal digests exactly when the inviter answered that holder's
\* intro (try_fingerprint).
THEOREM DigestAgreementAlways == Spec => []DigestAgreement
<1>1. ASSUME IInv, SInv PROVE DigestAgreement
  <2> SUFFICES ASSUME NEW e \in Invitees,
                      fingerprint(row[Inviter]) # None, fingerprint(row[e]) # None
               PROVE  (fingerprint(row[Inviter]) = fingerprint(row[e]))
                        <=> InviterIntro(e) \in row[Inviter].log
    BY DEF DigestAgreement
  <2> DEFINE i == row[Inviter]
             r == row[e]
             Pair(log) == {t \in log : t.kind \in {"InviteeIntro", "InviterIntro"}}
  <2>1. /\ SecretRow(Inviter, i) /\ SecretRow(e, r) /\ e # Inviter /\ i \in Rows /\ r \in Rows
        /\ \A t \in r.log : Known(t, i, child[Inviter])
    BY <1>1, HandshakeAssumption DEF IInv, SInv, Parties
  <2>2. /\ i.shared_inviter # None /\ r.shared_inviter # None /\ r.shared_invitee # None
        /\ fingerprint(i) = [intros |-> Pair(i.log), spawn |-> {i.shared_inviter, i.shared_invitee}]
        /\ fingerprint(r) = [intros |-> Pair(r.log), spawn |-> {r.shared_inviter, r.shared_invitee}]
    BY DigestOf
  <2> HIDE DEF i, r
  <2>3. PICK d \in Invitees : /\ InviteeIntro(d) \in i.log /\ InviterIntro(d) \in i.log
                              /\ i.shared_inviter = ToInviter(d) /\ i.shared_invitee = ToInvitee(d)
    BY <2>1, <2>2 DEF SecretRow
  <2>4. InviteeIntro(e) \in r.log /\ r.shared_inviter = ToInviter(e)
    BY <2>1, <2>2 DEF SecretRow
  <2>5. PICK y \in Invitees : /\ InviterIntro(y) \in r.log
                              /\ r.shared_invitee = IF y = e THEN ToInvitee(e) ELSE Unrelated(e)
    BY <2>1, <2>2 DEF SecretRow
  <2>6. Pair(i.log) = {InviteeIntro(d), InviterIntro(d)}
    BY <2>1, <2>3, TxKinds DEF SecretRow
  <2>7. Pair(r.log) = {InviteeIntro(e), InviterIntro(y)}
    BY <2>1, <2>4, <2>5, TxKinds DEF SecretRow
  <2> HIDE DEF Pair
  <2>8. InviterIntro(e) \in i.log <=> d = e
    BY <2>1, <2>3, TxKinds DEF SecretRow
  <2>9. ASSUME fingerprint(i) = fingerprint(r) PROVE d = e
    <3>1. {ToInviter(d), ToInvitee(d)} = {r.shared_inviter, r.shared_invitee}
      BY <2>2, <2>3, <2>9
    <3>2. ToInviter(e) \in {ToInviter(d), ToInvitee(d)}
      BY <2>4, <3>1
    <3> QED BY <3>2, SecretsDiffer
  <2>10. ASSUME d = e PROVE fingerprint(i) = fingerprint(r)
    <3>1. i.phase # "Deleted"
      BY <2>1, <2>3 DEF SecretRow
    <3>2. InviterIntro(y) \in i.log
      BY <2>1, <2>5, <3>1, TxKinds DEF Known
    <3>3. y = e
      BY <2>1, <2>3, <2>10, <3>2, TxKinds DEF SecretRow
    <3> QED BY <2>2, <2>3, <2>4, <2>5, <2>6, <2>7, <2>10, <3>3
  <2> QED BY <2>8, <2>9, <2>10 DEF i, r
<1> QED
  BY <1>1, SecretsInvariant, PTL
=============================================================================
