------------------------------- MODULE Handshake -------------------------------
(***************************************************************************)
(* The invite handshake: one inviter, the devices that received its ticket,*)
(* and the durable channels of the ticket.                                 *)
(*                                                                         *)
(* Each party is one engine holding one handshake row.  The channels are a *)
(* store from which everything posted under the ticket's tags comes back   *)
(* to every party that listens, its own packets included, in any order and *)
(* any number of times.  Every ticket holder uses the same tags, the same  *)
(* keys and the same actor, so nobody can tell whose packet it opened.     *)
(*                                                                         *)
(* A row is a record and the engine's helpers are functions on rows, under *)
(* the names they have in the code; an action applies the whole chain of   *)
(* helpers that the public method calls.                                   *)
(***************************************************************************)
EXTENDS Naturals, FiniteSets

CONSTANTS
    Inviter,    \* the device that called create_invite
    Invitees,   \* the devices that may receive the ticket string
    Channels,   \* Ticket.persistents
    IsSync,     \* HandshakeSync instead of HandshakeDm
    MaxPosts,   \* bound on the packets that reach the store
    MaxProbes,  \* bound on the heal rounds of one party
    None        \* absent secret, reason or child

ASSUME HandshakeAssumption ==
    /\ Inviter \notin Invitees
    /\ None \notin Invitees \cup {Inviter}
    /\ Channels # {}
    /\ IsSync \in BOOLEAN
    /\ MaxPosts \in Nat
    /\ MaxProbes \in Nat

Parties == {Inviter} \cup Invitees

(* Transactions of the handshake log.  An intro is random, so it is told apart *)
(* by the invitee that minted it or that it is wrapped to; TxConfirm and       *)
(* TxReject are empty payloads, hence the same transaction whoever mints them. *)
Notice == [kind |-> "Notice", of |-> Inviter]
InviteeIntro(e) == [kind |-> "InviteeIntro", of |-> e]
InviterIntro(e) == [kind |-> "InviterIntro", of |-> e]
SyncDek(e) == [kind |-> "SyncDek", of |-> e]
Confirm == [kind |-> "Confirm", of |-> Inviter]
Reject == [kind |-> "Reject", of |-> Inviter]

Txs == {Notice, Confirm, Reject} \cup
       [kind : {"InviteeIntro", "InviterIntro", "SyncDek"}, of : Invitees]

(* A heal probe stands for one round of the set-XOR search. *)
Probe == [kind |-> "Probe", of |-> Inviter]

(* A packet carries a transaction, whole, and the set its sender then had:  *)
(* set_xor names that set.                                                  *)
Packets == [tx : Txs \cup {Probe}, ids : SUBSET Txs, chan : Channels]

InviterPhases == {"InviteCreated", "NoticePinned", "IntroductionMinted", "Confirming"}
InviteePhases == {"TicketReceived", "InviteReceived", "IntroductionMinted",
                  "IntroductionSent", "Confirming"}
NoRow == {"None", "Deleted"}
Reasons == {"PolicyNotAccepted", "InviteExpired", "IntroVerifyFailed",
            "DuplicateIntro", "ConfirmationRejected"}

(* Secrets: the one wrapped to the inviter's intake by e, the one wrapped to  *)
(* e's intake, and what decapsulation yields with a key it was not made for.  *)
ToInviter(e) == <<"ToInviter", e>>
ToInvitee(e) == <<"ToInvitee", e>>
Unrelated(e) == <<"Unrelated", e>>
Secrets == {"ToInviter", "ToInvitee", "Unrelated"} \X Invitees

\* What two users compare: the intros and the secrets of the spawned conversation.
Digests == [intros : SUBSET Txs, spawn : SUBSET Secrets]

ASSUME NoneAssumption == None \notin Reasons \cup Secrets /\ None \notin Digests

VARIABLES
    row,        \* the handshake row of each party's EngineState
    store,      \* packets on the durable channels
    listening,  \* the host holds a poll result that names the ticket's tags
    child       \* secret of the spawned conversation, or None

vars == <<row, store, listening, child>>

Rows == [phase : InviterPhases \cup InviteePhases \cup NoRow \cup {"Failed"},
         reason : Reasons \cup {None},
         log : SUBSET Txs,
         writes : SUBSET Packets,
         last_ack : SUBSET Txs,
         healing : BOOLEAN,
         probes : 0 .. MaxProbes,
         shared_inviter : Secrets \cup {None},
         shared_invitee : Secrets \cup {None},
         named : BOOLEAN,
         accepts : BOOLEAN,
         dek : BOOLEAN]

-----------------------------------------------------------------------------
(* party.rs *)

\* A failure is stored once and drops every secret of the row.
fail(r, why) ==
    IF r.phase = "Failed" THEN r
    ELSE [r EXCEPT !.phase = "Failed", !.reason = why,
                   !.shared_inviter = None, !.shared_invitee = None]

\* Mutant: an inviter is moved along the invitee's phases.
ack_posted_one_role(p, r) ==
    [r EXCEPT !.phase =
        CASE @ = "InviteCreated" -> "NoticePinned"
          [] @ = "IntroductionMinted" -> "IntroductionSent"
          [] OTHER -> @]

\* Mutant: ack_posted of an inviter stops at ack_notice.
ack_posted_notice_only(p, r) ==
    [r EXCEPT !.phase =
        CASE p = Inviter /\ @ = "InviteCreated" -> "NoticePinned"
          [] p # Inviter /\ @ = "IntroductionMinted" -> "IntroductionSent"
          [] OTHER -> @]

\* ack_notice then ack_intro for an inviter, ack_intro for an invitee.
ack_posted(p, r) ==
    [r EXCEPT !.phase =
        CASE p = Inviter /\ @ = "InviteCreated" -> "NoticePinned"
          [] p = Inviter /\ @ = "IntroductionMinted" -> "Confirming"
          [] p # Inviter /\ @ = "IntroductionMinted" -> "IntroductionSent"
          [] OTHER -> @]

(* helpers.rs, heal.rs, vault.rs *)

has_kind(r, k) == \E t \in r.log : t.kind = k

\* The packets of one transaction, or of a probe, on every ticket channel.
packets(t, r) == [tx : {t}, ids : {r.log}, chan : Channels]

\* write_chain_packets after merge_tx: the transaction joins the log, and its
\* packets name the log that holds it.
mint(t, r) ==
    LET merged == [r EXCEPT !.log = @ \cup {t}]
    IN  [merged EXCEPT !.writes = @ \cup packets(t, merged)]

\* The invitee's intro is acknowledged: the row's one actor last acked a set
\* that holds it.
intro_watermarked(r) == \E t \in r.log : t.kind = "InviteeIntro" /\ t \in r.last_ack

\* replace_probes and post_heal: a round of the search is under way.
post_heal(r) ==
    [r EXCEPT !.healing = TRUE, !.probes = @ + 1, !.writes = @ \cup packets(Probe, r)]

\* Mutant: the last ack is stored whatever set_xor the packet names.
ack_completed_last_any(r, ids) == [r EXCEPT !.last_ack = r.log, !.healing = FALSE]

\* store_durable_last_ack and note_set_xor: equal sets are an acknowledgement
\* and end a search, different sets start one.
ack_completed_last(r, ids) ==
    IF ids = r.log THEN [r EXCEPT !.last_ack = r.log, !.healing = FALSE]
    ELSE IF r.healing \/ r.probes = MaxProbes THEN r
    ELSE post_heal(r)

(* handshake.rs *)

\* poll lists and listens for a row unless its intro is watermarked.  A failed
\* row stays listed.
polls(r) == r.phase \notin NoRow /\ ~(r.phase # "Failed" /\ intro_watermarked(r))

\* local_calling: the intro needs a name; an identity of another policy fails
\* the row.  A device of a sync handshake has keys of every policy.
try_mint_invitee_intro(p, r) ==
    IF \/ p = Inviter \/ r.phase # "InviteReceived"
       \/ has_kind(r, "InviteeIntro") \/ ~has_kind(r, "Notice") \/ ~r.named
    THEN r
    ELSE IF ~IsSync /\ ~r.accepts THEN fail(r, "PolicyNotAccepted")
    ELSE mint(InviteeIntro(p), [r EXCEPT !.phase = "IntroductionMinted",
                                         !.shared_inviter = ToInviter(p)])

\* Mutant: the DEK goes out with the intro.
try_mint_inviter_intro_sends_dek(p, r) ==
    IF \/ p # Inviter \/ r.phase # "NoticePinned"
       \/ has_kind(r, "InviterIntro") \/ ~r.named \/ ~has_kind(r, "InviteeIntro")
    THEN r
    ELSE LET e == (CHOOSE t \in r.log : t.kind = "InviteeIntro").of
         IN  mint(SyncDek(e), mint(InviterIntro(e),
                 [r EXCEPT !.phase = "IntroductionMinted",
                           !.shared_inviter = ToInviter(e),
                           !.shared_invitee = ToInvitee(e)]))

\* Both secrets come from the invitee intro in the log: its seed_ct opens to
\* one, the other is wrapped to its intake key.
try_mint_inviter_intro(p, r) ==
    IF \/ p # Inviter \/ r.phase # "NoticePinned"
       \/ has_kind(r, "InviterIntro") \/ ~r.named
    THEN r
    ELSE IF has_kind(r, "InviteeIntro")
    THEN LET e == (CHOOSE t \in r.log : t.kind = "InviteeIntro").of
         IN  mint(InviterIntro(e), [r EXCEPT !.phase = "IntroductionMinted",
                                             !.shared_inviter = ToInviter(e),
                                             !.shared_invitee = ToInvitee(e)])
    ELSE r

mint_pending_intros(p, r) == try_mint_inviter_intro(p, try_mint_invitee_intro(p, r))

\* Mutant: the gates let a second intro of a role in.
refusal_no_duplicate(p, r, t) ==
    IF \/ t.kind \in {"InviteeIntro", "InviterIntro"} /\ ~has_kind(r, "Notice")
       \/ t.kind = "InviterIntro" /\ p # Inviter
          /\ r.phase \notin {"IntroductionMinted", "IntroductionSent"}
    THEN "IntroVerifyFailed"
    ELSE None

\* Mutant: an invitee takes an inviter intro in any phase.
refusal_any_phase(p, r, t) ==
    IF t.kind \notin {"InviteeIntro", "InviterIntro"} THEN None
    ELSE IF has_kind(r, t.kind) THEN "DuplicateIntro"
    ELSE IF ~has_kind(r, "Notice") THEN "IntroVerifyFailed"
    ELSE None

\* Transactions that the gates refuse to merge, with the failure they store.
refusal(p, r, t) ==
    IF t.kind \notin {"InviteeIntro", "InviterIntro"} THEN None
    ELSE IF has_kind(r, t.kind) THEN "DuplicateIntro"
    ELSE IF \/ ~has_kind(r, "Notice")
            \/ t.kind = "InviterIntro" /\ p # Inviter
               /\ r.phase \notin {"IntroductionMinted", "IntroductionSent"}
    THEN "IntroVerifyFailed"
    ELSE None

\* What the gates do to the row of a transaction that is merged: a notice of
\* another policy fails the row and is merged all the same; confirm_peer keeps
\* what decapsulation yields, which is never an error.
handshake_ingest_gate(p, r, t) ==
    CASE t.kind = "Notice" /\ p # Inviter
             -> IF ~IsSync /\ ~r.accepts THEN fail(r, "PolicyNotAccepted")
                ELSE IF r.phase = "TicketReceived" THEN [r EXCEPT !.phase = "InviteReceived"]
                ELSE r
      [] t.kind = "InviterIntro" /\ p # Inviter
             -> [r EXCEPT !.phase = "Confirming",
                          !.shared_invitee = IF t.of = p THEN ToInvitee(p)
                                             ELSE Unrelated(p)]
      [] t.kind = "SyncDek" -> [r EXCEPT !.dek = TRUE]
      [] OTHER -> r

\* Mutant: a merge does not mint the intro it makes possible.
open_and_merge_no_mint(p, r, pkt) ==
    LET t == pkt.tx
        gated == handshake_ingest_gate(p, r, t)
        merged == [gated EXCEPT !.log = @ \cup {t}]
    IN  IF t \in r.log THEN ack_completed_last(r, pkt.ids)
        ELSE IF refusal(p, r, t) # None THEN fail(r, refusal(p, r, t))
        ELSE ack_completed_last(merged, pkt.ids)

\* open_and_merge of a transaction packet.
open_and_merge(p, r, pkt) ==
    LET t == pkt.tx
        why == refusal(p, r, t)
        gated == handshake_ingest_gate(p, r, t)
        merged == [gated EXCEPT !.log = @ \cup {t}]
    IN  IF t \in r.log THEN ack_completed_last(r, pkt.ids)
        ELSE IF why # None THEN fail(r, why)
        ELSE mint_pending_intros(p, ack_completed_last(merged, pkt.ids))

\* Mutant: the spawn secret is derived from the ticket secret alone.
fingerprint_ticket_only(r) ==
    IF /\ has_kind(r, "InviteeIntro") /\ has_kind(r, "InviterIntro")
       /\ r.shared_inviter # None /\ r.shared_invitee # None
    THEN [intros |-> {t \in r.log : t.kind \in {"InviteeIntro", "InviterIntro"}},
          spawn |-> {}]
    ELSE None

\* try_fingerprint: both intros of the log and both secrets, or None.
fingerprint(r) ==
    IF /\ has_kind(r, "InviteeIntro") /\ has_kind(r, "InviterIntro")
       /\ r.shared_inviter # None /\ r.shared_invitee # None
    THEN [intros |-> {t \in r.log : t.kind \in {"InviteeIntro", "InviterIntro"}},
          spawn |-> {r.shared_inviter, r.shared_invitee}]
    ELSE None

-----------------------------------------------------------------------------
(* Host calls. *)

NewRow == [phase |-> "None", reason |-> None, log |-> {}, writes |-> {},
           last_ack |-> {}, healing |-> FALSE, probes |-> 0, shared_inviter |-> None,
           shared_invitee |-> None, named |-> FALSE, accepts |-> TRUE, dek |-> FALSE]

\* A party may or may not have a name when the handshake starts, and an
\* invitee's identity may or may not have the policy of the notice.
Init ==
    /\ \E named, accepts \in [Parties -> BOOLEAN] :
          /\ accepts[Inviter]
          /\ row = [p \in Parties |-> [NewRow EXCEPT !.named = named[p], !.accepts = accepts[p]]]
    /\ store = {}
    /\ listening = [p \in Parties |-> FALSE]
    /\ child = [p \in Parties |-> None]

create_invite ==
    /\ row[Inviter].phase = "None"
    /\ row' = [row EXCEPT ![Inviter] =
                  mint(Notice, [row[Inviter] EXCEPT !.phase = "InviteCreated"])]
    /\ UNCHANGED <<store, listening, child>>

\* The ticket string travels outside the system, once the invite exists.
receive_ticket(e) ==
    /\ row[Inviter].phase # "None"
    /\ row[e].phase = "None"
    /\ row' = [row EXCEPT ![e].phase = "TicketReceived"]
    /\ UNCHANGED <<store, listening, child>>

\* The host posts what poll.write_durable holds; a post may be repeated, and
\* the process may never get to acknowledge it.
Post(p, pkt) ==
    /\ pkt \in row[p].writes
    /\ pkt \notin store
    /\ Cardinality(store) < MaxPosts
    /\ store' = store \cup {pkt}
    /\ UNCHANGED <<row, listening, child>>

\* Mutant: an ack on one channel drops the write on every channel.
write_ack_all_channels(p, pkt) ==
    /\ pkt \in row[p].writes
    /\ pkt \in store
    /\ LET acked == [row[p] EXCEPT !.writes = {x \in @ : x.tx # pkt.tx}]
       IN  row' = [row EXCEPT ![p] = IF acked.writes = {} THEN ack_posted(p, acked)
                                     ELSE acked]
    /\ UNCHANGED <<store, listening, child>>

\* write_ack, then advance_ack_phases once no invite-tag write is pending.
write_ack(p, pkt) ==
    /\ pkt \in row[p].writes
    /\ pkt \in store
    /\ LET acked == [row[p] EXCEPT !.writes = @ \ {pkt}]
       IN  row' = [row EXCEPT ![p] = IF acked.writes = {} THEN ack_posted(p, acked)
                                     ELSE acked]
    /\ UNCHANGED <<store, listening, child>>

\* The host polls.  Until it polls again it ingests what this result names.
poll(p) ==
    /\ row[p].phase # "None"
    /\ listening' = [listening EXCEPT ![p] = polls(row[p])]
    /\ UNCHANGED <<row, store, child>>

\* ingest_list or ingest_packet of a transaction packet.  A failed row ignores
\* it, and a DEK wrapped to another device is an error that changes nothing.
ingest_packet(p, pkt) ==
    /\ listening[p]
    /\ pkt \in store
    /\ pkt.tx # Probe
    /\ row[p].phase \notin NoRow \cup {"Failed"}
    /\ ~(pkt.tx.kind = "SyncDek" /\ pkt.tx \notin row[p].log /\ pkt.tx.of # p)
    /\ row' = [row EXCEPT ![p] = open_and_merge(p, row[p], pkt)]
    /\ UNCHANGED <<store, listening, child>>

\* on_heal_packet, one round of the search: nothing if the sets agree, else
\* another probe, or the search is over and the transactions that the sender
\* of the probe lacks are sent again.
on_heal_packet(p, pkt) ==
    /\ listening[p]
    /\ pkt \in store
    /\ pkt.tx = Probe
    /\ row[p].phase \notin NoRow \cup {"Failed"}
    /\ pkt.ids # row[p].log
    /\ LET r == row[p]
           again == UNION {packets(t, r) : t \in r.log \ pkt.ids}
       IN  \/ r.probes < MaxProbes /\ row' = [row EXCEPT ![p] = post_heal(r)]
           \/ row' = [row EXCEPT ![p] = [r EXCEPT !.healing = FALSE,
                                                  !.writes = @ \cup again]]
    /\ UNCHANGED <<store, listening, child>>

\* set_display_name or set_device_name, then mint_pending_intros.
set_display_name(p) ==
    /\ row' = [row EXCEPT ![p] = mint_pending_intros(p, [row[p] EXCEPT !.named = TRUE])]
    /\ UNCHANGED <<store, listening, child>>

\* tick past the ticket's expires: a row without TxConfirm fails.
tick(p) ==
    /\ row[p].phase \notin NoRow
    /\ Confirm \notin row[p].log
    /\ row' = [row EXCEPT ![p] = fail(row[p], "InviteExpired")]
    /\ UNCHANGED <<store, listening, child>>

\* Mutant: a decided row may be decided again.
require_confirming_undecided(r) == r.phase = "Confirming"

\* require_confirming: the phase is Confirming and nothing is decided.
require_confirming(r) == r.phase = "Confirming" /\ r.log \cap {Confirm, Reject} = {}

\* TxConfirm is merged locally and the child spawned; the inviter of a sync
\* handshake also posts the DEK, wrapped to the invitee of the log's intro.
confirm_established(p) ==
    /\ require_confirming(row[p])
    /\ fingerprint(row[p]) # None
    /\ LET r == [row[p] EXCEPT !.log = @ \cup {Confirm}]
           e == (CHOOSE t \in r.log : t.kind = "InviteeIntro").of
       IN  row' = [row EXCEPT ![p] = IF IsSync /\ p = Inviter THEN mint(SyncDek(e), r)
                                     ELSE r]
    /\ child' = [child EXCEPT ![p] = fingerprint(row[p]).spawn]
    /\ UNCHANGED <<store, listening>>

reject_established(p) ==
    /\ require_confirming(row[p])
    /\ row' = [row EXCEPT ![p] = fail([row[p] EXCEPT !.log = @ \cup {Reject}],
                                      "ConfirmationRejected")]
    /\ UNCHANGED <<store, listening, child>>

\* The row goes, its pending writes and the spawned child stay.
delete_conversation(p) ==
    /\ row[p].phase \notin NoRow
    /\ row' = [row EXCEPT ![p] = [NewRow EXCEPT !.phase = "Deleted",
                                                !.writes = row[p].writes,
                                                !.named = row[p].named,
                                                !.accepts = row[p].accepts,
                                                !.dek = row[p].dek]]
    /\ UNCHANGED <<store, listening, child>>

Next ==
    \/ create_invite
    \/ \E e \in Invitees : receive_ticket(e)
    \/ \E p \in Parties :
        \/ \E pkt \in row[p].writes : Post(p, pkt) \/ write_ack(p, pkt)
        \/ \E pkt \in store : ingest_packet(p, pkt) \/ on_heal_packet(p, pkt)
        \/ poll(p)
        \/ set_display_name(p)
        \/ tick(p)
        \/ confirm_established(p)
        \/ reject_established(p)
        \/ delete_conversation(p)

Spec == Init /\ [][Next]_vars

\* The host keeps cycling: what is pending is posted and acknowledged, poll is
\* called again and again, and what it names is ingested.  Nothing obliges the
\* users to name themselves, decide or delete, nor the clock to pass expires.
Fairness ==
    \A p \in Parties :
        /\ WF_vars(poll(p))
        /\ WF_vars(\E pkt \in row[p].writes : Post(p, pkt))
        /\ WF_vars(\E pkt \in row[p].writes : write_ack(p, pkt))
        /\ \A t \in Txs : WF_vars(\E pkt \in store : pkt.tx = t /\ ingest_packet(p, pkt))

FairSpec == Spec /\ Fairness

-----------------------------------------------------------------------------
(* Properties. *)

TypeOK ==
    /\ row \in [Parties -> Rows]
    /\ row[Inviter].phase \in InviterPhases \cup NoRow \cup {"Failed"}
    /\ \A e \in Invitees : row[e].phase \in InviteePhases \cup NoRow \cup {"Failed"}
    /\ \A p \in Parties : (row[p].phase = "Failed") <=> (row[p].reason # None)
    /\ store \in SUBSET Packets
    /\ listening \in [Parties -> BOOLEAN]
    /\ child \in [Parties -> (SUBSET Secrets) \cup {None}]

\* Two users who compare confirmationDigest (try_fingerprint) see equal texts
\* exactly when the inviter answered that invitee's intro: the digests agree
\* although each side computed them from its own log and its own secrets, and a
\* second holder of the ticket never sees the inviter's digest.
DigestAgreement ==
    \A e \in Invitees :
        (fingerprint(row[Inviter]) # None /\ fingerprint(row[e]) # None)
            => ((fingerprint(row[Inviter]) = fingerprint(row[e]))
                    <=> InviterIntro(e) \in row[Inviter].log)

\* Whatever the holders of one ticket confirm (confirm_established), only the
\* inviter and the invitee it answered can hold the same child conversation.
ChildExclusive ==
    \A p, q \in Parties :
        (p # q /\ child[p] # None /\ child[p] = child[q])
            => \E e \in Invitees : {p, q} = {Inviter, e} /\ child[p] = {ToInviter(e), ToInvitee(e)}

\* A row that reaches Confirming can be decided: confirm_established never
\* meets a row whose fingerprint is missing an intro or a secret.
ConfirmingHasDigest ==
    \A p \in Parties : row[p].phase = "Confirming" => fingerprint(row[p]) # None

\* t was posted on every channel of the ticket.
Posted(t) == \A c \in Channels : \E pkt \in store : pkt.tx = t /\ pkt.chan = c

\* advance_ack_phases: a phase that stands for a full packet set on the wire is
\* entered only when every channel holds it.
PhaseMeansPosted ==
    /\ row[Inviter].phase \in {"NoticePinned", "IntroductionMinted", "Confirming"} => Posted(Notice)
    /\ row[Inviter].phase = "Confirming" =>
           \E e \in Invitees : InviterIntro(e) \in row[Inviter].log /\ Posted(InviterIntro(e))
    /\ \A e \in Invitees : row[e].phase = "IntroductionSent" => Posted(InviteeIntro(e))

\* A row is decided once: it never holds both TxConfirm and TxReject, whatever
\* healing brings in, and a row that failed has spawned no child since.
DecidedOnce ==
    \A p \in Parties :
        /\ ~({Confirm, Reject} \subseteq row[p].log)
        /\ row[p].reason = "ConfirmationRejected" => child[p] = None

\* An acknowledgement is sound: whatever last_acks holds is in the log, and what
\* it holds of the party's own intro was really on a channel.
AckSound ==
    \A p \in Parties :
        /\ row[p].last_ack \subseteq row[p].log
        /\ row[p].last_ack # {} => \E pkt \in store : row[p].last_ack = pkt.ids

\* A device holds the inviter's DEK (TxSyncDek) only if the inviter's user has
\* confirmed the digest of exactly that device (confirm_established).
DekAfterConfirm ==
    \A e \in Invitees : row[e].dek => child[Inviter] = {ToInviter(e), ToInvitee(e)}

\* A ticket holder with a name answers a notice that reached a channel.
InviteeAnswers ==
    \A e \in Invitees :
        (row[e].phase = "TicketReceived" /\ row[e].named /\ \E pkt \in store : pkt.tx = Notice)
            ~> row[e].phase \in {"IntroductionSent", "Confirming", "Failed", "Deleted"}

\* An inviter with a name whose notice is pinned answers an intro that reached a
\* channel, all the way to Confirming.
InviterAnswers ==
    (/\ row[Inviter].phase = "NoticePinned" /\ row[Inviter].named
     /\ ~has_kind(row[Inviter], "InviteeIntro")
     /\ \E pkt \in store : pkt.tx.kind = "InviteeIntro")
        ~> row[Inviter].phase \in {"Confirming", "Failed", "Deleted"}

\* protocol.md, State machine: "A valid `TxInviteeIntro` also mints the inviter
\* `TxInviterIntro`" (once the notice is pinned and the inviter has a name).
IntroIsAnswered ==
    (/\ row[Inviter].phase = "NoticePinned" /\ row[Inviter].named
     /\ has_kind(row[Inviter], "InviteeIntro"))
        => has_kind(row[Inviter], "InviterIntro")

=============================================================================
