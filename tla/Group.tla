------------------------------- MODULE Group -------------------------------
(***************************************************************************)
(* One group: its owner, the contacts it is offered to, the answers that   *)
(* travel in the direct messages between them, and the rosters the owner   *)
(* posts on the group's own tags (engine/group.rs).                        *)
(*                                                                         *)
(* Every person has one device.  A direct message delivers each            *)
(* transaction at most once, in any order and possibly never; LivePath is  *)
(* about how it does that.  Of the group's own transactions only rosters   *)
(* are kept: on_group_payload does nothing for GroupKick, GroupLeave and   *)
(* GroupWrap.  Names, photos and key bytes are left out; a tag key is      *)
(* known by who minted it and when.                                        *)
(***************************************************************************)
EXTENDS Integers, Sequences, FiniteSets, SequencesExt, Retain

CONSTANTS
    Owner,       \* the person whose device creates the group
    Others,      \* the contacts with an established direct message to Owner
    Cap,         \* members and pending invitations together (32 in the code)
    MaxEpoch,    \* bound: the owner's epoch
    MaxInvites,  \* bound: invitations per contact
    MaxCrashes   \* bound: devices that stop and are loaded again

ASSUME GroupAssumption ==
    /\ Owner \notin Others
    /\ IsFiniteSet(Others)
    /\ Cap \in Nat \ {0}
    /\ MaxEpoch \in Nat
    /\ MaxInvites \in Nat
    /\ MaxCrashes \in Nat

People == {Owner} \cup Others

VARIABLES
    row,      \* row[d]: the group's row on the device of d
    created,  \* whether create_group was called
    inbox,    \* inbox[p]: invitations in p's direct message not ingested yet
    answer,   \* answer[p]: p's GroupAccept: not minted, sent, or ingested by Owner
    posted,   \* rosters on the group's durable channels
    log,      \* rosters whose bodies the owner's log holds
    faulty,   \* the person whose device is folded, and stopped and loaded again
    last,     \* the person whose transaction the last call of that device ingested
    snap,     \* what the last fold of that device kept
    crashes   \* number of reloads

vars == <<row, created, inbox, answer, posted, log, faulty, last, snap, crashes>>

-----------------------------------------------------------------------------
(* party.rs: GroupMember, GroupLive, GroupOffer, GroupPhase *)

TagKeys == [by : People, at : 0 .. MaxEpoch]
Members == [pk : People, send_tag_key : TagKeys]
Kinds   == {"none", "offer", "live", "failed", "panicked"}
Ends    == {"", "OfferRejected", "Kicked", "Left"}
Rows    == [kind : Kinds, members : Seq(Members), pending : Seq(Others),
            epoch : 0 .. MaxEpoch, why : Ends]
Rosters == [epoch : 0 .. MaxEpoch, members : Seq(Members)]

NoRow  == [kind |-> "none", members |-> <<>>, pending |-> <<>>, epoch |-> 0, why |-> ""]
Offer  == [NoRow EXCEPT !.kind = "offer"]
Failed(why) == [NoRow EXCEPT !.kind = "failed", !.why = why]
\* The process of the device ended within a call; only a reload gives it a row.
Panicked == [NoRow EXCEPT !.kind = "panicked"]
Live(members, pending, epoch) ==
    [NoRow EXCEPT !.kind = "live", !.members = members, !.pending = pending, !.epoch = epoch]

member(p, by, at) == [pk |-> p, send_tag_key |-> [by |-> by, at |-> at]]

pks(members)  == {members[i].pk : i \in 1 .. Len(members)}
keys(members) == {members[i].send_tag_key : i \in 1 .. Len(members)}

-----------------------------------------------------------------------------
(* live.rs: the routes of group packets *)

\* Mutant: a live row always has a route, under the keys of all who are listed.
group_route_any(r, d) == IF r.kind = "live" THEN keys(r.members) ELSE {}

\* group_route: a device posts under the tag key that its own row lists for
\* its own signing key, and not at all when the row does not list it.
group_route(r, d) ==
    {r.members[i].send_tag_key : i \in {i \in 1 .. Len(r.members) : r.kind = "live" /\ r.members[i].pk = d}}

\* group_match: a device finds what was posted under the keys of its own row.
group_match(r, key) == r.kind = "live" /\ key \in keys(r.members)

-----------------------------------------------------------------------------
(* group.rs *)

\* The roster of a live row, as post_roster signs it.
roster(r) == [epoch |-> r.epoch, members |-> r.members]

\* post_roster of the owner's row r: the roster enters the log, without a
\* record, and is posted if there is a route.
post_roster(r) ==
    /\ log' = log \cup {roster(r)}
    /\ posted' = posted \cup {[roster |-> roster(r), key |-> k] : k \in group_route(r, Owner)}

\* Mutant: a row that ended takes a new offer.
note_invite_again(r) == IF r.kind \in {"offer", "live"} THEN r ELSE Offer

\* note_invite: an offer, unless the device has a row of any phase.
note_invite(r) == IF r.kind # "none" THEN r ELSE Offer

\* Mutant: the epoch stays when a member enters.
note_accept_same_epoch(r) ==
    Live(Append(r.members, member(Head(r.pending), Owner, r.epoch)), Tail(r.pending), r.epoch)

\* Mutant: everybody who is pending enters.
note_accept_everybody(r) ==
    Live(r.members \o [i \in 1 .. Len(r.pending) |-> member(r.pending[i], Owner, r.epoch + 1)],
         <<>>, r.epoch + 1)

\* note_accept: the first pending member enters, whoever accepted, with tag
\* keys that the owner mints.
note_accept(r) ==
    Live(Append(r.members, member(Head(r.pending), Owner, r.epoch + 1)),
         retain(r.pending, {i \in 1 .. Len(r.pending) : r.pending[i] # Head(r.pending)}), r.epoch + 1)

\* note_roster on the device of d: the roster replaces members, pending and
\* epoch, whatever epoch the row had.
note_roster(r, d, ros) ==
    IF r.kind \notin {"live", "offer"} THEN r
    ELSE IF d \notin pks(ros.members) THEN Failed("Kicked")
    ELSE Live(ros.members, <<>>, ros.epoch)

\* Mutant: a failed row comes back with a reason there is none of.
parse_group_unknown(r) == IF r.kind = "failed" THEN Failed("Failed") ELSE r

\* parse_group of group_json: a failed row comes back as Left.
parse_group(r) == IF r.kind = "failed" THEN Failed("Left") ELSE r

-----------------------------------------------------------------------------
\* A call on the device of d, whose process runs, that ingested a transaction of
\* from, or none if from is d.
called(d, from) ==
    /\ row[d].kind # "panicked"
    /\ last' = IF d = faulty THEN from ELSE last

(* The owner's calls *)

\* The lists of contacts a caller may name: at least one, no one twice.
Contacts == {s \in SeqOf(Others, Cap - 1) : s # <<>> /\ IsInjective(s)}

create_group(peers) ==
    /\ ~created
    /\ Len(peers) \in 1 .. Cap - 1
    /\ created' = TRUE
    /\ row' = [row EXCEPT ![Owner] = Live(<<member(Owner, Owner, 0)>>, peers, 0)]
    /\ inbox' = [p \in Others |-> IF p \in Range(peers) THEN inbox[p] + 1 ELSE inbox[p]]
    /\ called(Owner, Owner)
    /\ UNCHANGED <<answer, posted, log, faulty, snap, crashes>>

\* Mutant: only the members are compared with the new contact.
add_refused_members_only(r, p) == Len(r.members) + Len(r.pending) >= Cap \/ p \in pks(r.members)

\* Why add_group_member refuses a contact of the owner.
add_refused(r, p) ==
    \/ Len(r.members) + Len(r.pending) >= Cap
    \/ p \in Range(r.pending)
    \/ p \in pks(r.members)

add_group_member(p) ==
    /\ row[Owner].kind = "live"
    /\ ~add_refused(row[Owner], p)
    /\ inbox[p] < MaxInvites
    /\ inbox' = [inbox EXCEPT ![p] = @ + 1]
    /\ row' = [row EXCEPT ![Owner].pending = Append(@, p)]
    /\ called(Owner, Owner)
    /\ UNCHANGED <<created, answer, posted, log, faulty, snap, crashes>>

\* kick_group_member of a live row: of anybody who is not pending, also of
\* somebody who is no member and of the owner.
kick_group_member(p) ==
    LET r == row[Owner]
        others == {i \in 1 .. Len(r.members) : r.members[i].pk # p}
        kicked == Live(retain(r.members, others), r.pending, r.epoch + 1)
    IN  /\ r.kind = "live"
        /\ p \notin Range(r.pending)
        /\ r.epoch < MaxEpoch
        /\ row' = [row EXCEPT ![Owner] = kicked]
        /\ post_roster(kicked)
        /\ called(Owner, Owner)
        /\ UNCHANGED <<created, inbox, answer, faulty, snap, crashes>>

-----------------------------------------------------------------------------
(* Calls of any device *)

\* leave_group, and delete_conversation of a live group (delete_group).
leave_group(d) ==
    /\ row[d].kind = "live"
    /\ row' = [row EXCEPT ![d] = Failed("Left")]
    /\ called(d, d)
    /\ UNCHANGED <<created, inbox, answer, posted, log, faulty, snap, crashes>>

\* accept_group: GroupAccept is one transaction per direct message, so a
\* second one is the first one again.  The device knows itself only.
accept_group(p) ==
    /\ row[p].kind = "offer"
    /\ answer' = [answer EXCEPT ![p] = IF @ = "none" THEN "sent" ELSE @]
    /\ row' = [row EXCEPT ![p] = Live(<<member(p, p, 0)>>, <<>>, 0)]
    /\ called(p, p)
    /\ UNCHANGED <<created, inbox, posted, log, faulty, snap, crashes>>

\* reject_group: the owner's device does nothing with a GroupReject.
reject_group(p) ==
    /\ row[p].kind = "offer"
    /\ row' = [row EXCEPT ![p] = Failed("OfferRejected")]
    /\ called(p, p)
    /\ UNCHANGED <<created, inbox, answer, posted, log, faulty, snap, crashes>>

\* kick_group_member on an offer drops the row.
drop_offer(p) ==
    /\ row[p].kind = "offer"
    /\ row' = [row EXCEPT ![p] = NoRow]
    /\ called(p, p)
    /\ UNCHANGED <<created, inbox, answer, posted, log, faulty, snap, crashes>>

-----------------------------------------------------------------------------
(* Ingestion: accept_fragment and on_group_payload *)

ingest_invite(p) ==
    /\ inbox[p] > 0
    /\ inbox' = [inbox EXCEPT ![p] = @ - 1]
    /\ row' = [row EXCEPT ![p] = note_invite(@)]
    /\ called(p, Owner)
    /\ UNCHANGED <<created, answer, posted, log, faulty, snap, crashes>>

ingest_accept(p) ==
    LET r == row[Owner] IN
    /\ answer[p] = "sent"
    /\ answer' = [answer EXCEPT ![p] = "heard"]
    /\ IF r.kind = "live" /\ r.pending # <<>>
       THEN /\ r.epoch < MaxEpoch
            /\ row' = [row EXCEPT ![Owner] = note_accept(r)]
            /\ post_roster(note_accept(r))
       ELSE UNCHANGED <<row, posted, log>>
    /\ called(Owner, p)
    /\ UNCHANGED <<created, inbox, faulty, snap, crashes>>

\* A roster found under a key of the device's own row.  The owner meets its
\* own posts again, and ignores those whose bodies are in its log.  A roster
\* without the device fails its row, and accept_fragment, which then asks for
\* the row's chains, panics.
ingest_roster(d, post) ==
    /\ group_match(row[d], post.key)
    /\ d = Owner => post.roster \notin log
    /\ row' = [row EXCEPT ![d] = IF note_roster(@, d, post.roster).kind = "failed" THEN Panicked
                                 ELSE note_roster(@, d, post.roster)]
    /\ log' = IF d = Owner THEN log \cup {post.roster} ELSE log
    /\ called(d, d)
    /\ UNCHANGED <<created, inbox, answer, posted, faulty, snap, crashes>>

-----------------------------------------------------------------------------
(* fold, a stop of the process, and loading the snapshot and the records *)

fold(d) ==
    /\ d = faulty
    /\ crashes < MaxCrashes
    /\ snap' = [row |-> row[d], log |-> IF d = Owner THEN log ELSE {}]
    /\ called(d, d)
    /\ UNCHANGED <<row, created, inbox, answer, posted, log, faulty, crashes>>

\* apply_folded and apply: rows come from the snapshot alone, and applying a
\* record only puts its body back.  The record of the last ingestion may not
\* have been saved; then its packet is ingested again.
reload(d) ==
    /\ d = faulty
    /\ crashes < MaxCrashes
    /\ crashes' = crashes + 1
    /\ row' = [row EXCEPT ![d] = parse_group(snap.row)]
    /\ log' = IF d = Owner THEN snap.log ELSE log
    /\ \/ UNCHANGED <<inbox, answer>>
       \/ /\ d # Owner /\ last = Owner
          /\ inbox' = [inbox EXCEPT ![d] = @ + 1]
          /\ UNCHANGED answer
       \/ /\ d = Owner /\ last # Owner
          /\ answer' = [answer EXCEPT ![last] = "sent"]
          /\ UNCHANGED inbox
    /\ last' = d
    /\ UNCHANGED <<created, posted, faulty, snap>>

-----------------------------------------------------------------------------
Init ==
    /\ row = [d \in People |-> NoRow]
    /\ created = FALSE
    /\ inbox = [p \in Others |-> 0]
    /\ answer = [p \in Others |-> "none"]
    /\ posted = {}
    /\ log = {}
    /\ faulty \in People
    /\ last = faulty
    /\ snap = [row |-> NoRow, log |-> {}]
    /\ crashes = 0

Next ==
    \/ \E peers \in Contacts : create_group(peers)
    \/ \E p \in Others :
        \/ add_group_member(p)
        \/ accept_group(p)
        \/ reject_group(p)
        \/ drop_offer(p)
        \/ ingest_invite(p)
        \/ ingest_accept(p)
    \/ \E d \in People :
        \/ kick_group_member(d)
        \/ leave_group(d)
        \/ \E post \in posted : ingest_roster(d, post)
        \/ fold(d)
        \/ reload(d)

Spec == Init /\ [][Next]_vars

-----------------------------------------------------------------------------
(* Properties *)

\* Rows, mailboxes and rosters keep their types (GroupPhase, GroupLive).
TypeOK ==
    /\ row \in [People -> Rows]
    /\ created \in BOOLEAN
    /\ inbox \in [Others -> Nat]
    /\ answer \in [Others -> {"none", "sent", "heard"}]
    /\ posted \subseteq [roster : Rosters, key : TagKeys]
    /\ log \subseteq Rosters
    /\ last \in People
    /\ faulty \in People
    /\ snap.row \in Rows /\ snap.log \subseteq Rosters
    /\ crashes \in 0 .. MaxCrashes

\* The owner's row never lists a person twice, as a member or as pending, and
\* never more than the cap, also when old rosters come back after a reload
\* (create_group, add_group_member, note_accept, note_roster).
EachPersonOnce ==
    LET r == row[Owner]
        all == [i \in 1 .. Len(r.members) |-> r.members[i].pk] \o r.pending
    IN  IsInjective(all) /\ Len(all) <= Cap

\* While the owner's device is not reloaded, an epoch names one member list:
\* two posted rosters of one epoch are the same roster (kick_group_member,
\* note_accept).
EpochNamesRoster ==
    crashes = 0 =>
        \A a, b \in posted : a.roster.epoch = b.roster.epoch => a.roster = b.roster

\* While no device is reloaded, the owner admits no more people than have
\* accepted, although it does not look at who did (note_accept).
AdmissionsAnswered ==
    crashes = 0 =>
        Cardinality(pks(row[Owner].members) \ {Owner})
            <= Cardinality({p \in Others : answer[p] = "heard"})

\* A device that rejected, left or was removed is not offered the group again
\* by an invitation that arrives later, unless it is reloaded (note_invite).
EndIsFinal ==
    [][\A d \in People : /\ row[d].kind = "failed"
                         /\ crashes' = crashes
                         => row'[d].kind = "failed"]_vars

\* No ingestion panics: a device finds no roster that leaves it out, although
\* the owner may kick itself and, reloaded, meets its own lost rosters again,
\* because such a roster has no route (accept_fragment, note_roster, group_route).
NoPanic == \A d \in People : row[d].kind # "panicked"
=============================================================================
