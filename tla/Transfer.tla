------------------------------ MODULE Transfer ------------------------------
(***************************************************************************)
(* A body from the payload to the receiver's log: durable_body_to_json,    *)
(* the packets of Fragments, and durable_body_from_json.  Beside it, a     *)
(* document at rest: a persist record or an object of a snapshot, written  *)
(* by one build and read by the same or by another one.                    *)
(***************************************************************************)
EXTENDS Fragments, Wire, Functions

VARIABLE rest   \* the document at rest

vars == <<tvars, rest>>

\* durable_body_to_json of the author's body, as hlc and payload documents.
durable_body_to_json(p, h) ==
    [hlc |-> object_json("Hlc", [wall_ms |-> h, counter |-> 0]), payload |-> payload_to_json(p)]

durable_body_from_json(doc) ==
    {[hlc |-> h, payload |-> p] : h \in parse_object("Hlc", doc.hlc), p \in payload_from_json(doc.payload)}

-----------------------------------------------------------------------------
(* A document at rest *)

Artefacts ==
    {[kind |-> "payload", of |-> p] : p \in Payloads} \cup
    {[kind |-> "packet", of |-> p] : p \in Packets} \cup
    {[kind |-> "object", of |-> o] : o \in [type : DOMAIN objects_written \ {"GroupFailed"}, n : 0 .. 3]} \cup
    {[kind |-> "row", of |-> r] : r \in [kind : DOMAIN row_written \ {"GroupFailed"}, n : 0 .. 3]} \cup
    {[kind |-> "ended", of |-> e] : e \in GroupEnds} \cup
    {[kind |-> "party", of |-> p] : p \in Parties}

place(r) == IF r.kind \in DOMAIN device_conv_json THEN "device" ELSE "identity"

written(a) ==
    CASE a.kind = "payload" -> payload_to_json(a.of)
      [] a.kind = "packet" -> packet_to_json(a.of)
      [] a.kind = "object" -> [type |-> a.of.type, members |-> object_json(a.of.type, variant[a.of.n, a.of.type])]
      [] a.kind = "row" -> [type |-> place(a.of), members |-> row_to_json(a.of)]
      [] a.kind = "ended" -> [type |-> "identity", members |-> write(row_written.GroupFailed, ended(a.of))]
      [] a.kind = "party" -> [type |-> "party", members |-> party_json(a.of)]

was(a) ==
    CASE a.kind = "payload" -> [type |-> a.of.type, value |-> value(payload_written[a.of.type], a.of.n)]
      [] a.kind = "packet" -> [type |-> a.of.type, value |-> value(packet_written[a.of.type], a.of.n)]
      [] a.kind = "object" -> variant[a.of.n, a.of.type]
      [] a.kind = "row" -> [kind |-> a.of.kind, value |-> value(row_written[a.of.kind], a.of.n)]
      [] a.kind = "ended" -> [kind |-> "GroupFailed", value |-> ended(a.of)]
      [] a.kind = "party" -> a.of

\* install_users makes a user with its first identity: one without any is gone.
installed(o, v) == o = "User" => v.identities # <<>>

readings(a, doc) ==
    CASE a.kind = "payload" -> payload_from_json(doc)
      [] a.kind = "packet" -> packet_from_json(doc)
      [] a.kind = "object" -> {v \in parse_object(doc.type, doc.members) : installed(doc.type, v)}
      [] a.kind \in {"row", "ended"} -> row_from_json(doc.type, doc.members)
      [] a.kind = "party" -> party_from_json(doc.members)

\* extra_ok is called for what comes from a peer, not for a snapshot's own objects.
strict(a) == a.kind \in {"payload", "packet"} \/ (a.kind = "object" /\ a.of.type \in DOMAIN payload_objects_read)

Save(a) ==
    /\ item = {} /\ rest.step = "none"
    /\ rest' = [step |-> "saved", of |-> a, doc |-> written(a), change |-> "none"]
    /\ UNCHANGED tvars

\* The build that reads it is another one: a member it does not know, or one
\* that was not written.
OtherBuild ==
    /\ rest.step = "saved" /\ rest.change = "none"
    /\ \/ rest' = [rest EXCEPT !.change = "more", !.doc.members = @ @@ [unknown |-> Null]]
       \/ \E k \in DOMAIN rest.doc.members :
            rest' = [rest EXCEPT !.change = "less", !.doc.members = RestrictDomain(@, LAMBDA m : m # k)]
    /\ UNCHANGED tvars

Load ==
    /\ rest.step = "saved"
    /\ rest' = [step |-> "read", of |-> rest.of, change |-> rest.change, got |-> readings(rest.of, rest.doc)]
    /\ UNCHANGED tvars

Init == CarryInit /\ rest = [step |-> "none"]

\* A step of Fragments: a device sends, or looks at a document at rest.
Travel == rest.step = "none" /\ Carry /\ UNCHANGED rest

Next ==
    \/ Travel
    \/ \E a \in Artefacts : Save(a)
    \/ OtherBuild
    \/ Load

Spec == Init /\ [][Next]_vars

-----------------------------------------------------------------------------
\* As long as every posting is cut alike, whatever is lost, repeated or
\* overtaken, what the receiver inserts is the transaction that was minted, of
\* every type of payload and with the timestamp of an author (open_and_merge,
\* accept_fragment, durable_body_from_json).
MergedAsMinted ==
    Uniform =>
        \A b \in merged, p \in item : \E a \in Authors :
            b = [hlc |-> [wall_ms |-> wall[a], counter |-> 0],
                 payload |-> [type |-> p.type, value |-> value(payload_written[p.type], p.n)]]

\* What a restart leaves of what was written.  Three things do not survive it:
\* a user without identities, the photo of a group's offer, and why a group
\* ended, which is Left ever after (group_json, parse_group, install_users).
survives(a) ==
    CASE a.kind = "object" /\ ~installed(a.of.type, was(a)) -> {}
      [] a.kind = "object" /\ a.of.type = "GroupOffer" -> {[was(a) EXCEPT !.photo = <<>>]}
      [] a.kind = "row" /\ a.of.kind = "GroupOffer" -> {[was(a) EXCEPT !.value.group.photo = <<>>]}
      [] a.kind = "ended" -> {[kind |-> "GroupFailed", value |-> ended("Left")]}
      [] OTHER -> {was(a)}

\* Payloads with and without each of their Options, packets, tickets, the
\* objects of a snapshot and every phase and failure of a handshake are read
\* back as what was written, but for the three things that survives names.  A
\* payload, packet or ticket with a member more or less is refused, never read
\* as something else; a snapshot's own objects may have more
\* (payload_from_json, packet_from_json, parse_role_phase, parse_chains,
\* parse_group).
ReadBack ==
    rest.step = "read" =>
        CASE rest.change = "none" -> rest.got = survives(rest.of)
          [] rest.change = "more" -> rest.got = IF strict(rest.of) THEN {} ELSE survives(rest.of)
          [] rest.change = "less" -> strict(rest.of) => rest.got = {}
=============================================================================
