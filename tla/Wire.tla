-------------------------------- MODULE Wire --------------------------------
(***************************************************************************)
(* The JSON of the protocol: transaction payloads, packets and tickets     *)
(* (codec.rs) and the objects of a folded snapshot (fold_tree.rs,          *)
(* group.rs, chain.rs).  The code writes and reads every object by hand,   *)
(* so a writer and its reader are two tables here too.                     *)
(*                                                                         *)
(* A value is a record whose members are tokens, sequences of at most one  *)
(* (an Option) or sequences (a Vec); a document is a function from member  *)
(* names to JSON values.  Bytes and text are both JSON strings, told apart *)
(* because one read as the other is another value or an error.             *)
(***************************************************************************)
EXTENDS Naturals, Sequences, TLC

(* How a member is written and what is accepted for it.                    *)
Text   == [rep |-> "one", json |-> "text", of |-> ""]
Bytes  == [Text EXCEPT !.json = "base64url"]
Number == [Text EXCEPT !.json = "number"]
Flag   == [Text EXCEPT !.json = "bool"]
Obj(o) == [Text EXCEPT !.json = "object", !.of = o]
Opt(f)  == [f EXCEPT !.rep = "opt"]      \* null stands for None
Omit(f) == [f EXCEPT !.rep = "omit"]     \* the member is left out for None
List(f) == [f EXCEPT !.rep = "list"]

-----------------------------------------------------------------------------
(* Writers: objects inside payloads *)

\* durable_json, ephemeral_json, hlc_json, ticket_to_json.
channel_written ==
    [Durable   |-> [kind |-> Text, address |-> Text],
     Ephemeral |-> [kind |-> Text, address |-> Text]]

hlc_written == [Hlc |-> [wall_ms |-> Number, counter |-> Number]]

ticket_written ==
    [Ticket |-> [type |-> Text, secret |-> Bytes, persistents |-> List(Obj("Durable")), expires |-> Number]]

\* prefs_fields, wake_json, defaults_json.
prefs_fields ==
    [read_receipts |-> Flag, online_visible |-> Flag, send_typing |-> Flag,
     disappear_after |-> Opt(Number), wake |-> Opt(Obj("Wake"))]

prefs_written ==
    [Prefs |-> prefs_fields,
     Wake  |-> [endpoint |-> Text, p256dh |-> Bytes, auth |-> Bytes, vapid_pk |-> Opt(Bytes)],
     Defaults |-> [persistents |-> List(Obj("Durable")), ephemerals |-> List(Obj("Ephemeral")),
                   read_receipts |-> Flag, online_visible |-> Flag, send_typing |-> Flag,
                   disappear_after |-> Opt(Number), publish_wake |-> Flag,
                   notification_privacy |-> Text]]

-----------------------------------------------------------------------------
(* Writers: payload_to_json *)

\* intro_fields and invitee_fields; the Sync intros add the device.
intro_fields ==
    [name |-> Text, profile_pic |-> Opt(Bytes), send_tag_key |-> Bytes, eph_send_tag_key |-> Bytes,
     encryption_pk |-> Bytes, signing_pk |-> Bytes, seed_ct |-> Bytes, prefs |-> Obj("Prefs")]

invitee_fields == intro_fields @@ [intake_pk |-> Bytes]

handshake_written ==
    [Notice  |-> [policy |-> Text, intake_pk |-> Bytes, persistents |-> List(Obj("Durable")),
                  ephemerals |-> List(Obj("Ephemeral")), expires |-> Number],
     Confirm |-> <<>>, Reject |-> <<>>,
     InviterIntro     |-> intro_fields,
     InviteeIntro     |-> invitee_fields,
     SyncInviterIntro |-> intro_fields @@ [device_id |-> Bytes],
     SyncInviteeIntro |-> invitee_fields @@ [device_id |-> Bytes],
     SyncDek          |-> [ct |-> Bytes]]

engine_written ==
    [EngineInit |-> <<>>,
     EngineCreateUser |-> [user_id |-> Bytes], EngineDeleteUser |-> [user_id |-> Bytes],
     EngineCreateIdentity |-> [user_id |-> Bytes, identity_id |-> Bytes, policy |-> Text,
                               encryption |-> Obj("KeyPair"), signing |-> Obj("KeyPair")],
     EngineDeleteIdentity   |-> [user_id |-> Bytes, identity_id |-> Bytes],
     EngineUnsetDisplayName |-> [user_id |-> Bytes, identity_id |-> Bytes],
     EngineSetDisplayName   |-> [user_id |-> Bytes, identity_id |-> Bytes, name |-> Text],
     EngineSetProfilePic    |-> [user_id |-> Bytes, identity_id |-> Bytes, profile_pic |-> Opt(Bytes)],
     EngineSetDefaults   |-> [defaults |-> Obj("Defaults")],
     EngineSetDeviceName |-> [name |-> Text],
     EngineKickDevice    |-> [device_id |-> Bytes]]

chat_written ==
    [Text     |-> [body |-> Text, reply_to |-> Opt(Bytes), expire_at |-> Opt(Number)],
     Edit     |-> [target |-> Bytes, body |-> Text],
     Remove   |-> [target |-> Bytes],
     Reaction |-> [target |-> Bytes, emoji |-> Text, add |-> Flag],
     Read |-> [up_to |-> Bytes], Delivered |-> [up_to |-> Bytes],
     Name |-> [name |-> Text], Photo |-> [profile_pic |-> Opt(Bytes)],
     Prefs |-> prefs_fields,
     Advertise |-> [encaps_pk |-> Bytes], Wrap |-> [kem_ct |-> Bytes], Ack |-> [ratchet_ack |-> Bytes]]

media_fields ==
    [mime |-> Text, filename |-> Text, hash |-> Bytes, kind |-> Text, address |-> Text, tag |-> Bytes,
     caption |-> Opt(Text), reply_to |-> Opt(Bytes), expire_at |-> Opt(Number)]

group_invite_fields ==
    [group_id |-> Bytes, owner_signing_pk |-> Bytes, persistents |-> List(Obj("Durable")),
     ephemerals |-> List(Obj("Ephemeral")), name |-> Text, photo |-> Opt(Bytes),
     invitee_signing_pk |-> Bytes, group_secret_ct |-> Bytes]

roster_fields == [epoch |-> Number, members |-> List(Obj("Member")), sig |-> Bytes]

member_written ==
    [Member |-> [signing_pk |-> Bytes, encryption_pk |-> Bytes, send_tag_key |-> Bytes,
                 eph_send_tag_key |-> Bytes]]

group_written ==
    [GroupInvite |-> group_invite_fields, GroupRoster |-> roster_fields,
     GroupAccept |-> [group_id |-> Bytes], GroupReject |-> [group_id |-> Bytes],
     GroupKick   |-> [signing_pk |-> Bytes], GroupLeave |-> <<>>,
     GroupWrap   |-> [to |-> Bytes, from |-> Bytes, kem_ct |-> Bytes]]

payload_written ==
    handshake_written @@ engine_written @@ chat_written @@ [Media |-> media_fields] @@ group_written

payload_type ==
    [Notice |-> "v1-handshake-notice", InviterIntro |-> "v1-handshake-inviter-intro",
     InviteeIntro |-> "v1-handshake-invitee-intro", SyncInviterIntro |-> "v1-sync-inviter-intro",
     SyncInviteeIntro |-> "v1-sync-invitee-intro", Confirm |-> "v1-handshake-confirm",
     Reject |-> "v1-handshake-reject", SyncDek |-> "v1-sync-dek",
     Text |-> "v1-text", Edit |-> "v1-edit", Remove |-> "v1-remove", Reaction |-> "v1-reaction",
     Read |-> "v1-read", Delivered |-> "v1-delivered", Media |-> "v1-media",
     Advertise |-> "v1-advertise", Wrap |-> "v1-wrap", Ack |-> "v1-ack",
     Name |-> "v1-name", Photo |-> "v1-photo", Prefs |-> "v1-prefs",
     GroupInvite |-> "v1-group-invite", GroupAccept |-> "v1-group-accept",
     GroupReject |-> "v1-group-reject", GroupRoster |-> "v1-group-roster",
     GroupWrap |-> "v1-group-wrap", GroupLeave |-> "v1-group-leave", GroupKick |-> "v1-group-kick",
     EngineInit |-> "v1-engine-init", EngineSetDefaults |-> "v1-engine-set-defaults",
     EngineCreateUser |-> "v1-engine-create-user", EngineDeleteUser |-> "v1-engine-delete-user",
     EngineCreateIdentity |-> "v1-engine-create-identity",
     EngineDeleteIdentity |-> "v1-engine-delete-identity",
     EngineSetDisplayName |-> "v1-engine-set-display-name",
     EngineUnsetDisplayName |-> "v1-engine-unset-display-name",
     EngineSetProfilePic |-> "v1-engine-set-profile-pic",
     EngineSetDeviceName |-> "v1-engine-set-device-name",
     EngineKickDevice |-> "v1-engine-kick-device"]

-----------------------------------------------------------------------------
(* Readers: objects inside payloads *)

channel_read ==
    [Durable   |-> [kind |-> Text, address |-> Text],
     Ephemeral |-> [kind |-> Text, address |-> Text]]

hlc_read == [Hlc |-> [wall_ms |-> Number, counter |-> Number]]

ticket_read ==
    [Ticket |-> [type |-> Text, secret |-> Bytes, persistents |-> List(Obj("Durable")), expires |-> Number]]

parse_prefs ==
    [read_receipts |-> Flag, online_visible |-> Flag, send_typing |-> Flag,
     disappear_after |-> Opt(Number), wake |-> Opt(Obj("Wake"))]

parse_wake == [endpoint |-> Text, p256dh |-> Bytes, auth |-> Bytes, vapid_pk |-> Opt(Bytes)]

parse_defaults ==
    [persistents |-> List(Obj("Durable")), ephemerals |-> List(Obj("Ephemeral")), read_receipts |-> Flag,
     online_visible |-> Flag, send_typing |-> Flag, disappear_after |-> Opt(Number),
     publish_wake |-> Flag, notification_privacy |-> Text]

\* parse_keypair and parse_sign_pair; keypair_json and parse_fold_keypair of
\* a snapshot have the same members.
parse_keypair == [pk |-> Bytes, sk |-> Bytes]

parse_member == [signing_pk |-> Bytes, encryption_pk |-> Bytes, send_tag_key |-> Bytes,
                 eph_send_tag_key |-> Bytes]

-----------------------------------------------------------------------------
(* Readers: payload_from_json, by the text of the member type *)

As(variant, members) == [variant |-> variant, members |-> members]

parse_intro ==
    [name |-> Text, profile_pic |-> Opt(Bytes), send_tag_key |-> Bytes, eph_send_tag_key |-> Bytes,
     encryption_pk |-> Bytes, signing_pk |-> Bytes, seed_ct |-> Bytes, prefs |-> Obj("Prefs")]

parse_invitee ==
    [name |-> Text, profile_pic |-> Opt(Bytes), send_tag_key |-> Bytes, eph_send_tag_key |-> Bytes,
     encryption_pk |-> Bytes, signing_pk |-> Bytes, intake_pk |-> Bytes, seed_ct |-> Bytes,
     prefs |-> Obj("Prefs")]

handshake_read ==
    "v1-handshake-notice" :> As("Notice", [policy |-> Text, intake_pk |-> Bytes,
                                persistents |-> List(Obj("Durable")),
                                ephemerals |-> List(Obj("Ephemeral")), expires |-> Number]) @@
    "v1-handshake-inviter-intro" :> As("InviterIntro", parse_intro) @@
    "v1-sync-inviter-intro" :> As("SyncInviterIntro", parse_intro @@ [device_id |-> Bytes]) @@
    "v1-sync-invitee-intro" :> As("SyncInviteeIntro", parse_invitee @@ [device_id |-> Bytes]) @@
    "v1-handshake-invitee-intro" :> As("InviteeIntro", parse_invitee) @@
    "v1-handshake-confirm" :> As("Confirm", <<>>) @@
    "v1-handshake-reject" :> As("Reject", <<>>) @@
    "v1-sync-dek" :> As("SyncDek", [ct |-> Bytes])

parse_media ==
    [mime |-> Text, filename |-> Text, hash |-> Bytes, kind |-> Text, address |-> Text, tag |-> Bytes,
     caption |-> Opt(Text), reply_to |-> Opt(Bytes), expire_at |-> Opt(Number)]

chat_read ==
    "v1-text" :> As("Text", [body |-> Text, reply_to |-> Opt(Bytes), expire_at |-> Opt(Number)]) @@
    "v1-edit" :> As("Edit", [target |-> Bytes, body |-> Text]) @@
    "v1-remove" :> As("Remove", [target |-> Bytes]) @@
    "v1-reaction" :> As("Reaction", [target |-> Bytes, emoji |-> Text, add |-> Flag]) @@
    "v1-read" :> As("Read", [up_to |-> Bytes]) @@
    "v1-delivered" :> As("Delivered", [up_to |-> Bytes]) @@
    "v1-media" :> As("Media", parse_media)

ratchet_read ==
    "v1-advertise" :> As("Advertise", [encaps_pk |-> Bytes]) @@
    "v1-wrap" :> As("Wrap", [kem_ct |-> Bytes]) @@
    "v1-ack" :> As("Ack", [ratchet_ack |-> Bytes]) @@
    "v1-name" :> As("Name", [name |-> Text]) @@
    "v1-photo" :> As("Photo", [profile_pic |-> Opt(Bytes)]) @@
    "v1-prefs" :> As("Prefs", parse_prefs)

parse_group_invite ==
    [group_id |-> Bytes, owner_signing_pk |-> Bytes, persistents |-> List(Obj("Durable")),
     ephemerals |-> List(Obj("Ephemeral")), name |-> Text, photo |-> Opt(Bytes),
     invitee_signing_pk |-> Bytes, group_secret_ct |-> Bytes]

parse_roster == [epoch |-> Number, members |-> List(Obj("Member")), sig |-> Bytes]

group_read ==
    "v1-group-invite" :> As("GroupInvite", parse_group_invite) @@
    "v1-group-accept" :> As("GroupAccept", [group_id |-> Bytes]) @@
    "v1-group-reject" :> As("GroupReject", [group_id |-> Bytes]) @@
    "v1-group-roster" :> As("GroupRoster", parse_roster) @@
    "v1-group-wrap" :> As("GroupWrap", [to |-> Bytes, from |-> Bytes, kem_ct |-> Bytes]) @@
    "v1-group-leave" :> As("GroupLeave", <<>>) @@
    "v1-group-kick" :> As("GroupKick", [signing_pk |-> Bytes])

engine_read ==
    LET ids == [user_id |-> Bytes, identity_id |-> Bytes]
    IN  "v1-engine-init" :> As("EngineInit", <<>>) @@
        "v1-engine-set-defaults" :> As("EngineSetDefaults", [defaults |-> Obj("Defaults")]) @@
        "v1-engine-create-user" :> As("EngineCreateUser", [user_id |-> Bytes]) @@
        "v1-engine-create-identity" :> As("EngineCreateIdentity",
            ids @@ [policy |-> Text, encryption |-> Obj("KeyPair"), signing |-> Obj("KeyPair")]) @@
        "v1-engine-delete-user" :> As("EngineDeleteUser", [user_id |-> Bytes]) @@
        "v1-engine-delete-identity" :> As("EngineDeleteIdentity", ids) @@
        "v1-engine-set-display-name" :> As("EngineSetDisplayName", ids @@ [name |-> Text]) @@
        "v1-engine-unset-display-name" :> As("EngineUnsetDisplayName", ids) @@
        "v1-engine-set-profile-pic" :> As("EngineSetProfilePic", ids @@ [profile_pic |-> Opt(Bytes)]) @@
        "v1-engine-set-device-name" :> As("EngineSetDeviceName", [name |-> Text]) @@
        "v1-engine-kick-device" :> As("EngineKickDevice", [device_id |-> Bytes])

payload_read == handshake_read @@ chat_read @@ ratchet_read @@ group_read @@ engine_read

-----------------------------------------------------------------------------
(* Packets *)

\* The members of packet_to_json after type and version.
packet_written ==
    LET from == [actor_id |-> Bytes, packet_seq |-> Number]
        frag == from @@ [tx_id |-> Bytes, frag_i |-> Number, frag |-> Bytes]
        range == from @@ [lo |-> Bytes, hi |-> Bytes]
        signal == from @@ [conversation_id |-> Bytes]
    IN  [TxFragMore |-> frag, TxFragLast |-> frag @@ [set_xor |-> Bytes],
         XorAck |-> from @@ [set_xor |-> Bytes],
         HealHalfXor |-> range @@ [xor |-> Bytes],
         HealWant |-> range @@ [ids |-> List(Bytes)], HealHave |-> range @@ [ids |-> List(Bytes)],
         Typing |-> signal @@ [composing |-> Flag],
         TypingActive |-> signal @@ [last_active |-> Number, composing |-> Flag],
         Presence |-> signal, PresenceActive |-> signal @@ [last_active |-> Number]]

packet_type ==
    [TxFragMore |-> "v1-packet-tx-frag-more", TxFragLast |-> "v1-packet-tx-frag-last",
     XorAck |-> "v1-packet-xor-ack", HealHalfXor |-> "v1-packet-heal-half-xor",
     HealWant |-> "v1-packet-heal-want", HealHave |-> "v1-packet-heal-have",
     Typing |-> "v1-packet-typing", TypingActive |-> "v1-packet-typing-active",
     Presence |-> "v1-packet-presence", PresenceActive |-> "v1-packet-presence-active"]

frag_read ==
    LET from == [actor_id |-> Bytes, packet_seq |-> Number]
        frag == from @@ [tx_id |-> Bytes, frag_i |-> Number, frag |-> Bytes]
        range == from @@ [lo |-> Bytes, hi |-> Bytes]
    IN  "v1-packet-tx-frag-more" :> As("TxFragMore", frag) @@
        "v1-packet-tx-frag-last" :> As("TxFragLast", frag @@ [set_xor |-> Bytes]) @@
        "v1-packet-xor-ack" :> As("XorAck", from @@ [set_xor |-> Bytes]) @@
        "v1-packet-heal-half-xor" :> As("HealHalfXor", range @@ [xor |-> Bytes]) @@
        "v1-packet-heal-want" :> As("HealWant", range @@ [ids |-> List(Bytes)]) @@
        "v1-packet-heal-have" :> As("HealHave", range @@ [ids |-> List(Bytes)])

signal_read ==
    LET signal == [actor_id |-> Bytes, packet_seq |-> Number, conversation_id |-> Bytes]
    IN  "v1-packet-typing" :> As("Typing", signal @@ [composing |-> Flag]) @@
        "v1-packet-typing-active" :>
            As("TypingActive", signal @@ [last_active |-> Number, composing |-> Flag]) @@
        "v1-packet-presence" :> As("Presence", signal) @@
        "v1-packet-presence-active" :> As("PresenceActive", signal @@ [last_active |-> Number])

packet_read == frag_read @@ signal_read

-----------------------------------------------------------------------------
(* The objects of a snapshot *)

Loose(f) == [f EXCEPT !.rep = "loose"]   \* a list that may be left out
Dflt(f)  == [f EXCEPT !.rep = "dflt"]    \* left out, a default stands for it
Unsaved(f) == [f EXCEPT !.rep = "unsaved"]   \* an Option that is not written, and read as None
Fixed(f, v) == [f EXCEPT !.rep = "fixed", !.of = v]   \* read as v, whatever was written

\* chain_to_json and chains_json; established rows add ratchet_json.
chain_written ==
    [Chain |-> [conversation_id |-> Bytes, actor_id |-> Bytes, actor_role |-> Text, root |-> Bytes,
                c |-> Bytes, epoch |-> Number, packet_seq |-> Number]]

cached_written ==
    [Mk      |-> [mk |-> Bytes, expires_at |-> Number, tx_id |-> Opt(Bytes)],
     Skipped |-> [actor_id |-> Bytes, actor_role |-> Text, mks |-> List(Obj("Mk"))],
     LastAck |-> [actor_id |-> Bytes, actor_role |-> Text, tx_ids |-> List(Bytes)]]

chains_json ==
    [chains |-> List(Obj("Chain")), recv_chains |-> List(Obj("Chain")),
     skipped_mks |-> List(Obj("Skipped")), last_acks |-> List(Obj("LastAck"))]

ratchet_json ==
    [Ratchet  |-> [since |-> Number, minted |-> List(Bytes), unused |-> List(Obj("UnusedSk")),
                   known |-> List(Obj("KnownShared"))],
     UnusedSk |-> [tx_id |-> Bytes, pk |-> Bytes, sk |-> Bytes],
     KnownShared |-> [wrap_tx |-> Bytes, shared |-> Bytes, ct_hash |-> Bytes, from_us |-> Flag,
                      encaps_pk |-> Bytes]]

\* chain_from_json, parse_chains, parse_ratchet.
chain_read ==
    [Chain |-> [conversation_id |-> Bytes, actor_id |-> Bytes, actor_role |-> Dflt(Text), root |-> Bytes,
                c |-> Bytes, epoch |-> Number, packet_seq |-> Number]]

cached_read ==
    [Mk      |-> [mk |-> Bytes, expires_at |-> Number, tx_id |-> Omit(Bytes)],
     Skipped |-> [actor_id |-> Bytes, actor_role |-> Dflt(Text), mks |-> List(Obj("Mk"))],
     LastAck |-> [actor_id |-> Bytes, actor_role |-> Dflt(Text), tx_ids |-> List(Bytes)]]

parse_chains ==
    [chains |-> Loose(Obj("Chain")), recv_chains |-> Loose(Obj("Chain")),
     skipped_mks |-> Loose(Obj("Skipped")), last_acks |-> Loose(Obj("LastAck"))]

parse_ratchet ==
    [Ratchet  |-> [since |-> Number, minted |-> List(Bytes), unused |-> List(Obj("UnusedSk")),
                   known |-> List(Obj("KnownShared"))],
     UnusedSk |-> [tx_id |-> Bytes, pk |-> Bytes, sk |-> Bytes],
     KnownShared |-> [wrap_tx |-> Bytes, shared |-> Bytes, ct_hash |-> Bytes, from_us |-> Flag,
                      encaps_pk |-> Bytes]]

\* phase_json; failure_json adds what a reason carries.
phase_written ==
    [Phase   |-> [role |-> Text, phase |-> Text, ticket |-> Obj("Ticket"), list_from |-> Number,
                  intake |-> Omit(Obj("KeyPair")), policy |-> Omit(Text),
                  shared_inviter |-> Omit(Bytes), shared_invitee |-> Omit(Bytes),
                  failure |-> Omit(Obj("Failure"))],
     Failure |-> [reason |-> Text, policy |-> Omit(Text), expires |-> Omit(Number)]]

\* The members that the phases of an inviter and of an invitee carry.
inviter_json ==
    "invite-created" :> {"intake"} @@
    "notice-pinned" :> {"intake"} @@
    "introduction-minted" :> {"intake", "shared_inviter", "shared_invitee"} @@
    "confirming" :> {"intake", "shared_inviter", "shared_invitee"} @@
    "failed" :> {"failure"}

invitee_json ==
    "ticket-received" :> {} @@
    "invite-received" :> {"policy"} @@
    "introduction-minted" :> {"policy", "intake", "shared_inviter"} @@
    "introduction-sent" :> {"policy", "intake", "shared_inviter"} @@
    "confirming" :> {"policy", "intake", "shared_inviter", "shared_invitee"} @@
    "failed" :> {"failure"}

\* Which of them parse_role_phase requires and keeps.
parse_role_phase ==
    [inviter |-> "invite-created" :> {"intake"} @@
                 "notice-pinned" :> {"intake"} @@
                 "introduction-minted" :> {"intake", "shared_inviter", "shared_invitee"} @@
                 "confirming" :> {"intake", "shared_inviter", "shared_invitee"} @@
                 "failed" :> {"failure"},
     invitee |-> "ticket-received" :> {} @@
                 "invite-received" :> {"policy"} @@
                 "introduction-minted" :> {"policy", "intake", "shared_inviter"} @@
                 "introduction-sent" :> {"policy", "intake", "shared_inviter"} @@
                 "confirming" :> {"policy", "intake", "shared_inviter", "shared_invitee"} @@
                 "failed" :> {"failure"}]

\* failure_json: a refused policy and an expired invite name what was refused.
failure_json(reason) ==
    CASE reason = "PolicyNotAccepted" -> {"policy"}
      [] reason = "InviteExpired" -> {"expires"}
      [] OTHER -> {}

\* parse_failure: the same, required.
parse_failure(reason) ==
    CASE reason = "PolicyNotAccepted" -> {"policy"}
      [] reason = "InviteExpired" -> {"expires"}
      [] OTHER -> {}

Reasons == {"PolicyNotAccepted", "InviteExpired", "NoticeUnlockFailed", "NoticeConflict", "IntroUnlockFailed",
            "IntroVerifyFailed", "DuplicateIntro", "ConfirmationRejected", "Equivocation"}

\* GroupEnd
GroupEnds == {"OfferRejected", "Kicked", "Left"}

\* group_json: an offer is written without its photo, a failed group with
\* nothing but its reason.
group_json ==
    [LiveGroup |-> [secret |-> Bytes, name |-> Text, owner |-> Bytes, epoch |-> Number,
                    photo |-> Opt(Bytes), persistents |-> List(Obj("Durable")),
                    ephemerals |-> List(Obj("Ephemeral")), members |-> List(Obj("Listed")),
                    pending |-> List(Obj("Pending"))],
     GroupOffer  |-> [offer |-> Flag, secret |-> Bytes, name |-> Text, owner |-> Bytes, from |-> Bytes,
                     photo |-> Unsaved(Bytes)],
     GroupFailed |-> [failed |-> Text]]

member_json ==
    [Listed  |-> [signing_pk |-> Bytes, encryption_pk |-> Bytes, send_tag_key |-> Bytes,
                  eph_send_tag_key |-> Bytes],
     Pending |-> [signing_pk |-> Bytes, encryption_pk |-> Bytes, from |-> Bytes, name |-> Text,
                  photo |-> Opt(Bytes)]]

\* parse_group takes whatever ended a group for Left.
parse_group ==
    [LiveGroup |-> [secret |-> Bytes, name |-> Text, owner |-> Bytes, epoch |-> Number,
                    photo |-> Omit(Bytes), persistents |-> Loose(Obj("Durable")),
                    ephemerals |-> Loose(Obj("Ephemeral")), members |-> Loose(Obj("Listed")),
                    pending |-> Loose(Obj("Pending"))],
     GroupOffer  |-> [offer |-> Flag, secret |-> Bytes, name |-> Text, owner |-> Bytes, from |-> Bytes,
                     photo |-> Unsaved(Bytes)],
     GroupFailed |-> [failed |-> Fixed(Text, "Left")]]

parse_members ==
    [Listed  |-> [signing_pk |-> Bytes, encryption_pk |-> Bytes, send_tag_key |-> Bytes,
                  eph_send_tag_key |-> Bytes],
     Pending |-> [signing_pk |-> Bytes, encryption_pk |-> Bytes, from |-> Bytes, name |-> Text,
                  photo |-> Omit(Bytes)]]

\* identity_conv_json with identity_chain_json, device_conv_json with
\* device_chain_json: a row is told by the member that its kind has.
identity_conv_json ==
    LET row == [conversation_id |-> Bytes]
        live == chains_json @@ [ratchet |-> Obj("Ratchet")]
    IN  [DmHandshake   |-> row @@ [handshake |-> Obj("Phase")] @@ chains_json,
         DirectMessage |-> row @@ [direct_message |-> Obj("Dm")] @@ live,
         LiveGroup     |-> row @@ [group |-> Obj("LiveGroup")] @@ live,
         GroupOffer    |-> row @@ [group |-> Obj("GroupOffer")],
         GroupFailed   |-> row @@ [group |-> Obj("GroupFailed")]]

device_conv_json ==
    [SyncHandshake   |-> [conversation_id |-> Bytes, handshake |-> Obj("Phase")] @@ chains_json,
     Synchronization |-> [conversation_id |-> Bytes, synchronization |-> Obj("Sync")] @@ chains_json @@
                         [ratchet |-> Obj("Ratchet")]]

secrets_json ==
    [Dm |-> [secret |-> Bytes, parent |-> Bytes], Sync |-> [secret |-> Bytes, parent |-> Bytes, peer |-> Bytes]]

\* What is read of the rows of an identity and of the device.
identity_rows_read ==
    LET row == [conversation_id |-> Bytes]
        live == parse_chains @@ [ratchet |-> Dflt(Obj("Ratchet"))]
    IN  [DmHandshake   |-> row @@ [handshake |-> Obj("Phase")] @@ parse_chains,
         DirectMessage |-> row @@ [direct_message |-> Obj("Dm")] @@ live,
         LiveGroup     |-> row @@ [group |-> Obj("LiveGroup")] @@ live,
         GroupOffer    |-> row @@ [group |-> Obj("GroupOffer")],
         GroupFailed   |-> row @@ [group |-> Obj("GroupFailed")]]

device_rows_read ==
    LET row == [conversation_id |-> Bytes]
    IN  [SyncHandshake   |-> row @@ [handshake |-> Obj("Phase")] @@ parse_chains,
         Synchronization |-> row @@ [synchronization |-> Obj("Sync")] @@ parse_chains @@
                             [ratchet |-> Dflt(Obj("Ratchet"))]]

\* parse_identity_conv and parse_device_conv: the kinds that a document is
\* taken for, by the first of these members that it has; none is an error.
parse_identity_conv(doc) ==
    IF "handshake" \in DOMAIN doc THEN {"DmHandshake"}
    ELSE IF "direct_message" \in DOMAIN doc THEN {"DirectMessage"}
    ELSE IF "group" \notin DOMAIN doc THEN {}
    ELSE IF "failed" \in DOMAIN doc.group.val THEN {"GroupFailed"}
    ELSE IF "offer" \in DOMAIN doc.group.val THEN {"GroupOffer"}
    ELSE {"LiveGroup"}

parse_device_conv(doc) ==
    IF "handshake" \in DOMAIN doc THEN {"SyncHandshake"}
    ELSE IF "synchronization" \in DOMAIN doc THEN {"Synchronization"}
    ELSE {}

\* users_json and device_json with keys_json.
users_json ==
    [User     |-> [user_id |-> Bytes, identities |-> List(Obj("Identity"))],
     Identity |-> [identity_id |-> Bytes, name |-> Opt(Text), pic |-> Opt(Bytes),
                   conversations |-> List(Obj("DmRow"))]]

device_json ==
    [Device     |-> [name |-> Opt(Text), keys |-> Opt(Obj("DeviceKeys")), dek_ct |-> Omit(Bytes),
                     conversations |-> List(Obj("SyncRow"))],
     DeviceKeys |-> [id |-> Bytes, enc |-> Obj("KeyPair"), sign |-> Obj("KeyPair")]]

install_users ==
    [User     |-> [user_id |-> Bytes, identities |-> List(Obj("Identity"))],
     Identity |-> [identity_id |-> Bytes, name |-> Opt(Text), pic |-> Opt(Bytes),
                   conversations |-> List(Obj("DmRow"))]]

install_device ==
    [Device     |-> [name |-> Opt(Text), keys |-> Opt(Obj("DeviceKeys")), dek_ct |-> Omit(Bytes),
                     conversations |-> List(Obj("SyncRow"))],
     DeviceKeys |-> [id |-> Bytes, enc |-> Obj("KeyPair"), sign |-> Obj("KeyPair")]]

\* The fragments, bins and persist_log of fold and of apply_folded.
frags_written ==
    [Frags |-> [tx_id |-> Bytes, conversation_id |-> Bytes, last_i |-> Opt(Number), parts |-> List(Obj("Part"))],
     Part  |-> [i |-> Number, frag |-> Bytes]]

bins_written ==
    [Progress |-> [channel |-> Obj("Durable"), tag_key |-> Bytes, watermark |-> Opt(Number),
                   completed |-> List(Number)],
     Seq      |-> [seq |-> Number, tx_id |-> Bytes]]

\* Mutant: a set whose last fragment has not arrived is not accepted.
frags_read_last ==
    [Frags |-> [tx_id |-> Bytes, conversation_id |-> Bytes, last_i |-> Number, parts |-> List(Obj("Part"))],
     Part  |-> [i |-> Number, frag |-> Bytes]]

frags_read ==
    [Frags |-> [tx_id |-> Bytes, conversation_id |-> Bytes, last_i |-> Omit(Number), parts |-> List(Obj("Part"))],
     Part  |-> [i |-> Number, frag |-> Bytes]]

bins_read ==
    [Progress |-> [channel |-> Obj("Durable"), tag_key |-> Bytes, watermark |-> Opt(Number),
                   completed |-> List(Number)],
     Seq      |-> [seq |-> Number, tx_id |-> Bytes]]

-----------------------------------------------------------------------------
(* Writing and reading an object *)

KeyPairWritten == [KeyPair |-> [pk |-> Bytes, sk |-> Bytes]]

payload_objects_written ==
    channel_written @@ hlc_written @@ ticket_written @@ prefs_written @@ member_written @@ KeyPairWritten

objects_written ==
    payload_objects_written @@ chain_written @@ cached_written @@ ratchet_json @@ phase_written @@
    group_json @@ member_json @@ secrets_json @@ users_json @@ device_json @@ frags_written @@ bins_written @@
    [DmRow |-> identity_conv_json.DirectMessage, SyncRow |-> device_conv_json.Synchronization]

payload_objects_read ==
    channel_read @@ hlc_read @@ ticket_read @@
    [Prefs |-> parse_prefs, Wake |-> parse_wake, Defaults |-> parse_defaults,
     KeyPair |-> parse_keypair, Member |-> parse_member]

\* parse_role_phase and parse_failure look at every member of phase_json.
objects_read ==
    payload_objects_read @@ chain_read @@ cached_read @@ parse_ratchet @@ phase_written @@
    parse_group @@ parse_members @@ secrets_json @@ install_users @@ install_device @@ frags_read @@ bins_read @@
    [DmRow |-> identity_rows_read.DirectMessage, SyncRow |-> device_rows_read.Synchronization]

\* The values of an object: n = 0 leaves every Option and list empty, n > 0
\* fills them with values of n - 1.
fill(table, n, Nested(_, _)) ==
    LET inner(k) == IF table[k].of = "" THEN k ELSE Nested(IF n = 0 THEN 0 ELSE n - 1, table[k].of)
    IN  [k \in DOMAIN table |->
            IF table[k].rep = "one" THEN inner(k)
            ELSE IF n = 0 /\ k # "persistents" THEN <<>> ELSE <<inner(k)>>]

variant[n \in 0 .. 3, o \in DOMAIN objects_written] ==
    fill(objects_written[o], n, LAMBDA m, p : variant[m, p])

value(table, n) == fill(table, n, LAMBDA m, p : variant[m, p])

Null == [json |-> "null", val |-> ""]

RECURSIVE write(_, _), read(_, _)

\* The members of the table, with the objects nested in them.
write(table, rec) ==
    LET inner(k, v) == IF table[k].of = "" THEN v ELSE write(objects_written[table[k].of], v)
        json(k) == CASE table[k].rep = "one" -> [json |-> table[k].json, val |-> inner(k, rec[k])]
                     [] table[k].rep = "list" ->
                            [json |-> "array", val |-> [i \in DOMAIN rec[k] |-> inner(k, rec[k][i])]]
                     [] OTHER -> IF rec[k] = <<>> THEN Null
                                 ELSE [json |-> table[k].json, val |-> inner(k, rec[k][1])]
        left_out(k) == table[k].rep = "unsaved" \/ (table[k].rep = "omit" /\ rec[k] = <<>>)
    IN  [k \in {m \in DOMAIN table : ~left_out(m)} |-> json(k)]

object_json(o, v) == write(objects_written[o], v)

\* extra_ok: a member that the table does not have is refused.
extra_ok(table, doc) == DOMAIN doc \subseteq DOMAIN table

\* The set of what a document is read as: a value, or nothing if it is
\* refused.  get, get_str, get_u64, get_bool and get_bstr want a member of the
\* right form; parse_opt_* accept null; field and optional of a snapshot are
\* get and, where None may be left out, a look-up.  Objects of payloads refuse
\* unknown members, those of a snapshot do not.
read(table, doc) ==
    LET parse(k, v) ==
            IF table[k].of = "" THEN {v}
            ELSE IF table[k].of \in DOMAIN payload_objects_read /\ ~extra_ok(objects_read[table[k].of], v) THEN {}
            ELSE read(objects_read[table[k].of], v)
        one(k, j) == IF j.json = table[k].json THEN parse(k, j.val) ELSE {}
        many(k, j) ==
            IF j.json # "array" \/ \E i \in DOMAIN j.val : parse(k, j.val[i]) = {} THEN {}
            ELSE {[i \in DOMAIN j.val |-> CHOOSE v \in parse(k, j.val[i]) : TRUE]}
        member(k) ==
            IF table[k].rep = "unsaved" THEN {<<>>}
            ELSE IF k \notin DOMAIN doc
            THEN CASE table[k].rep \in {"omit", "loose"} -> {<<>>}
                   [] table[k].rep = "dflt" -> {"default"}
                   [] OTHER -> {}
            ELSE CASE table[k].rep \in {"one", "dflt"} -> one(k, doc[k])
                   [] table[k].rep = "fixed" -> {table[k].of}
                   [] table[k].rep \in {"list", "loose"} -> many(k, doc[k])
                   [] OTHER -> IF doc[k] = Null THEN {<<>>} ELSE {<<v>> : v \in one(k, doc[k])}
    IN  IF \E k \in DOMAIN table : member(k) = {} THEN {}
        ELSE {[k \in DOMAIN table |-> CHOOSE v \in member(k) : TRUE]}

strict_read(table, doc) == IF extra_ok(table, doc) THEN read(table, doc) ELSE {}

\* An object by itself.
parse_object(o, doc) ==
    IF o \in DOMAIN payload_objects_read THEN strict_read(objects_read[o], doc)
    ELSE read(objects_read[o], doc)

-----------------------------------------------------------------------------
(* Payloads, packets, rows and phases *)

Payloads == [type : DOMAIN payload_type, n : 0 .. 3]
Packets  == [type : DOMAIN packet_type, n : 0 .. 1]

\* payload_to_json: the member type and the members of the variant.
payload_to_json(p) ==
    [type |-> payload_type[p.type],
     members |-> write(payload_written[p.type], value(payload_written[p.type], p.n))]

\* payload_from_json.
payload_from_json(doc) ==
    IF doc.type \notin DOMAIN payload_read THEN {}
    ELSE LET t == payload_read[doc.type]
         IN  {[type |-> t.variant, value |-> v] : v \in strict_read(t.members, doc.members)}

packet_to_json(p) ==
    [type |-> packet_type[p.type],
     members |-> write(packet_written[p.type], value(packet_written[p.type], p.n))]

packet_from_json(doc) ==
    IF doc.type \notin DOMAIN packet_read THEN {}
    ELSE LET t == packet_read[doc.type]
         IN  {[type |-> t.variant, value |-> v] : v \in strict_read(t.members, doc.members)}

row_written == identity_conv_json @@ device_conv_json

row_to_json(r) == write(row_written[r.kind], value(row_written[r.kind], r.n))

\* The row of a group that ended for reason e.
ended(e) == [conversation_id |-> "conversation_id", group |-> [failed |-> e]]

\* What is read of a row: its kind and its value.
row_from_json(place, doc) ==
    LET kinds == IF place = "device" THEN parse_device_conv(doc) ELSE parse_identity_conv(doc)
        tables == identity_rows_read @@ device_rows_read
    IN  UNION {{[kind |-> k, value |-> v] : v \in read(tables[k], doc)} : k \in kinds}

\* The members of a phase besides its ticket and list_from.
has(role, phase) == IF role = "inviter" THEN inviter_json[phase] ELSE invitee_json[phase]

\* A party: its role, its phase, what the phase carries, the reason of a failed one.
Parties ==
    {[role |-> r, phase |-> f, has |-> has(r, f), reason |-> ""] : <<r, f>> \in
        ({"inviter"} \X (DOMAIN inviter_json \ {"failed"})) \cup
        ({"invitee"} \X (DOMAIN invitee_json \ {"failed"}))} \cup
    [role : {"inviter", "invitee"}, phase : {"failed"}, has : {{"failure"}}, reason : Reasons]

\* inviter_json and invitee_json by phase_json: the Options that the phase has.
party_json(p) ==
    LET full == value(objects_written["Phase"], 2)
        failure == [reason |-> p.reason,
                    policy |-> IF "policy" \in failure_json(p.reason) THEN <<"policy">> ELSE <<>>,
                    expires |-> IF "expires" \in failure_json(p.reason) THEN <<"expires">> ELSE <<>>]
        rec == [k \in DOMAIN full |->
                    CASE k = "role" -> p.role
                      [] k = "phase" -> p.phase
                      [] k = "failure" -> IF k \in p.has THEN <<failure>> ELSE <<>>
                      [] k \in {"intake", "policy", "shared_inviter", "shared_invitee"} ->
                            IF k \in p.has THEN full[k] ELSE <<>>
                      [] OTHER -> full[k]]
    IN  object_json("Phase", rec)

\* parse_role_phase: the party, if the members that its phase requires are there.
party_from_json(doc) ==
    {[role |-> v.role, phase |-> v.phase, has |-> parse_role_phase[v.role][v.phase],
      reason |-> IF v.phase = "failed" THEN v.failure[1].reason ELSE ""] :
        v \in {w \in parse_object("Phase", doc) :
                /\ w.role \in DOMAIN parse_role_phase
                /\ w.phase \in DOMAIN parse_role_phase[w.role]
                /\ \A k \in parse_role_phase[w.role][w.phase] : w[k] # <<>>
                /\ w.failure # <<>> =>
                    /\ w.failure[1].reason \in Reasons
                    /\ \A k \in parse_failure(w.failure[1].reason) : w.failure[1][k] # <<>>}}
=============================================================================
