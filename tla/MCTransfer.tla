----------------------------- MODULE MCTransfer -----------------------------
(* Transfer for TLC: the payload types and the JSON of a body are those of   *)
(* Wire; for the other constants see MCTransfer.cfg.                         *)
EXTENDS Transfer

MCPayloadTypes == DOMAIN payload_type

\* DmHandshakeTx, SyncHandshakeTx.
MCHandshakeTypes == DOMAIN handshake_written

MCdurable_body(p, h) == durable_body_from_json(durable_body_to_json(p, h))
=============================================================================
