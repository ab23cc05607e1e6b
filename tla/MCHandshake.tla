----------------------------- MODULE MCHandshake -----------------------------
(* TLC instances of Handshake. *)
EXTENDS Handshake, TLC

\* Channels only carry packets, and the holders of a ticket are alike.
Symmetric == Permutations(Channels) \cup Permutations(Invitees)
=============================================================================
