---------------------------- MODULE MCLivePath ----------------------------
(* TLC instances of LivePath: MaxTxs transactions within MaxClock ticks, a    *)
(* fallback of two ticks and an owed ratchet transaction after two packets.  *)
EXTENDS LivePath
=============================================================================
