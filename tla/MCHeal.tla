------------------------------- MODULE MCHeal -------------------------------
(* TLC instance of Heal. *)
EXTENDS Heal
=============================================================================
