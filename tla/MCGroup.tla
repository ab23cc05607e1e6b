------------------------------ MODULE MCGroup ------------------------------
(* TLC instance of Group. *)
EXTENDS Group

\* The contacts are alike.
Symmetric == Permutations(Others)
=============================================================================
