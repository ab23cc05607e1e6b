------------------------------ MODULE MCTxLog ------------------------------
(* TLC instances of TxLog: a text that expires, a marker and preferences     *)
(* that end expiry, minted, ingested and minted again around folds and a     *)
(* reload.                                                                   *)
EXTENDS Chat

CONSTANTS x, a, p

MCDisappearAfter(n) == Never

MCHash(n) == CASE n = x -> 1 [] n = a -> 2 [] n = p -> 0
=============================================================================
