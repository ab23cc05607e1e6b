---------------------------- MODULE MCBinProgress ----------------------------
(* TLC instances of BinProgress. *)
EXTENDS BinProgress

\* States that differ only in a snapshot no reload is left to read are one.
UnreadSnapshot ==
    <<w, row, watermark, completed, store, fetched, ingested, crashes, listed,
      late, omitted, swallowed, IF crashes < MaxCrashes THEN <<saved>> ELSE <<>>>>
=============================================================================
