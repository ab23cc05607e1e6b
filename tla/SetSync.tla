------------------------------ MODULE SetSync ------------------------------
(***************************************************************************)
(* What the set-XOR search promises: two parties hold sets of transaction  *)
(* ids; a party gets an id by minting it or from the other party, never    *)
(* loses one, and as long as the sets differ one of them still grows.      *)
(***************************************************************************)
CONSTANTS Parties, Ids

VARIABLE have  \* have[p]: the ids of the transactions p holds

Init == have \in [Parties -> SUBSET Ids]

Everywhere == UNION {have[p] : p \in Parties}

\* p mints a transaction nobody has.
Mint(p, id) ==
    /\ id \in Ids \ Everywhere
    /\ have' = [have EXCEPT ![p] = @ \cup {id}]

\* p gets a transaction that somebody has.
Copy(p, id) ==
    /\ id \in Everywhere \ have[p]
    /\ have' = [have EXCEPT ![p] = @ \cup {id}]

Copies == \E p \in Parties, id \in Ids : Copy(p, id)

Next == Copies \/ \E p \in Parties, id \in Ids : Mint(p, id)

Spec == Init /\ [][Next]_have

Agree == \A p, q \in Parties : have[p] = have[q]
=============================================================================
