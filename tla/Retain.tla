------------------------------- MODULE Retain -------------------------------
(***************************************************************************)
(* Vec::retain of the standard library: the elements at some positions of  *)
(* a sequence, in their order.                                             *)
(***************************************************************************)
EXTENDS Naturals, Sequences, FiniteSets

\* The number of positions of at up to i.
rank(at, i) == Cardinality({j \in at : j <= i})

\* The elements of s at the positions in at.
retain(s, at) == [k \in 1 .. Cardinality(at) |-> s[CHOOSE i \in at : rank(at, i) = k]]
=============================================================================
