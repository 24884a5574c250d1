------------------------------ MODULE Numbering ------------------------------
(***************************************************************************)
(* Identifiers numbered in the order they are issued: the latest of some,  *)
(* and the position of one among others, by which one transaction numbers  *)
(* the several Revisions it creates.                                       *)
(***************************************************************************)
EXTENDS Naturals, FiniteSets

Latest(S) == CHOOSE r \in S : \A s \in S : s <= r

Rank(S, x) == Cardinality({y \in S : y < x})
=============================================================================
