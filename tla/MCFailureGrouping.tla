--------------------------- MODULE MCFailureGrouping ---------------------------
(* Instances of FailureGrouping for TLC. *)
EXTENDS FailureGrouping, TLC

CONSTANTS e1, e2, g1, g2, c1, c2

\* Groups and slots are interchangeable.
Perms == Permutations(Groups) \union Permutations(Calls)
=============================================================================
