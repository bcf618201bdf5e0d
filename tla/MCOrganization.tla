---------------------------- MODULE MCOrganization ----------------------------
(* Instances of Organization for TLC. *)
EXTENDS Organization, TLC

CONSTANTS owner, bob, i1, i2, k1, k2, k3, k4, q1, q2

Symmetry == Permutations(Requests) \union Permutations(Invites) \union Permutations(Keys)
=============================================================================
