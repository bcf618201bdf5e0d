----------------------------- MODULE MCHobbyBilling -----------------------------
(* Instances of HobbyBilling for TLC. *)
EXTENDS HobbyBilling, TLC

CONSTANTS s1, s2, r1, g1

Symmetry == Permutations(Schedulers)
=============================================================================
