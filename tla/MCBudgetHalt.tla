------------------------------ MODULE MCBudgetHalt ------------------------------
(* Instances of BudgetHalt for TLC. *)
EXTENDS BudgetHalt

CONSTANTS b1, b2, p1, p2, e1, e2
=============================================================================
