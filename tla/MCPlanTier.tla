------------------------------- MODULE MCPlanTier -------------------------------
(* Instances of PlanTier for TLC. *)
EXTENDS PlanTier

CONSTANTS w1, w2
=============================================================================
