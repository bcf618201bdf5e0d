-------------------------- MODULE MCExecutionLifecycle --------------------------
(* Instances of ExecutionLifecycle for TLC. *)
EXTENDS ExecutionLifecycle, TLC

CONSTANTS r1, r2
=============================================================================
