----------------------------- MODULE MCEventShipper -----------------------------
(* Instances of EventShipper for TLC. *)
EXTENDS EventShipper, TLC

CONSTANTS x1, f1, f2

\* The second event of x1 is a checkpoint with a payload that is not JSON.
Bad == {<<x1, 2>>}

\* The third is longer than the backend takes.
Long == {<<x1, 3>>}
=============================================================================
