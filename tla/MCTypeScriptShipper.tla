------------------------ MODULE MCTypeScriptShipper ------------------------
(* Instances of TypeScriptShipper for TLC. *)
EXTENDS TypeScriptShipper

CONSTANTS x1, f1

\* The second event of x1 has a payload that is not JSON.
Bad == {<<x1, 2>>}

\* The third is longer than the backend takes.
Long == {<<x1, 3>>}
=============================================================================
