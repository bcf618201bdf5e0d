--------------------------- MODULE MCWebhookDispatch ---------------------------
(* Instances of WebhookDispatch for TLC. *)
EXTENDS WebhookDispatch, TLC

CONSTANTS d1, d2

MixedModes == <<"every_event", "throttled">>

Symmetry == Permutations(Dispatches)
=============================================================================
