------------------------ MODULE MCWebhookDeliveries -------------------------
(***************************************************************************)
(* Instances of WebhookDeliveries for TLC. No symmetry: the run checks     *)
(* liveness.                                                               *)
(***************************************************************************)
EXTENDS WebhookDeliveries
=============================================================================
