--------------------------- MODULE MCProvisioning ---------------------------
(* Every kind of purchase, one at a time. *)
EXTENDS Provisioning

Kinds == {"worker", "coordinator", "ironclaw"}
=============================================================================
