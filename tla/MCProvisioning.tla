--------------------------- MODULE MCProvisioning ---------------------------
(* Small instances of Provisioning: the burn-in user is on the allow list. *)
EXTENDS Provisioning

MCAllowList == {BurnIn}
=============================================================================
