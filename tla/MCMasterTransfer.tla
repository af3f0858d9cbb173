-------------------------- MODULE MCMasterTransfer --------------------------
(* An owner, a bystander, and a successor for each of two transfers. *)
EXTENDS MasterTransfer, TLC

CONSTANTS new1, new2

TwoSuccessors == (1 :> new1) @@ (2 :> new2)
=============================================================================
