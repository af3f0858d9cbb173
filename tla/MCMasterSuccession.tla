------------------------- MODULE MCMasterSuccession -------------------------
(* Two sessions that own the master in turn, and the host. *)
EXTENDS MasterSuccession
=============================================================================
