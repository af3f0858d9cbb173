--------------------------- MODULE MCSessionOutbox ---------------------------
(* Two sessions and the host. *)
EXTENDS SessionOutbox
=============================================================================
