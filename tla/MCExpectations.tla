--------------------------- MODULE MCExpectations ---------------------------
(* Two processes, two replies. *)
EXTENDS Expectations
=============================================================================
