------------------------------ MODULE MCTimers ------------------------------
(* Two main sessions of one directory and a tab. *)
EXTENDS Timers
=============================================================================
