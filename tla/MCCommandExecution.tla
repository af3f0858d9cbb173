------------------------- MODULE MCCommandExecution -------------------------
(* CommandExecution with one key of each kind that the executor treats      *)
(* differently; resume differs from pause in its target only.               *)
EXTENDS CommandExecution, TLC

CONSTANTS pauseKey, autoKey, otherKey

ThreeKinds ==
  (pauseKey :> "pause") @@ (autoKey :> "auto") @@ (otherKey :> "other")
=============================================================================
