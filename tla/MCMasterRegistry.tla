-------------------------- MODULE MCMasterRegistry --------------------------
(* MasterRegistry on small instances. *)
EXTENDS MasterRegistry, TLC

SessionSymmetry == Permutations(Sessions)
=============================================================================
