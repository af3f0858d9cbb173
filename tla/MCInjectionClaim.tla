-------------------------- MODULE MCInjectionClaim --------------------------
(* InjectionClaim with one channel in each process.                         *)
EXTENDS InjectionClaim

ProcessEach == [h \in Holders |-> h]
=============================================================================
