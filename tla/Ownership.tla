----------------------------- MODULE Ownership -----------------------------
(***************************************************************************)
(* What the master registry promises to everyone who reads an attachment:  *)
(* a logical agent has at most one owner, ownership is numbered, and every *)
(* change of hands - or re-attachment by the same session - takes exactly  *)
(* the next number.  A number, once given to a session, is never given to  *)
(* another, so "session and generation both match" is a sound fence.       *)
(***************************************************************************)
EXTENDS Naturals

CONSTANTS Sessions, NoSession

VARIABLES owner, generation

ownershipVars == <<owner, generation>>

OwnershipInit == owner = NoSession /\ generation = 0

\* The agent's first owner, or the next one.
TakeOwnership(s) ==
  /\ owner' = s
  /\ generation' = generation + 1

OwnershipNext == \E s \in Sessions : TakeOwnership(s)

OwnershipSpec == OwnershipInit /\ [][OwnershipNext]_ownershipVars
=============================================================================
