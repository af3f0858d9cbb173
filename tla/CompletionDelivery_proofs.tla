----------------------- MODULE CompletionDelivery_proofs -----------------------
(***************************************************************************)
(* What the injection claim promises, for every set of holders and every   *)
(* bound: its types; that the claim is exclusive until one is removed as   *)
(* stale; and, for the channels of one process, how often a message is     *)
(* injected, with crashes and failed writes.  Then the same for the two    *)
(* channels of a completion, and when its letter is acknowledged unread or *)
(* its receipt written for nothing.                                        *)
(*                                                                         *)
(* The parts about InjectionClaim use nothing that CompletionDelivery      *)
(* assumes.                                                                *)
(***************************************************************************)
EXTENDS CompletionDelivery, FiniteSetTheorems, TLAPS

USE InjectionAssumption DEF InjectionAssumption

\* The event bus may also confirm without an injection (BusNotify, BusSend).
Presume(h) ==
  /\ At(h, "sending")
  /\ Goto(h, "confirm")
  /\ refusals' \in 0 .. MaxRefusals
  /\ UNCHANGED <<claiming, receipt, attempts, verdict, delivered, lost, stolen>>
  /\ UNCHANGED <<raced, crashes, slow, faults>>

GateNext == InjectionNext \/ \E h \in Holders : Presume(h)

-----------------------------------------------------------------------------
(* Types *)

LEMMA TypeInit ==
  ASSUME InjectionInit
  PROVE  TypeOK
<1> USE DEF InjectionInit
<1>1. claiming \in Claims
  BY DEF Claims, NoClaim
<1>2. pc \in [Holders -> Labels] /\ verdict \in [Holders -> Verdicts]
  BY DEF Labels, Verdicts
<1>3. attempts \in [Holders -> 0 .. MaxAttempts - 1]
  <2>1. 0 \in 0 .. MaxAttempts - 1
    OBVIOUS
  <2> QED BY <2>1
<1>4. /\ crashes \in 0 .. MaxCrashes /\ refusals \in 0 .. MaxRefusals
      /\ slow \in 0 .. MaxSlow /\ faults \in 0 .. MaxFaults
  OBVIOUS
<1> QED BY <1>1, <1>2, <1>3, <1>4 DEF TypeOK

LEMMA TypeStep ==
  ASSUME TypeOK, [GateNext]_injectionVars
  PROVE  TypeOK'
<1> USE DEF TypeOK, Claims, NoClaim, Labels, Verdicts, Claiming, Confirming, Releasing,
            At, Goto, Return, Unseen
<1>1. ASSUME ClaimGrowsStale PROVE TypeOK'
  BY <1>1 DEF ClaimGrowsStale
<1>2. ASSUME NEW p \in Processes, Crash(p) PROVE TypeOK'
  BY <1>2 DEF Crash
<1>3. ASSUME NEW h \in Holders, BeginClaim(h) PROVE TypeOK'
  BY <1>3 DEF BeginClaim
<1>4. ASSUME NEW h \in Holders, CreateClaim(h) PROVE TypeOK'
  BY <1>4 DEF CreateClaim, Fault, Race
<1>5. ASSUME NEW h \in Holders, FillClaim(h) PROVE TypeOK'
  BY <1>5 DEF FillClaim, Fault
<1>6. ASSUME NEW h \in Holders, ReadClaim(h) PROVE TypeOK'
  BY <1>6 DEF ReadClaim, Readable, Retry
<1>7. ASSUME NEW h \in Holders, RecheckReceipt(h) PROVE TypeOK'
  BY <1>7 DEF RecheckReceipt
<1>8. ASSUME NEW h \in Holders, RereadClaim(h) PROVE TypeOK'
  BY <1>8 DEF RereadClaim, Readable, Retry
<1>9. ASSUME NEW h \in Holders, UnlinkStale(h) PROVE TypeOK'
  <2>1. pc' \in [Holders -> Labels] /\ attempts' \in [Holders -> 0 .. MaxAttempts - 1]
        /\ verdict' \in [Holders -> Verdicts]
    BY <1>9 DEF UnlinkStale, Retry
  <2>2. claiming' \in {claiming, NoClaim} /\ stolen' \in {stolen, TRUE}
    BY <1>9 DEF UnlinkStale, Fault
  <2>3. raced' \in Nat
    BY <1>9 DEF UnlinkStale, Race, Fault
  <2>4. faults' \in 0 .. MaxFaults
    BY <1>9 DEF UnlinkStale, Fault
  <2>5. UNCHANGED <<receipt, delivered, lost, crashes, refusals, slow>>
    BY <1>9 DEF UnlinkStale, Fault
  <2>6. NoClaim \in Claims
    OBVIOUS
  <2>7. claiming' \in Claims
    BY <2>2, <2>6
  <2>8. stolen' \in BOOLEAN
    BY <2>2
  <2> QED BY <2>1, <2>3, <2>4, <2>5, <2>7, <2>8
<1>10. ASSUME NEW h \in Holders, SendSucceeds(h) PROVE TypeOK'
  BY <1>10 DEF SendSucceeds
<1>11. ASSUME NEW h \in Holders, SendRefused(h) PROVE TypeOK'
  BY <1>11 DEF SendRefused
<1>12. ASSUME NEW h \in Holders, SendFails(h) PROVE TypeOK'
  BY <1>12 DEF SendFails
<1>13. ASSUME NEW h \in Holders, ReadOwnClaim(h) PROVE TypeOK'
  BY <1>13 DEF ReadOwnClaim
<1>14. ASSUME NEW h \in Holders, CreateReceipt(h) PROVE TypeOK'
  BY <1>14 DEF CreateReceipt, ReceiptFails, Fault
<1>15. ASSUME NEW h \in Holders, FillReceipt(h) PROVE TypeOK'
  BY <1>15 DEF FillReceipt, ReceiptFails, Fault
<1>16. ASSUME NEW h \in Holders, ClearClaim(h) PROVE TypeOK'
  BY <1>16 DEF ClearClaim, RemoveClaim, Fault
<1>17. ASSUME NEW h \in Holders, ReadReleased(h) PROVE TypeOK'
  BY <1>17 DEF ReadReleased
<1>18. ASSUME NEW h \in Holders, DropClaim(h) PROVE TypeOK'
  BY <1>18 DEF DropClaim, RemoveClaim, Fault
<1>19. ASSUME NEW h \in Holders, Presume(h) PROVE TypeOK'
  BY <1>19 DEF Presume
<1>20. CASE UNCHANGED injectionVars
  BY <1>20 DEF injectionVars
<1> QED BY <1>1, <1>2, <1>3, <1>4, <1>5, <1>6, <1>7, <1>8, <1>9, <1>10, <1>11, <1>12, <1>13,
      <1>14, <1>15, <1>16, <1>17, <1>18, <1>19, <1>20 DEF GateNext, InjectionNext, HolderStep,
      ClaimStep, SendStep, ConfirmStep, ReleaseStep

\* Type correctness of the claim: every file, label, counter and verdict stays in
\* its set, for any holders, processes and bounds.
THEOREM InjectionTypeOK == InjectionSpec => []TypeOK
<1>1. TypeOK /\ [InjectionNext]_injectionVars => TypeOK'
  BY TypeStep DEF GateNext
<1> QED BY TypeInit, <1>1, PTL DEF InjectionSpec

-----------------------------------------------------------------------------
(* The claim is exclusive *)

\* As long as no claim has been removed as stale, whoever is between winning the claim
\* and giving it up is the one that the file names.
HolderIsNamed ==
  ~stolen => \A h \in Holders : pc[h] \in Holding => claiming # NoClaim /\ claiming.by = h

LEMMA NamedStep ==
  ASSUME TypeOK, HolderIsNamed, [GateNext]_injectionVars
  PROVE  HolderIsNamed'
<1> USE DEF HolderIsNamed, Holding, Confirming, Releasing, TypeOK, Claims, NoClaim, At, Goto,
      Return, Unseen
<1>1. ASSUME ClaimGrowsStale PROVE HolderIsNamed'
  BY <1>1 DEF ClaimGrowsStale
<1>2. ASSUME NEW p \in Processes, Crash(p) PROVE HolderIsNamed'
  BY <1>2 DEF Crash
<1>3. ASSUME NEW h \in Holders, BeginClaim(h) PROVE HolderIsNamed'
  BY <1>3 DEF BeginClaim
<1>4. ASSUME NEW h \in Holders, CreateClaim(h) PROVE HolderIsNamed'
  BY <1>4 DEF CreateClaim, Fault, Race
<1>5. ASSUME NEW h \in Holders, FillClaim(h) PROVE HolderIsNamed'
  BY <1>5 DEF FillClaim, Fault
<1>6. ASSUME NEW h \in Holders, ReadClaim(h) PROVE HolderIsNamed'
  BY <1>6 DEF ReadClaim, Retry
<1>7. ASSUME NEW h \in Holders, RecheckReceipt(h) PROVE HolderIsNamed'
  BY <1>7 DEF RecheckReceipt
<1>8. ASSUME NEW h \in Holders, RereadClaim(h) PROVE HolderIsNamed'
  BY <1>8 DEF RereadClaim, Retry
<1>9. ASSUME NEW h \in Holders, UnlinkStale(h) PROVE HolderIsNamed'
  BY <1>9 DEF UnlinkStale, Fault, Race, Retry
<1>10. ASSUME NEW h \in Holders, SendSucceeds(h) PROVE HolderIsNamed'
  BY <1>10 DEF SendSucceeds
<1>11. ASSUME NEW h \in Holders, SendRefused(h) PROVE HolderIsNamed'
  BY <1>11 DEF SendRefused
<1>12. ASSUME NEW h \in Holders, SendFails(h) PROVE HolderIsNamed'
  BY <1>12 DEF SendFails
<1>13. ASSUME NEW h \in Holders, ReadOwnClaim(h) PROVE HolderIsNamed'
  BY <1>13 DEF ReadOwnClaim
<1>14. ASSUME NEW h \in Holders, CreateReceipt(h) PROVE HolderIsNamed'
  BY <1>14 DEF CreateReceipt, ReceiptFails, Fault
<1>15. ASSUME NEW h \in Holders, FillReceipt(h) PROVE HolderIsNamed'
  BY <1>15 DEF FillReceipt, ReceiptFails, Fault
<1>16. ASSUME NEW h \in Holders, ClearClaim(h) PROVE HolderIsNamed'
  BY <1>16 DEF ClearClaim, RemoveClaim, Fault
<1>17. ASSUME NEW h \in Holders, ReadReleased(h) PROVE HolderIsNamed'
  BY <1>17 DEF ReadReleased
<1>18. ASSUME NEW h \in Holders, DropClaim(h) PROVE HolderIsNamed'
  BY <1>18 DEF DropClaim, RemoveClaim, Fault
<1>19. ASSUME NEW h \in Holders, Presume(h) PROVE HolderIsNamed'
  BY <1>19 DEF Presume
<1>20. CASE UNCHANGED injectionVars
  BY <1>20 DEF injectionVars
<1> QED BY <1>1, <1>2, <1>3, <1>4, <1>5, <1>6, <1>7, <1>8, <1>9, <1>10, <1>11, <1>12, <1>13,
      <1>14, <1>15, <1>16, <1>17, <1>18, <1>19, <1>20 DEF GateNext, InjectionNext, HolderStep,
      ClaimStep, SendStep, ConfirmStep, ReleaseStep

\* Until some claim is taken over as stale, one holder at most is between winning the
\* claim and giving it up, for any number of channels, processes and crashes.
THEOREM InjectionClaimIsExclusive == InjectionSpec => []ClaimIsExclusive
<1>1. InjectionInit => HolderIsNamed
  BY DEF InjectionInit, HolderIsNamed, Holding, Confirming, Releasing
<1>2. TypeOK /\ HolderIsNamed /\ [InjectionNext]_injectionVars => HolderIsNamed'
  BY NamedStep DEF GateNext
<1>3. HolderIsNamed => ClaimIsExclusive
  BY DEF HolderIsNamed, ClaimIsExclusive
<1> QED BY InjectionTypeOK, <1>1, <1>2, <1>3, PTL DEF InjectionSpec

-----------------------------------------------------------------------------
(* The channels of one process: one call at a time *)

OneProcess == \A h, k \in Holders : ProcessOf[h] = ProcessOf[k]

\* In the middle of a synchronous call, and not awaiting its send.
Active(h) == pc[h] \notin {"idle", "sending"}

\* What the one call under way may rely on.
CallInv ==
  /\ claiming.state # "none" => claiming.by \in Holders
  /\ \A h, k \in Holders : Active(h) /\ Active(k) => h = k
  /\ \A h \in Holders :
       /\ pc[h] \in Claiming => receipt # "written"
       /\ pc[h] = "unlink" => claiming.state = "stale"
       /\ pc[h] = "fillReceipt" => receipt = "torn"
       /\ pc[h] = "clear" => receipt = "written"
       /\ claiming = [by |-> h, state |-> "torn"] => pc[h] \in {"idle"} \cup Claiming

LEMMA CallInit ==
  ASSUME InjectionInit
  PROVE  CallInv
BY DEF InjectionInit, CallInv, NoClaim, Active, Claiming

\* The other holders are idle or awaiting their sends.
LEMMA OthersRest ==
  ASSUME OneProcess, NEW h \in Holders, NEW label, At(h, label)
  PROVE  pc[h] = label /\ \A k \in Holders \ {h} : ~Active(k)
BY DEF OneProcess, At, Active

\* Every step leaves one call under way at most, with what it relies on.
LEMMA CallStep ==
  ASSUME OneProcess, TypeOK, CallInv, [GateNext]_injectionVars
  PROVE  CallInv'
<1> USE DEF CallInv, Active, TypeOK, Claims, NoClaim, Claiming, Goto, Return, Unseen
<1>1. ASSUME ClaimGrowsStale PROVE CallInv'
  BY <1>1 DEF ClaimGrowsStale
<1>2. ASSUME NEW p \in Processes, Crash(p) PROVE CallInv'
  BY <1>2 DEF Crash
<1>3. ASSUME NEW h \in Holders, BeginClaim(h) PROVE CallInv'
  <2>1. pc[h] = "idle" /\ \A k \in Holders \ {h} : ~Active(k)
    BY <1>3, OthersRest DEF BeginClaim
  <2> QED BY <2>1, <1>3 DEF BeginClaim
<1>4. ASSUME NEW h \in Holders, CreateClaim(h) PROVE CallInv'
  <2>1. pc[h] = "create" /\ \A k \in Holders \ {h} : ~Active(k)
    BY <1>4, OthersRest DEF CreateClaim, Fault, Race
  <2> QED BY <2>1, <1>4 DEF CreateClaim, Fault, Race
<1>5. ASSUME NEW h \in Holders, FillClaim(h) PROVE CallInv'
  <2>1. pc[h] = "fill" /\ \A k \in Holders \ {h} : ~Active(k)
    BY <1>5, OthersRest DEF FillClaim, Fault
  <2> QED BY <2>1, <1>5 DEF FillClaim, Fault
<1>6. ASSUME NEW h \in Holders, ReadClaim(h) PROVE CallInv'
  <2>1. pc[h] = "read" /\ \A k \in Holders \ {h} : ~Active(k)
    BY <1>6, OthersRest DEF ReadClaim
  <2> QED BY <2>1, <1>6 DEF ReadClaim, Readable, Retry
<1>7. ASSUME NEW h \in Holders, RecheckReceipt(h) PROVE CallInv'
  <2>1. pc[h] \in {"recheckFresh", "recheckStale"} /\ \A k \in Holders \ {h} : ~Active(k)
    BY <1>7, OthersRest DEF RecheckReceipt
  <2> QED BY <2>1, <1>7 DEF RecheckReceipt
<1>8. ASSUME NEW h \in Holders, RereadClaim(h) PROVE CallInv'
  <2>1. pc[h] = "reread" /\ \A k \in Holders \ {h} : ~Active(k)
    BY <1>8, OthersRest DEF RereadClaim
  <2> QED BY <2>1, <1>8 DEF RereadClaim, Readable, Retry
<1>9. ASSUME NEW h \in Holders, UnlinkStale(h) PROVE CallInv'
  <2>1. pc[h] = "unlink" /\ \A k \in Holders \ {h} : ~Active(k)
    BY <1>9, OthersRest DEF UnlinkStale, Fault, Race
  <2> QED BY <2>1, <1>9 DEF UnlinkStale, Fault, Race, Retry
<1>10. ASSUME NEW h \in Holders, SendSucceeds(h) PROVE CallInv'
  <2>1. pc[h] = "sending" /\ \A k \in Holders \ {h} : ~Active(k)
    BY <1>10, OthersRest DEF SendSucceeds
  <2> QED BY <2>1, <1>10 DEF SendSucceeds
<1>11. ASSUME NEW h \in Holders, SendRefused(h) PROVE CallInv'
  <2>1. pc[h] = "sending" /\ \A k \in Holders \ {h} : ~Active(k)
    BY <1>11, OthersRest DEF SendRefused
  <2> QED BY <2>1, <1>11 DEF SendRefused
<1>12. ASSUME NEW h \in Holders, SendFails(h) PROVE CallInv'
  <2>1. pc[h] = "sending" /\ \A k \in Holders \ {h} : ~Active(k)
    BY <1>12, OthersRest DEF SendFails
  <2> QED BY <2>1, <1>12 DEF SendFails
<1>13. ASSUME NEW h \in Holders, ReadOwnClaim(h) PROVE CallInv'
  <2>1. pc[h] = "confirm" /\ \A k \in Holders \ {h} : ~Active(k)
    BY <1>13, OthersRest DEF ReadOwnClaim
  <2> QED BY <2>1, <1>13 DEF ReadOwnClaim, Readable
<1>14. ASSUME NEW h \in Holders, CreateReceipt(h) PROVE CallInv'
  <2>1. pc[h] = "record" /\ \A k \in Holders \ {h} : ~Active(k)
    BY <1>14, OthersRest DEF CreateReceipt, ReceiptFails, Fault
  <2> QED BY <2>1, <1>14 DEF CreateReceipt, ReceiptFails, Fault
<1>15. ASSUME NEW h \in Holders, FillReceipt(h) PROVE CallInv'
  <2>1. pc[h] = "fillReceipt" /\ \A k \in Holders \ {h} : ~Active(k)
    BY <1>15, OthersRest DEF FillReceipt, ReceiptFails, Fault
  <2> QED BY <2>1, <1>15 DEF FillReceipt, ReceiptFails, Fault
<1>16. ASSUME NEW h \in Holders, ClearClaim(h) PROVE CallInv'
  <2>1. pc[h] = "clear" /\ \A k \in Holders \ {h} : ~Active(k)
    BY <1>16, OthersRest DEF ClearClaim, RemoveClaim, Fault
  <2> QED BY <2>1, <1>16 DEF ClearClaim, RemoveClaim, Fault
<1>17. ASSUME NEW h \in Holders, ReadReleased(h) PROVE CallInv'
  <2>1. pc[h] = "release" /\ \A k \in Holders \ {h} : ~Active(k)
    BY <1>17, OthersRest DEF ReadReleased
  <2> QED BY <2>1, <1>17 DEF ReadReleased, Readable
<1>18. ASSUME NEW h \in Holders, DropClaim(h) PROVE CallInv'
  <2>1. pc[h] = "drop" /\ \A k \in Holders \ {h} : ~Active(k)
    BY <1>18, OthersRest DEF DropClaim, RemoveClaim, Fault
  <2> QED BY <2>1, <1>18 DEF DropClaim, RemoveClaim, Fault
<1>19. ASSUME NEW h \in Holders, Presume(h) PROVE CallInv'
  <2>1. pc[h] = "sending" /\ \A k \in Holders \ {h} : ~Active(k)
    BY <1>19, OthersRest DEF Presume
  <2> QED BY <2>1, <1>19 DEF Presume
<1>20. CASE UNCHANGED injectionVars
  BY <1>20 DEF injectionVars
<1> QED BY <1>1, <1>2, <1>3, <1>4, <1>5, <1>6, <1>7, <1>8, <1>9, <1>10, <1>11, <1>12, <1>13,
      <1>14, <1>15, <1>16, <1>17, <1>18, <1>19, <1>20 DEF GateNext, InjectionNext, HolderStep,
      ClaimStep, SendStep, ConfirmStep, ReleaseStep

-----------------------------------------------------------------------------
(* The channels of one process: how often the message is injected *)

\* The sends under way, those of a claim just created included.
InFlight == {h \in Holders : pc[h] \in {"fill", "sending"}}
Sent == delivered + Cardinality(InFlight)

\* The holder that the claim names is on its way from the claim to the receipt.
Pursued ==
  /\ claiming.state \in {"torn", "fresh"}
  /\ pc[claiming.by] \in {"fill", "sending", "confirm", "record", "fillReceipt"}

\* One send is allowed, and one more for every crash before a receipt and every claim
\* that a send outlived.  When they are all used up and there is no receipt, the claim
\* belongs to a send or to a confirmation under way, so nobody can win another; a claim
\* that is being given back has not used up its own.
SentInv ==
  /\ Sent <= 1 + lost + slow
  /\ receipt # "written" /\ Sent = 1 + lost + slow => Pursued
  /\ \A h \in Holders : pc[h] \in {"release", "drop"} => Sent <= lost + slow

AccountInv == IsFiniteSet(InFlight) /\ (ReceiptTorn \/ SentInv)

\* What a step does to the sends under way: a claim is won, ...
LEMMA SendBegins ==
  ASSUME TypeOK, AccountInv, NEW h \in Holders, pc[h] \notin {"fill", "sending"},
         pc' = [pc EXCEPT ![h] = "fill"]
  PROVE  IsFiniteSet(InFlight') /\ Cardinality(InFlight') = Cardinality(InFlight) + 1
<1>1. InFlight' = InFlight \cup {h} /\ h \notin InFlight
  BY DEF InFlight, TypeOK
<1> QED BY <1>1, FS_AddElement DEF AccountInv

\* ... a send ends, ...
LEMMA SendEnds ==
  ASSUME TypeOK, AccountInv, NEW h \in Holders, NEW label, pc[h] = "sending",
         label \notin {"fill", "sending"}, pc' = [pc EXCEPT ![h] = label]
  PROVE  IsFiniteSet(InFlight') /\ Cardinality(InFlight') = Cardinality(InFlight) - 1
<1>1. InFlight' = InFlight \ {h} /\ h \in InFlight
  BY DEF InFlight, TypeOK
<1> QED BY <1>1, FS_RemoveElement DEF AccountInv

\* ... a claim's content could not be written, ...
LEMMA FillEnds ==
  ASSUME TypeOK, AccountInv, NEW h \in Holders, pc[h] = "fill",
         pc' = [pc EXCEPT ![h] = "idle"]
  PROVE  IsFiniteSet(InFlight') /\ Cardinality(InFlight') = Cardinality(InFlight) - 1
<1>1. InFlight' = InFlight \ {h} /\ h \in InFlight
  BY DEF InFlight, TypeOK
<1> QED BY <1>1, FS_RemoveElement DEF AccountInv

\* ... or those of a process that crashes are forgotten.
LEMMA SendsForgotten ==
  ASSUME TypeOK, AccountInv, NEW dead,
         pc' = [h \in Holders |-> IF h \in dead THEN "idle" ELSE pc[h]]
  PROVE  /\ IsFiniteSet(InFlight') /\ Cardinality(InFlight') <= Cardinality(InFlight)
         /\ InFlight \cap dead # {} => Cardinality(InFlight') < Cardinality(InFlight)
<1>1. InFlight' = InFlight \ dead
  BY DEF InFlight, TypeOK
<1>2. /\ InFlight' \subseteq InFlight
      /\ InFlight \cap dead # {} => InFlight' # InFlight
  BY <1>1
<1>3. /\ IsFiniteSet(InFlight') /\ Cardinality(InFlight') <= Cardinality(InFlight)
      /\ Cardinality(InFlight) = Cardinality(InFlight') => InFlight' = InFlight
  BY <1>2, FS_Subset DEF AccountInv
<1>4. Cardinality(InFlight) \in Nat /\ Cardinality(InFlight') \in Nat
  BY <1>3, FS_CardinalityType DEF AccountInv
<1> QED BY <1>2, <1>3, <1>4

LEMMA Sizes ==
  ASSUME TypeOK, AccountInv
  PROVE  Cardinality(InFlight) \in Nat /\ Sent \in Nat
<1>1. Cardinality(InFlight) \in Nat
  BY FS_CardinalityType DEF AccountInv
<1> QED BY <1>1 DEF Sent, TypeOK

\* A step that begins or ends no send.
SameSends ==
  /\ delivered' = delivered
  /\ \A h \in Holders : pc'[h] \in {"fill", "sending"} <=> pc[h] \in {"fill", "sending"}

LEMMA SameSent ==
  ASSUME TypeOK, AccountInv, SameSends
  PROVE  IsFiniteSet(InFlight') /\ Sent' = Sent
<1>1. InFlight' = InFlight
  BY DEF InFlight, SameSends
<1> QED BY <1>1 DEF AccountInv, Sent, SameSends

\* Torn once, the receipt stays torn.
LEMMA TornStep ==
  ASSUME TypeOK, ReceiptTorn, [GateNext]_injectionVars
  PROVE  ReceiptTorn'
<1> USE DEF ReceiptTorn, TypeOK, Goto, Return, Unseen, At
<1>1. ASSUME ClaimGrowsStale PROVE ReceiptTorn'
  BY <1>1 DEF ClaimGrowsStale
<1>2. ASSUME NEW p \in Processes, Crash(p) PROVE ReceiptTorn'
  BY <1>2 DEF Crash
<1>3. ASSUME NEW h \in Holders, BeginClaim(h) PROVE ReceiptTorn'
  BY <1>3 DEF BeginClaim
<1>4. ASSUME NEW h \in Holders, CreateClaim(h) PROVE ReceiptTorn'
  BY <1>4 DEF CreateClaim, Fault, Race
<1>5. ASSUME NEW h \in Holders, FillClaim(h) PROVE ReceiptTorn'
  BY <1>5 DEF FillClaim, Fault
<1>6. ASSUME NEW h \in Holders, ReadClaim(h) PROVE ReceiptTorn'
  BY <1>6 DEF ReadClaim, Retry
<1>7. ASSUME NEW h \in Holders, RecheckReceipt(h) PROVE ReceiptTorn'
  BY <1>7 DEF RecheckReceipt
<1>8. ASSUME NEW h \in Holders, RereadClaim(h) PROVE ReceiptTorn'
  BY <1>8 DEF RereadClaim, Retry
<1>9. ASSUME NEW h \in Holders, UnlinkStale(h) PROVE ReceiptTorn'
  BY <1>9 DEF UnlinkStale, Fault, Race, Retry
<1>10. ASSUME NEW h \in Holders, SendSucceeds(h) PROVE ReceiptTorn'
  BY <1>10 DEF SendSucceeds
<1>11. ASSUME NEW h \in Holders, SendRefused(h) PROVE ReceiptTorn'
  BY <1>11 DEF SendRefused
<1>12. ASSUME NEW h \in Holders, SendFails(h) PROVE ReceiptTorn'
  BY <1>12 DEF SendFails
<1>13. ASSUME NEW h \in Holders, ReadOwnClaim(h) PROVE ReceiptTorn'
  BY <1>13 DEF ReadOwnClaim
<1>14. ASSUME NEW h \in Holders, CreateReceipt(h) PROVE ReceiptTorn'
  BY <1>14 DEF CreateReceipt, ReceiptFails, Fault
<1>15. ASSUME NEW h \in Holders, FillReceipt(h) PROVE ReceiptTorn'
  BY <1>15 DEF FillReceipt, ReceiptFails, Fault
<1>16. ASSUME NEW h \in Holders, ClearClaim(h) PROVE ReceiptTorn'
  BY <1>16 DEF ClearClaim, RemoveClaim, Fault
<1>17. ASSUME NEW h \in Holders, ReadReleased(h) PROVE ReceiptTorn'
  BY <1>17 DEF ReadReleased
<1>18. ASSUME NEW h \in Holders, DropClaim(h) PROVE ReceiptTorn'
  BY <1>18 DEF DropClaim, RemoveClaim, Fault
<1>19. ASSUME NEW h \in Holders, Presume(h) PROVE ReceiptTorn'
  BY <1>19 DEF Presume
<1>20. CASE UNCHANGED injectionVars
  BY <1>20 DEF injectionVars
<1> QED BY <1>1, <1>2, <1>3, <1>4, <1>5, <1>6, <1>7, <1>8, <1>9, <1>10, <1>11, <1>12, <1>13,
      <1>14, <1>15, <1>16, <1>17, <1>18, <1>19, <1>20 DEF GateNext, InjectionNext, HolderStep,
      ClaimStep, SendStep, ConfirmStep, ReleaseStep

\* The set of sends under way stays finite.
LEMMA FiniteStep ==
  ASSUME TypeOK, AccountInv, [GateNext]_injectionVars
  PROVE  IsFiniteSet(InFlight')
<1> USE DEF TypeOK, Goto, Return, Unseen
<1>1. ASSUME ClaimGrowsStale PROVE IsFiniteSet(InFlight')
  <2>1. SameSends
    BY <1>1 DEF ClaimGrowsStale, SameSends, At
  <2> QED BY <2>1, SameSent
<1>2. ASSUME NEW p \in Processes, Crash(p) PROVE IsFiniteSet(InFlight')
  BY <1>2, SendsForgotten DEF Crash
<1>3. ASSUME NEW h \in Holders, BeginClaim(h) PROVE IsFiniteSet(InFlight')
  <2>1. SameSends
    BY <1>3 DEF BeginClaim, SameSends, At
  <2> QED BY <2>1, SameSent
<1>4. ASSUME NEW h \in Holders, CreateClaim(h) PROVE IsFiniteSet(InFlight')
  <2>1. CASE pc' = [pc EXCEPT ![h] = "fill"]
    BY <1>4, <2>1, SendBegins DEF CreateClaim, Fault, Race, At
  <2>2. CASE pc' # [pc EXCEPT ![h] = "fill"]
    <3>1. SameSends
      BY <1>4, <2>2 DEF CreateClaim, Fault, Race, At, SameSends
    <3> QED BY <3>1, SameSent
  <2> QED BY <2>1, <2>2
<1>5. ASSUME NEW h \in Holders, FillClaim(h) PROVE IsFiniteSet(InFlight')
  <2>1. CASE pc' = [pc EXCEPT ![h] = "idle"]
    BY <1>5, <2>1, FillEnds DEF FillClaim, At
  <2>2. CASE pc' # [pc EXCEPT ![h] = "idle"]
    <3>1. SameSends
      BY <1>5, <2>2 DEF FillClaim, SameSends, At
    <3> QED BY <3>1, SameSent
  <2> QED BY <2>1, <2>2
<1>6. ASSUME NEW h \in Holders, ReadClaim(h) PROVE IsFiniteSet(InFlight')
  <2>1. SameSends
    BY <1>6 DEF ReadClaim, SameSends, At, Retry
  <2> QED BY <2>1, SameSent
<1>7. ASSUME NEW h \in Holders, RecheckReceipt(h) PROVE IsFiniteSet(InFlight')
  <2>1. SameSends
    BY <1>7 DEF RecheckReceipt, SameSends, At
  <2> QED BY <2>1, SameSent
<1>8. ASSUME NEW h \in Holders, RereadClaim(h) PROVE IsFiniteSet(InFlight')
  <2>1. SameSends
    BY <1>8 DEF RereadClaim, SameSends, At, Retry
  <2> QED BY <2>1, SameSent
<1>9. ASSUME NEW h \in Holders, UnlinkStale(h) PROVE IsFiniteSet(InFlight')
  <2>1. SameSends
    BY <1>9 DEF UnlinkStale, Fault, Race, SameSends, At, Retry
  <2> QED BY <2>1, SameSent
<1>10. ASSUME NEW h \in Holders, SendSucceeds(h) PROVE IsFiniteSet(InFlight')
  BY <1>10, SendEnds DEF SendSucceeds, At
<1>11. ASSUME NEW h \in Holders, SendRefused(h) PROVE IsFiniteSet(InFlight')
  BY <1>11, SendEnds DEF SendRefused, At
<1>12. ASSUME NEW h \in Holders, SendFails(h) PROVE IsFiniteSet(InFlight')
  BY <1>12, SendEnds DEF SendFails, At
<1>13. ASSUME NEW h \in Holders, ReadOwnClaim(h) PROVE IsFiniteSet(InFlight')
  <2>1. SameSends
    BY <1>13 DEF ReadOwnClaim, SameSends, At
  <2> QED BY <2>1, SameSent
<1>14. ASSUME NEW h \in Holders, CreateReceipt(h) PROVE IsFiniteSet(InFlight')
  <2>1. SameSends
    BY <1>14 DEF CreateReceipt, ReceiptFails, Fault, SameSends, At
  <2> QED BY <2>1, SameSent
<1>15. ASSUME NEW h \in Holders, FillReceipt(h) PROVE IsFiniteSet(InFlight')
  <2>1. SameSends
    BY <1>15 DEF FillReceipt, ReceiptFails, Fault, SameSends, At
  <2> QED BY <2>1, SameSent
<1>16. ASSUME NEW h \in Holders, ClearClaim(h) PROVE IsFiniteSet(InFlight')
  <2>1. SameSends
    BY <1>16 DEF ClearClaim, RemoveClaim, Fault, SameSends, At
  <2> QED BY <2>1, SameSent
<1>17. ASSUME NEW h \in Holders, ReadReleased(h) PROVE IsFiniteSet(InFlight')
  <2>1. SameSends
    BY <1>17 DEF ReadReleased, SameSends, At
  <2> QED BY <2>1, SameSent
<1>18. ASSUME NEW h \in Holders, DropClaim(h) PROVE IsFiniteSet(InFlight')
  <2>1. SameSends
    BY <1>18 DEF DropClaim, RemoveClaim, Fault, SameSends, At
  <2> QED BY <2>1, SameSent
<1>19. ASSUME NEW h \in Holders, Presume(h) PROVE IsFiniteSet(InFlight')
  BY <1>19, SendEnds DEF Presume, At
<1>20. CASE UNCHANGED injectionVars
  <2>1. SameSends
    BY <1>20 DEF injectionVars, SameSends, At
  <2> QED BY <2>1, SameSent
<1> QED BY <1>1, <1>2, <1>3, <1>4, <1>5, <1>6, <1>7, <1>8, <1>9, <1>10, <1>11, <1>12, <1>13,
      <1>14, <1>15, <1>16, <1>17, <1>18, <1>19, <1>20 DEF GateNext, InjectionNext, HolderStep,
      ClaimStep, SendStep, ConfirmStep, ReleaseStep

\* A step that sends nothing, records nothing and gives nothing up.
LEMMA NothingSent ==
  ASSUME TypeOK, CallInv, AccountInv, SentInv, SameSends,
         UNCHANGED <<claiming, receipt, lost, slow>>,
         \A h \in Holders :
           /\ pc[h] \in {"confirm", "record", "fillReceipt"} => pc'[h] = pc[h]
           /\ pc'[h] \in {"release", "drop"} => pc[h] \in {"release", "drop"}
  PROVE  SentInv'
<1>1. Sent' = Sent
  BY SameSent
<1>2. Pursued => Pursued'
  <2> SUFFICES ASSUME Pursued PROVE Pursued'
    OBVIOUS
  <2>1. claiming.by \in Holders
    BY DEF Pursued, CallInv
  <2> QED BY <2>1 DEF Pursued, SameSends
<1> QED BY <1>1, <1>2 DEF SentInv

\* A count below a bound is below the next one.
LEMMA Below ==
  ASSUME NEW n \in Nat, NEW l \in Nat, NEW w \in Nat, n <= l + w
  PROVE  n <= 1 + l + w /\ n # 1 + l + w
OBVIOUS

\* A step after which fewer sends are counted than are allowed.
LEMMA Fewer ==
  ASSUME TypeOK, TypeOK', Sent' \in Nat, Sent' <= lost' + slow'
  PROVE  SentInv'
<1>1. lost' \in Nat /\ slow' \in Nat
  BY DEF TypeOK
<1>2. Sent' <= 1 + lost' + slow' /\ Sent' # 1 + lost' + slow'
  BY <1>1, Below
<1> QED BY <1>2 DEF SentInv

\* Every step keeps the account, unless it leaves a torn receipt behind.
LEMMA SentStep ==
  ASSUME OneProcess, TypeOK, TypeOK', CallInv, AccountInv, SentInv, [GateNext]_injectionVars
  PROVE  ReceiptTorn' \/ SentInv'
<1> USE DEF TypeOK, Goto, Return, Unseen
<1>1. ASSUME ClaimGrowsStale PROVE ReceiptTorn' \/ SentInv'
  <2>1. Sent' = Sent /\ Sent \in Nat
    <3>1. SameSends
      BY <1>1 DEF ClaimGrowsStale, SameSends
    <3> QED BY <3>1, SameSent, Sizes
  <2>2. claiming.by \in Holders
    BY <1>1 DEF ClaimGrowsStale, CallInv
  <2>3. CASE receipt = "written"
    BY <1>1, <2>1, <2>3 DEF ClaimGrowsStale, SentInv
  <2>4. CASE receipt # "written"
    <3>1. Sent' <= lost' + slow'
      <4>1. CASE pc[claiming.by] \notin Holding
        <5>1. ~Pursued
          BY <4>1 DEF Pursued, Holding, Confirming
        <5> QED BY <1>1, <2>1, <2>4, <4>1, <5>1 DEF ClaimGrowsStale, SentInv, Holding
      <4>2. CASE pc[claiming.by] \in Holding
        BY <1>1, <2>1, <4>2 DEF ClaimGrowsStale, SentInv
      <4> QED BY <4>1, <4>2
    <3> QED BY <2>1, <3>1, Fewer
  <2> QED BY <2>3, <2>4
<1>2. ASSUME NEW p \in Processes, Crash(p) PROVE ReceiptTorn' \/ SentInv'
  <2> DEFINE dead == {h \in Holders : ProcessOf[h] = p}
  <2>1. pc' = [h \in Holders |-> IF h \in dead THEN "idle" ELSE pc[h]]
    BY <1>2 DEF Crash
  <2>2. UNCHANGED <<claiming, receipt, delivered, slow>>
    BY <1>2 DEF Crash
  <2>3. lost' = IF \E h \in dead : pc[h] \in {"confirm", "record", "fillReceipt"}
                THEN lost + 1 ELSE lost
    BY <1>2 DEF Crash
  <2>4. dead = {} \/ dead = Holders
    BY DEF OneProcess
  <2> HIDE DEF dead
  <2>5. CASE dead = {}
    <3>1. pc' = pc
      BY <2>1, <2>5
    <3>2. SameSends /\ lost' = lost
      BY <2>2, <2>3, <2>5, <3>1 DEF SameSends
    <3> QED BY <2>2, <3>1, <3>2, NothingSent
  <2>6. CASE dead = Holders
    <3>1. IsFiniteSet(InFlight') /\ Cardinality(InFlight') <= Cardinality(InFlight)
      BY <2>1, SendsForgotten
    <3>2. InFlight # {} => Cardinality(InFlight') < Cardinality(InFlight)
      <4>1. InFlight \cap dead = InFlight
        BY <2>6 DEF InFlight
      <4> QED BY <2>1, <4>1, SendsForgotten
    <3>3. Cardinality(InFlight') \in Nat /\ Cardinality(InFlight) \in Nat
      BY <3>1, Sizes, FS_CardinalityType
    <3>4. /\ Sent \in Nat /\ Sent' \in Nat /\ Sent' <= Sent
          /\ InFlight # {} => Sent' < Sent
      BY <2>2, <3>1, <3>2, <3>3 DEF Sent
    <3>5. \A h \in Holders : pc'[h] = "idle"
      BY <2>1, <2>6
    <3>6. CASE receipt = "written"
      BY <2>2, <2>3, <3>4, <3>5, <3>6 DEF SentInv
    <3>7. CASE receipt # "written"
      <4>1. Pursued => InFlight # {} \/ lost' = lost + 1
        <5> SUFFICES ASSUME Pursued PROVE InFlight # {} \/ lost' = lost + 1
          OBVIOUS
        <5>1. claiming.by \in Holders
          BY DEF Pursued, CallInv
        <5>2. CASE pc[claiming.by] \in {"fill", "sending"}
          BY <5>1, <5>2 DEF InFlight
        <5>3. CASE pc[claiming.by] \in {"confirm", "record", "fillReceipt"}
          BY <2>3, <2>6, <5>1, <5>3
        <5> QED BY <5>2, <5>3 DEF Pursued
      <4>2. lost' \in {lost, lost + 1} /\ slow' = slow
        BY <2>2, <2>3
      <4>3. /\ Sent <= 1 + lost + slow
            /\ Sent = 1 + lost + slow => Sent' < Sent \/ lost' = lost + 1
        BY <3>4, <3>7, <4>1 DEF SentInv
      <4>4. Sent' <= lost' + slow'
        <5>1. CASE lost' = lost
          BY <3>4, <4>2, <4>3, <5>1
        <5>2. CASE lost' = lost + 1
          BY <3>4, <4>2, <4>3, <5>2
        <5> QED BY <4>2, <5>1, <5>2
      <4> QED BY <3>4, <4>4, Fewer
    <3> QED BY <3>6, <3>7
  <2> QED BY <2>4, <2>5, <2>6
<1>3. ASSUME NEW h \in Holders, BeginClaim(h) PROVE ReceiptTorn' \/ SentInv'
  <2>1. SameSends
    BY <1>3 DEF BeginClaim, SameSends, At
  <2>2. UNCHANGED <<claiming, receipt, lost, slow>>
    BY <1>3 DEF BeginClaim
  <2>3. \A k \in Holders :
          /\ pc[k] \in {"confirm", "record", "fillReceipt"} => pc'[k] = pc[k]
          /\ pc'[k] \in {"release", "drop"} => pc[k] \in {"release", "drop"}
    BY <1>3 DEF BeginClaim, At
  <2> QED BY <2>1, <2>2, <2>3, NothingSent
<1>4. ASSUME NEW h \in Holders, CreateClaim(h) PROVE ReceiptTorn' \/ SentInv'
  <2>1. pc[h] = "create" /\ \A k \in Holders \ {h} : pc[k] \in {"idle", "sending"}
    BY <1>4, OthersRest DEF CreateClaim, Active
  <2>2. CASE pc' # [pc EXCEPT ![h] = "fill"]
    <3>1. SameSends
      BY <1>4, <2>1, <2>2 DEF CreateClaim, Fault, SameSends
    <3>2. UNCHANGED <<claiming, receipt, lost, slow>>
      BY <1>4, <2>2 DEF CreateClaim, Fault
    <3>3. \A k \in Holders :
            /\ pc[k] \in {"confirm", "record", "fillReceipt"} => pc'[k] = pc[k]
            /\ pc'[k] \in {"release", "drop"} => pc[k] \in {"release", "drop"}
      BY <1>4, <2>1, <2>2 DEF CreateClaim
    <3> QED BY <3>1, <3>2, <3>3, NothingSent
  <2>3. CASE pc' = [pc EXCEPT ![h] = "fill"]
    <3>1. /\ claiming = NoClaim /\ claiming' = [by |-> h, state |-> "torn"]
          /\ UNCHANGED <<receipt, delivered, lost, slow>>
      <4>1. pc'[h] = "fill"
        BY <2>3
      <4> QED BY <1>4, <4>1 DEF CreateClaim
    <3>2. Cardinality(InFlight') = Cardinality(InFlight) + 1
      BY <2>1, <2>3, SendBegins
    <3>3. Sent' = Sent + 1 /\ Sent \in Nat
      BY <3>1, <3>2, Sizes DEF Sent
    <3>4. receipt # "written"
      BY <2>1 DEF CallInv, Claiming
    <3>5. ~Pursued
      BY <3>1 DEF Pursued, NoClaim
    <3>6. Sent' <= 1 + lost' + slow'
      BY <3>1, <3>3, <3>4, <3>5 DEF SentInv
    <3>7. Pursued'
      BY <2>3, <3>1 DEF Pursued
    <3>8. \A k \in Holders : pc'[k] \notin {"release", "drop"}
      BY <2>1, <2>3
    <3> QED BY <3>6, <3>7, <3>8 DEF SentInv
  <2> QED BY <2>2, <2>3
<1>5. ASSUME NEW h \in Holders, FillClaim(h) PROVE ReceiptTorn' \/ SentInv'
  <2>1. pc[h] = "fill" /\ \A k \in Holders \ {h} : pc[k] \in {"idle", "sending"}
    BY <1>5, OthersRest DEF FillClaim, Active
  <2>2. UNCHANGED <<receipt, delivered, lost, slow>>
    BY <1>5 DEF FillClaim, Fault
  <2>3. CASE pc' = [pc EXCEPT ![h] = "sending"]
    <3>1. Sent' = Sent
      <4>1. SameSends
        BY <2>1, <2>2, <2>3 DEF SameSends
      <4> QED BY <4>1, SameSent
    <3>2. /\ claiming'.by = claiming.by
          /\ claiming.state \in {"torn", "fresh"} => claiming'.state \in {"torn", "fresh"}
      BY <1>5 DEF FillClaim
    <3>3. Pursued => Pursued'
      <4>1. \A k \in Holders : pc'[k] = IF k = h THEN "sending" ELSE pc[k]
        BY <2>3
      <4>2. Pursued => claiming.by \in Holders
        BY DEF Pursued, CallInv
      <4> QED BY <3>2, <4>1, <4>2 DEF Pursued
    <3>4. \A k \in Holders : pc'[k] \notin {"release", "drop"}
      BY <2>1, <2>3
    <3> QED BY <2>2, <3>1, <3>3, <3>4 DEF SentInv
  <2>4. CASE pc' = [pc EXCEPT ![h] = "idle"]
    <3>1. /\ IsFiniteSet(InFlight')
          /\ Cardinality(InFlight') = Cardinality(InFlight) - 1
      BY <2>1, <2>4, FillEnds
    <3>2. Cardinality(InFlight') \in Nat
      BY <3>1, FS_CardinalityType
    <3>3. Sent' = Sent - 1 /\ Sent \in Nat /\ Sent' \in Nat
      BY <2>2, <3>1, <3>2, Sizes DEF Sent
    <3>4. Sent' <= lost' + slow'
      BY <2>2, <3>3 DEF SentInv
    <3> QED BY <3>3, <3>4, Fewer
  <2> QED BY <1>5, <2>3, <2>4 DEF FillClaim
<1>6. ASSUME NEW h \in Holders, ReadClaim(h) PROVE ReceiptTorn' \/ SentInv'
  <2>1. SameSends
    BY <1>6 DEF ReadClaim, SameSends, At, Retry
  <2>2. UNCHANGED <<claiming, receipt, lost, slow>>
    BY <1>6 DEF ReadClaim
  <2>3. \A k \in Holders :
          /\ pc[k] \in {"confirm", "record", "fillReceipt"} => pc'[k] = pc[k]
          /\ pc'[k] \in {"release", "drop"} => pc[k] \in {"release", "drop"}
    BY <1>6 DEF ReadClaim, At, Retry
  <2> QED BY <2>1, <2>2, <2>3, NothingSent
<1>7. ASSUME NEW h \in Holders, RecheckReceipt(h) PROVE ReceiptTorn' \/ SentInv'
  <2>1. SameSends
    BY <1>7 DEF RecheckReceipt, SameSends, At
  <2>2. UNCHANGED <<claiming, receipt, lost, slow>>
    BY <1>7 DEF RecheckReceipt
  <2>3. \A k \in Holders :
          /\ pc[k] \in {"confirm", "record", "fillReceipt"} => pc'[k] = pc[k]
          /\ pc'[k] \in {"release", "drop"} => pc[k] \in {"release", "drop"}
    BY <1>7 DEF RecheckReceipt, At
  <2> QED BY <2>1, <2>2, <2>3, NothingSent
<1>8. ASSUME NEW h \in Holders, RereadClaim(h) PROVE ReceiptTorn' \/ SentInv'
  <2>1. SameSends
    BY <1>8 DEF RereadClaim, SameSends, At, Retry
  <2>2. UNCHANGED <<claiming, receipt, lost, slow>>
    BY <1>8 DEF RereadClaim
  <2>3. \A k \in Holders :
          /\ pc[k] \in {"confirm", "record", "fillReceipt"} => pc'[k] = pc[k]
          /\ pc'[k] \in {"release", "drop"} => pc[k] \in {"release", "drop"}
    BY <1>8 DEF RereadClaim, At, Retry
  <2> QED BY <2>1, <2>2, <2>3, NothingSent
<1>9. ASSUME NEW h \in Holders, UnlinkStale(h) PROVE ReceiptTorn' \/ SentInv'
  <2>1. pc[h] = "unlink" /\ \A k \in Holders \ {h} : pc[k] \in {"idle", "sending"}
    BY <1>9, OthersRest DEF UnlinkStale, Fault, Race, Active
  <2>2. Sent' = Sent /\ Sent \in Nat
    <3>1. SameSends
      BY <1>9, <2>1 DEF UnlinkStale, Fault, Race, SameSends, Retry
    <3> QED BY <3>1, SameSent, Sizes
  <2>3. receipt # "written" /\ ~Pursued
    BY <2>1 DEF CallInv, Claiming, Pursued
  <2>4. UNCHANGED <<lost, slow>>
    BY <1>9 DEF UnlinkStale, Fault
  <2>5. Sent' <= lost' + slow'
    BY <2>2, <2>3, <2>4 DEF SentInv
  <2> QED BY <2>2, <2>5, Fewer
<1>10. ASSUME NEW h \in Holders, SendSucceeds(h) PROVE ReceiptTorn' \/ SentInv'
  <2>1. pc[h] = "sending" /\ \A k \in Holders \ {h} : pc[k] \in {"idle", "sending"}
    BY <1>10, OthersRest DEF SendSucceeds, Active
  <2>2. pc' = [pc EXCEPT ![h] = "confirm"] /\ delivered' \in {delivered, delivered + 1}
        /\ UNCHANGED <<claiming, receipt, lost, slow>>
    BY <1>10 DEF SendSucceeds
  <2>3. Cardinality(InFlight') = Cardinality(InFlight) - 1 /\ Cardinality(InFlight) \in Nat
    BY <2>1, <2>2, SendEnds, Sizes
  <2>4. Sent' \in {Sent - 1, Sent} /\ Sent \in Nat
    BY <2>2, <2>3, Sizes DEF Sent
  <2>5. Pursued => Pursued'
    BY <2>1, <2>2 DEF Pursued
  <2>6. \A k \in Holders : pc'[k] \notin {"release", "drop"}
    BY <2>1, <2>2
  <2> QED BY <2>2, <2>4, <2>5, <2>6 DEF SentInv
<1>11. ASSUME NEW h \in Holders, SendRefused(h) PROVE ReceiptTorn' \/ SentInv'
  <2>1. pc[h] = "sending" /\ pc' = [pc EXCEPT ![h] = "release"]
    BY <1>11 DEF SendRefused, At
  <2>2. UNCHANGED <<delivered, lost, slow>>
    BY <1>11 DEF SendRefused
  <2>3. Cardinality(InFlight') = Cardinality(InFlight) - 1 /\ Cardinality(InFlight') \in Nat
    <3>1. /\ IsFiniteSet(InFlight')
          /\ Cardinality(InFlight') = Cardinality(InFlight) - 1
      BY <2>1, SendEnds
    <3> QED BY <3>1, FS_CardinalityType
  <2>4. Sent' = Sent - 1 /\ Sent \in Nat /\ Sent' \in Nat
    BY <2>2, <2>3, Sizes DEF Sent
  <2>5. Sent' <= lost' + slow'
    BY <2>2, <2>4 DEF SentInv
  <2> QED BY <2>4, <2>5, Fewer
<1>12. ASSUME NEW h \in Holders, SendFails(h) PROVE ReceiptTorn' \/ SentInv'
  <2>1. pc[h] = "sending" /\ pc' = [pc EXCEPT ![h] = "idle"]
    BY <1>12 DEF SendFails, At
  <2>2. UNCHANGED <<delivered, lost, slow>>
    BY <1>12 DEF SendFails
  <2>3. Cardinality(InFlight') = Cardinality(InFlight) - 1 /\ Cardinality(InFlight') \in Nat
    <3>1. /\ IsFiniteSet(InFlight')
          /\ Cardinality(InFlight') = Cardinality(InFlight) - 1
      BY <2>1, SendEnds
    <3> QED BY <3>1, FS_CardinalityType
  <2>4. Sent' = Sent - 1 /\ Sent \in Nat /\ Sent' \in Nat
    BY <2>2, <2>3, Sizes DEF Sent
  <2>5. Sent' <= lost' + slow'
    BY <2>2, <2>4 DEF SentInv
  <2> QED BY <2>4, <2>5, Fewer
<1>13. ASSUME NEW h \in Holders, ReadOwnClaim(h) PROVE ReceiptTorn' \/ SentInv'
  <2>1. pc[h] = "confirm" /\ \A k \in Holders \ {h} : pc[k] \in {"idle", "sending"}
    BY <1>13, OthersRest DEF ReadOwnClaim, Active
  <2>2. Sent' = Sent
    <3>1. SameSends
      BY <1>13, <2>1 DEF ReadOwnClaim, SameSends
    <3> QED BY <3>1, SameSent
  <2>3. UNCHANGED <<claiming, receipt, lost, slow>>
        /\ \A k \in Holders : pc'[k] \notin {"release", "drop"}
    BY <1>13, <2>1 DEF ReadOwnClaim
  <2>4. Pursued => Pursued'
    <3> SUFFICES ASSUME Pursued PROVE Pursued'
      OBVIOUS
    <3>1. CASE claiming.by # h
      <4>1. claiming.by \in Holders
        BY DEF Pursued, CallInv
      <4>2. pc' = [pc EXCEPT ![h] = "idle"]
        BY <1>13, <3>1 DEF ReadOwnClaim
      <4> QED BY <2>3, <3>1, <4>1, <4>2 DEF Pursued
    <3>2. CASE claiming.by = h
      <4>1. claiming.state # "torn"
        <5>1. claiming.state = "torn" => claiming = [by |-> h, state |-> "torn"]
          BY <3>2 DEF Claims
        <5> QED BY <2>1, <5>1 DEF CallInv, Claiming
      <4>2. pc' = [pc EXCEPT ![h] = "record"]
        BY <1>13, <3>2, <4>1 DEF ReadOwnClaim, Readable, Pursued
      <4> QED BY <2>3, <3>2, <4>2 DEF Pursued
    <3> QED BY <3>1, <3>2
  <2> QED BY <2>2, <2>3, <2>4 DEF SentInv
<1>14. ASSUME NEW h \in Holders, CreateReceipt(h) PROVE ReceiptTorn' \/ SentInv'
  <2>1. pc[h] = "record" /\ \A k \in Holders \ {h} : pc[k] \in {"idle", "sending"}
    BY <1>14, OthersRest DEF CreateReceipt, Active
  <2>2. \/ /\ receipt = "none" /\ receipt' = "torn" /\ lost' = lost
           /\ pc' = [pc EXCEPT ![h] = "fillReceipt"]
        \/ /\ receipt # "none" /\ receipt' = receipt /\ lost' = lost
           /\ pc' = [pc EXCEPT ![h] = "idle"]
        \/ /\ receipt' = receipt /\ lost' = lost + 1
           /\ pc' = [pc EXCEPT ![h] = "idle"]
    BY <1>14 DEF CreateReceipt, ReceiptFails
  <2>3. Sent' = Sent /\ Sent \in Nat
    <3>1. UNCHANGED delivered
      BY <1>14 DEF CreateReceipt, ReceiptFails, Fault
    <3>2. SameSends
      BY <2>1, <2>2, <3>1 DEF SameSends
    <3> QED BY <3>2, SameSent, Sizes
  <2>4. UNCHANGED <<claiming, slow>>
    BY <1>14 DEF CreateReceipt, ReceiptFails, Fault
  <2>5. CASE lost' = lost + 1
    <3>1. Sent' <= lost' + slow'
      BY <2>3, <2>4, <2>5 DEF SentInv
    <3> QED BY <2>3, <3>1, Fewer
  <2>6. CASE receipt = "none" /\ pc' = [pc EXCEPT ![h] = "fillReceipt"]
    <3>1. lost' = lost /\ receipt' # "written"
          /\ \A k \in Holders : pc'[k] \notin {"release", "drop"}
      BY <2>1, <2>2, <2>6
    <3>2. Pursued => Pursued'
      BY <2>1, <2>4, <2>6 DEF Pursued
    <3> QED BY <2>3, <2>4, <2>6, <3>1, <3>2 DEF SentInv
  <2>7. CASE receipt = "torn" /\ pc' = [pc EXCEPT ![h] = "idle"]
    BY <2>1, <2>2, <2>7 DEF ReceiptTorn
  <2>8. CASE receipt = "written" /\ lost' = lost /\ pc' = [pc EXCEPT ![h] = "idle"]
    BY <2>1, <2>2, <2>3, <2>4, <2>8 DEF SentInv
  <2> QED BY <2>2, <2>5, <2>6, <2>7, <2>8
<1>15. ASSUME NEW h \in Holders, FillReceipt(h) PROVE ReceiptTorn' \/ SentInv'
  <2>1. pc[h] = "fillReceipt" /\ \A k \in Holders \ {h} : pc[k] \in {"idle", "sending"}
    BY <1>15, OthersRest DEF FillReceipt, Active
  <2>2. CASE pc' = [pc EXCEPT ![h] = "clear"]
    <3>1. /\ receipt' = "written"
          /\ UNCHANGED <<delivered, lost, slow>>
      <4>1. pc'[h] = "clear"
        BY <2>2
      <4> QED BY <1>15, <4>1 DEF FillReceipt, ReceiptFails
    <3>2. Sent' = Sent
      <4>1. SameSends
        BY <2>1, <2>2, <3>1 DEF SameSends
      <4> QED BY <4>1, SameSent
    <3>3. \A k \in Holders : pc'[k] \notin {"release", "drop"}
      BY <2>1, <2>2
    <3> QED BY <3>1, <3>2, <3>3 DEF SentInv
  <2>3. CASE pc' = [pc EXCEPT ![h] = "idle"]
    <3>1. receipt = "torn"
      BY <2>1 DEF CallInv
    <3>2. receipt' = receipt
      <4>1. pc'[h] = "idle"
        BY <2>3
      <4> QED BY <1>15, <4>1 DEF FillReceipt, ReceiptFails
    <3> QED BY <2>1, <2>3, <3>1, <3>2 DEF ReceiptTorn
  <2> QED BY <1>15, <2>2, <2>3 DEF FillReceipt, ReceiptFails
<1>16. ASSUME NEW h \in Holders, ClearClaim(h) PROVE ReceiptTorn' \/ SentInv'
  <2>1. pc[h] = "clear" /\ \A k \in Holders \ {h} : pc[k] \in {"idle", "sending"}
    BY <1>16, OthersRest DEF ClearClaim, RemoveClaim, Fault, Active
  <2>2. Sent' = Sent
    <3>1. SameSends
      BY <1>16, <2>1 DEF ClearClaim, RemoveClaim, Fault, SameSends
    <3> QED BY <3>1, SameSent
  <2>3. /\ receipt' = "written" /\ lost' = lost /\ slow' = slow
        /\ \A k \in Holders : pc'[k] \notin {"release", "drop"}
    BY <1>16, <2>1 DEF ClearClaim, RemoveClaim, Fault, CallInv
  <2> QED BY <2>2, <2>3 DEF SentInv
<1>17. ASSUME NEW h \in Holders, ReadReleased(h) PROVE ReceiptTorn' \/ SentInv'
  <2>1. SameSends
    BY <1>17 DEF ReadReleased, SameSends, At
  <2>2. UNCHANGED <<claiming, receipt, lost, slow>>
    BY <1>17 DEF ReadReleased
  <2>3. \A k \in Holders :
          /\ pc[k] \in {"confirm", "record", "fillReceipt"} => pc'[k] = pc[k]
          /\ pc'[k] \in {"release", "drop"} => pc[k] \in {"release", "drop"}
    BY <1>17 DEF ReadReleased, At
  <2> QED BY <2>1, <2>2, <2>3, NothingSent
<1>18. ASSUME NEW h \in Holders, DropClaim(h) PROVE ReceiptTorn' \/ SentInv'
  <2>1. pc[h] = "drop" /\ \A k \in Holders \ {h} : pc[k] \in {"idle", "sending"}
    BY <1>18, OthersRest DEF DropClaim, RemoveClaim, Fault, Active
  <2>2. Sent' = Sent /\ Sent \in Nat
    <3>1. SameSends
      BY <1>18, <2>1 DEF DropClaim, RemoveClaim, Fault, SameSends
    <3> QED BY <3>1, SameSent, Sizes
  <2>3. Sent' <= lost' + slow'
    BY <1>18, <2>1, <2>2 DEF DropClaim, RemoveClaim, Fault, SentInv
  <2> QED BY <2>2, <2>3, Fewer
<1>19. ASSUME NEW h \in Holders, Presume(h) PROVE ReceiptTorn' \/ SentInv'
  <2>1. pc[h] = "sending" /\ pc' = [pc EXCEPT ![h] = "confirm"]
    BY <1>19 DEF Presume, At
  <2>2. UNCHANGED <<delivered, lost, slow>>
    BY <1>19 DEF Presume
  <2>3. Cardinality(InFlight') = Cardinality(InFlight) - 1 /\ Cardinality(InFlight') \in Nat
    <3>1. /\ IsFiniteSet(InFlight')
          /\ Cardinality(InFlight') = Cardinality(InFlight) - 1
      BY <2>1, SendEnds
    <3> QED BY <3>1, FS_CardinalityType
  <2>4. Sent' = Sent - 1 /\ Sent \in Nat /\ Sent' \in Nat
    BY <2>2, <2>3, Sizes DEF Sent
  <2>5. Sent' <= lost' + slow'
    BY <2>2, <2>4 DEF SentInv
  <2> QED BY <2>4, <2>5, Fewer
<1>20. CASE UNCHANGED injectionVars
  <2>1. SameSends
    BY <1>20 DEF injectionVars, SameSends, At
  <2>2. UNCHANGED <<claiming, receipt, lost, slow>>
    BY <1>20 DEF injectionVars
  <2>3. \A k \in Holders :
          /\ pc[k] \in {"confirm", "record", "fillReceipt"} => pc'[k] = pc[k]
          /\ pc'[k] \in {"release", "drop"} => pc[k] \in {"release", "drop"}
    BY <1>20 DEF injectionVars, At
  <2> QED BY <2>1, <2>2, <2>3, NothingSent
<1> QED BY <1>1, <1>2, <1>3, <1>4, <1>5, <1>6, <1>7, <1>8, <1>9, <1>10, <1>11, <1>12, <1>13,
      <1>14, <1>15, <1>16, <1>17, <1>18, <1>19, <1>20 DEF GateNext, InjectionNext, HolderStep,
      ClaimStep, SendStep, ConfirmStep, ReleaseStep

LEMMA AccountInit ==
  ASSUME InjectionInit
  PROVE  AccountInv
<1>1. InFlight = {}
  BY DEF InjectionInit, InFlight
<1>2. IsFiniteSet(InFlight) /\ Cardinality(InFlight) = 0
  BY <1>1, FS_EmptySet
<1>3. Sent = 0
  BY <1>2 DEF Sent, InjectionInit
<1> QED BY <1>2, <1>3 DEF AccountInv, SentInv, InjectionInit

LEMMA AccountStep ==
  ASSUME OneProcess, TypeOK, TypeOK', CallInv, AccountInv, [GateNext]_injectionVars
  PROVE  AccountInv'
<1>1. IsFiniteSet(InFlight')
  BY FiniteStep
<1>2. CASE ReceiptTorn
  BY <1>1, <1>2, TornStep DEF AccountInv
<1>3. CASE SentInv
  BY <1>1, <1>3, SentStep DEF AccountInv
<1> QED BY <1>2, <1>3 DEF AccountInv

\* The account bounds what has reached the conversation.
LEMMA Accounted ==
  ASSUME TypeOK, AccountInv
  PROVE  ReceiptTorn \/ InjectionsAccounted
BY Sizes DEF AccountInv, SentInv, Sent, TypeOK, InjectionsAccounted

\* The channels of one process inject a message once, and once more for each crash
\* between a delivery and its receipt and for each send that outlives its claim - as
\* long as no crash leaves a receipt without content - for any number of channels.
THEOREM InjectionInjectionsAccounted ==
  ASSUME OneProcess
  PROVE  InjectionSpec => [](ReceiptTorn \/ InjectionsAccounted)
<1>1. CallInv /\ TypeOK /\ [InjectionNext]_injectionVars => CallInv'
  BY CallStep DEF GateNext
<1>2. AccountInv /\ CallInv /\ TypeOK /\ TypeOK' /\ [InjectionNext]_injectionVars => AccountInv'
  BY AccountStep DEF GateNext
<1> QED BY InjectionTypeOK, CallInit, AccountInit, Accounted, <1>1, <1>2, PTL DEF InjectionSpec

\* Where no crash falls into the writing of a file, the receipt is never left torn: who
\* created it is about to fill it.
LEMMA FilledStep ==
  ASSUME ~WritesTear, TypeOK, ~ReceiptTorn, [GateNext]_injectionVars
  PROVE  ~ReceiptTorn'
<1> USE DEF ReceiptTorn, TypeOK, Goto, Return, Unseen, At
<1>1. ASSUME ClaimGrowsStale PROVE ~ReceiptTorn'
  BY <1>1 DEF ClaimGrowsStale
<1>2. ASSUME NEW p \in Processes, Crash(p) PROVE ~ReceiptTorn'
  BY <1>2 DEF Crash
<1>3. ASSUME NEW h \in Holders, BeginClaim(h) PROVE ~ReceiptTorn'
  BY <1>3 DEF BeginClaim
<1>4. ASSUME NEW h \in Holders, CreateClaim(h) PROVE ~ReceiptTorn'
  BY <1>4 DEF CreateClaim, Fault, Race
<1>5. ASSUME NEW h \in Holders, FillClaim(h) PROVE ~ReceiptTorn'
  BY <1>5 DEF FillClaim, Fault
<1>6. ASSUME NEW h \in Holders, ReadClaim(h) PROVE ~ReceiptTorn'
  BY <1>6 DEF ReadClaim, Retry
<1>7. ASSUME NEW h \in Holders, RecheckReceipt(h) PROVE ~ReceiptTorn'
  BY <1>7 DEF RecheckReceipt
<1>8. ASSUME NEW h \in Holders, RereadClaim(h) PROVE ~ReceiptTorn'
  BY <1>8 DEF RereadClaim, Retry
<1>9. ASSUME NEW h \in Holders, UnlinkStale(h) PROVE ~ReceiptTorn'
  BY <1>9 DEF UnlinkStale, Fault, Race, Retry
<1>10. ASSUME NEW h \in Holders, SendSucceeds(h) PROVE ~ReceiptTorn'
  BY <1>10 DEF SendSucceeds
<1>11. ASSUME NEW h \in Holders, SendRefused(h) PROVE ~ReceiptTorn'
  BY <1>11 DEF SendRefused
<1>12. ASSUME NEW h \in Holders, SendFails(h) PROVE ~ReceiptTorn'
  BY <1>12 DEF SendFails
<1>13. ASSUME NEW h \in Holders, ReadOwnClaim(h) PROVE ~ReceiptTorn'
  BY <1>13 DEF ReadOwnClaim
<1>14. ASSUME NEW h \in Holders, CreateReceipt(h) PROVE ~ReceiptTorn'
  BY <1>14 DEF CreateReceipt, ReceiptFails, Fault
<1>15. ASSUME NEW h \in Holders, FillReceipt(h) PROVE ~ReceiptTorn'
  BY <1>15 DEF FillReceipt, ReceiptFails, Fault
<1>16. ASSUME NEW h \in Holders, ClearClaim(h) PROVE ~ReceiptTorn'
  BY <1>16 DEF ClearClaim, RemoveClaim, Fault
<1>17. ASSUME NEW h \in Holders, ReadReleased(h) PROVE ~ReceiptTorn'
  BY <1>17 DEF ReadReleased
<1>18. ASSUME NEW h \in Holders, DropClaim(h) PROVE ~ReceiptTorn'
  BY <1>18 DEF DropClaim, RemoveClaim, Fault
<1>19. ASSUME NEW h \in Holders, Presume(h) PROVE ~ReceiptTorn'
  BY <1>19 DEF Presume
<1>20. CASE UNCHANGED injectionVars
  BY <1>20 DEF injectionVars
<1> QED BY <1>1, <1>2, <1>3, <1>4, <1>5, <1>6, <1>7, <1>8, <1>9, <1>10, <1>11, <1>12, <1>13,
      <1>14, <1>15, <1>16, <1>17, <1>18, <1>19, <1>20 DEF GateNext, InjectionNext, HolderStep,
      ClaimStep, SendStep, ConfirmStep, ReleaseStep

\* So without torn files the channels of one process inject a message once, and once
\* more for each crash between a delivery and its receipt and for each slow send.
THEOREM InjectionsAccountedWhenFilled ==
  ASSUME OneProcess, ~WritesTear
  PROVE  InjectionSpec => []InjectionsAccounted
<1>1. InjectionInit => ~ReceiptTorn
  BY DEF InjectionInit, ReceiptTorn
<1>2. TypeOK /\ ~ReceiptTorn /\ [InjectionNext]_injectionVars => ~ReceiptTorn'
  BY FilledStep DEF GateNext
<1> QED BY InjectionTypeOK, InjectionInjectionsAccounted, <1>1, <1>2, PTL DEF InjectionSpec

-----------------------------------------------------------------------------
(* The two channels of a completion: each step is one of the gate *)

USE CompletionAssumption DEF CompletionAssumption

\* A channel holds or wants the claim only within its call.
ChannelInv ==
  \A s \in Sessions :
    /\ consumerPc[s] # "gate" => pc[Consumer(s)] = "idle"
    /\ busPc[s] \notin {"notify", "send", "settle"} => pc[Bus(s)] = "idle"
    /\ busPc[s] = "send" => pc[Bus(s)] = "sending"

\* The sessions' channels are the holders.
LEMMA TheChannels ==
  /\ \A s \in Sessions : /\ Bus(s) \in Holders /\ ProcessOf[Bus(s)] = s
                         /\ Consumer(s) \in Holders /\ ProcessOf[Consumer(s)] = s
  /\ \A s, t \in Sessions : /\ Bus(s) # Consumer(t)
                            /\ Bus(s) = Bus(t) => s = t
                            /\ Consumer(s) = Consumer(t) => s = t
  /\ \A h \in Holders : \E s \in Sessions : h = Bus(s) \/ h = Consumer(s)
<1>1. \A h \in Holders : \E s \in Sessions : h = Bus(s) \/ h = Consumer(s)
  <2> SUFFICES ASSUME NEW h \in Holders
               PROVE  \E s \in Sessions : h = Bus(s) \/ h = Consumer(s)
    OBVIOUS
  <2>1. h \in {"eventbus", "mailbox"} \X Sessions
    OBVIOUS
  <2>2. h = <<h[1], h[2]>> /\ h[1] \in {"eventbus", "mailbox"} /\ h[2] \in Sessions
    BY <2>1
  <2> QED BY <2>2 DEF Bus, Consumer
<1>2. \A s \in Sessions : /\ Bus(s) \in Holders /\ ProcessOf[Bus(s)] = s
                          /\ Consumer(s) \in Holders /\ ProcessOf[Consumer(s)] = s
  BY DEF Bus, Consumer
<1>3. \A s, t \in Sessions : /\ Bus(s) # Consumer(t)
                             /\ Bus(s) = Bus(t) => s = t
                             /\ Consumer(s) = Consumer(t) => s = t
  BY DEF Bus, Consumer
<1> QED BY <1>1, <1>2, <1>3

\* While the bus runs, its session's consumer is idle or awaits its send.
LEMMA BusAlone ==
  ASSUME ChannelInv, NEW s \in Sessions, NEW label, BusAt(s, label), NEW l, pc[Bus(s)] = l
  PROVE  At(Bus(s), l)
<1>1. pc[Consumer(s)] \in {"idle", "sending"}
  BY DEF BusAt, ChannelInv
<1>2. ASSUME NEW k \in Holders, k # Bus(s), ProcessOf[k] = s PROVE k = Consumer(s)
  <2>1. PICK t \in Sessions : k = Bus(t) \/ k = Consumer(t)
    BY TheChannels
  <2>2. t = s
    BY <1>2, <2>1, TheChannels
  <2> QED BY <1>2, <2>1, <2>2
<1>3. ProcessOf[Bus(s)] = s
  BY TheChannels
<1> QED BY <1>1, <1>2, <1>3 DEF At

\* What a step does to the gate: one of InjectionClaim's, or it confirms what was not
\* injected - which shows in presumed unless the message had arrived on another way.
GateStepped ==
  /\ presumed \subseteq presumed'
  /\ \/ [InjectionNext]_injectionVars
     \/ /\ \E h \in Holders : Presume(h)
        /\ presumed' # {} \/ delivered > 0

LEMMA GateStep ==
  ASSUME TypeOK, DeliveryTypes, ChannelInv, [CompletionNext]_completionVars
  PROVE  GateStepped
<1> USE TheChannels DEF GateStepped, InjectionNext, HolderStep
<1>1. ASSUME TimePasses PROVE GateStepped
  BY <1>1 DEF TimePasses
<1>2. ASSUME NEW s \in Sessions, SeeResult(s) PROVE GateStepped
  BY <1>2 DEF SeeResult
<1>3. ASSUME NEW s \in Sessions, CheckLetter(s) PROVE GateStepped
  BY <1>3 DEF CheckLetter
<1>4. ASSUME NEW s \in Sessions, WriteLetter(s) PROVE GateStepped
  BY <1>4 DEF WriteLetter
<1>5. ASSUME NEW s \in Sessions, BusGate(s) PROVE GateStepped
  BY <1>5 DEF BusGate
<1>6. ASSUME NEW s \in Sessions, BusNotify(s) PROVE GateStepped
  <2>1. CASE UNCHANGED <<injectionVars, presumed>>
    BY <2>1
  <2>2. CASE pc[Bus(s)] = "sending" /\ notified
    <3>1. Presume(Bus(s))
      BY <1>6, <2>2, BusAlone DEF BusNotify, Presume, Unseen, TypeOK
    <3>2. presumed' = IF delivered = 0 THEN presumed \cup {"mark"} ELSE presumed
      BY <1>6, <2>2 DEF BusNotify
    <3>3. presumed \subseteq presumed' /\ (presumed' # {} \/ delivered > 0)
      <4>1. CASE delivered = 0
        BY <3>2, <4>1
      <4>2. CASE delivered # 0
        BY <3>2, <4>2 DEF TypeOK
      <4> QED BY <4>1, <4>2
    <3> QED BY <3>1, <3>3
  <2> QED BY <1>6, <2>1, <2>2 DEF BusNotify
<1>7. ASSUME NEW s \in Sessions, BusSend(s) PROVE GateStepped
  <2>1. CASE SendSucceeds(Bus(s)) /\ UNCHANGED presumed
    BY <2>1 DEF SendStep
  <2>2. CASE SendFails(Bus(s)) /\ UNCHANGED presumed
    BY <2>2 DEF SendStep
  <2>3. CASE refusals < MaxRefusals /\ refusals' = refusals + 1
             /\ presumed' = presumed \cup {"send"} /\ Goto(Bus(s), "confirm")
             /\ UNCHANGED <<claiming, receipt, attempts, verdict, delivered, lost, stolen>>
             /\ UNCHANGED <<raced, crashes, slow, faults>>
    <3>1. pc[Bus(s)] = "sending"
      BY <1>7 DEF BusSend, BusAt, ChannelInv
    <3>2. Presume(Bus(s))
      BY <1>7, <2>3, <3>1, BusAlone DEF BusSend, Presume, TypeOK
    <3> QED BY <2>3, <3>2
  <2> QED BY <1>7, <2>1, <2>2, <2>3 DEF BusSend
<1>8. ASSUME NEW s \in Sessions, BusDone(s) PROVE GateStepped
  BY <1>8 DEF BusDone
<1>9. ASSUME NEW s \in Sessions, BusClaims(s) PROVE GateStepped
  BY <1>9 DEF BusClaims, deliveryVars
<1>10. ASSUME NEW s \in Sessions, ListLetters(s) PROVE GateStepped
  BY <1>10 DEF ListLetters
<1>11. ASSUME NEW s \in Sessions, ReadLetter(s) PROVE GateStepped
  BY <1>11 DEF ReadLetter
<1>12. ASSUME NEW s \in Sessions, ClaimLetter(s) PROVE GateStepped
  BY <1>12 DEF ClaimLetter
<1>13. ASSUME NEW s \in Sessions, PassFence(s) PROVE GateStepped
  BY <1>13 DEF PassFence
<1>14. ASSUME NEW s \in Sessions, ConsumerInjects(s) PROVE GateStepped
  BY <1>14 DEF ConsumerInjects, SendStep, deliveryVars
<1>15. ASSUME NEW s \in Sessions, Settle(s) PROVE GateStepped
  BY <1>15 DEF Settle
<1>16. ASSUME NEW s \in Sessions, ReadToAck(s) PROVE GateStepped
  BY <1>16 DEF ReadToAck
<1>17. ASSUME NEW s \in Sessions, AckLetter(s) PROVE GateStepped
  BY <1>17 DEF AckLetter
<1>18. ASSUME NEW s \in Sessions, ReadToFree(s) PROVE GateStepped
  BY <1>18 DEF ReadToFree
<1>19. ASSUME NEW s \in Sessions, FreeLetter(s) PROVE GateStepped
  BY <1>19 DEF FreeLetter
<1>20. ASSUME NEW s \in Sessions, OwnerMoves(s) PROVE GateStepped
  BY <1>20 DEF OwnerMoves
<1>21. ASSUME NEW s \in Sessions, SessionCrash(s) PROVE GateStepped
  BY <1>21 DEF SessionCrash
<1>22. CASE UNCHANGED completionVars
  BY <1>22 DEF completionVars, deliveryVars
<1> QED BY <1>1, <1>2, <1>3, <1>4, <1>5, <1>6, <1>7, <1>8, <1>9, <1>10, <1>11, <1>12, <1>13,
      <1>14, <1>15, <1>16, <1>17, <1>18, <1>19, <1>20, <1>21, <1>22 DEF CompletionNext,
      BusStep, ConsumerStep

-----------------------------------------------------------------------------
(* The two channels of a completion: types, and who is at the gate *)

LEMMA DeliveryTypesStep ==
  ASSUME TypeOK, DeliveryTypes, [CompletionNext]_completionVars
  PROVE  DeliveryTypes'
<1> USE DEF DeliveryTypes, LetterFiles, NoLetter, PendingLetter, BusGoto, ConsumerGoto, BusAt,
      ConsumerAt
<1>1. ASSUME TimePasses PROVE DeliveryTypes'
  <2>1. letter' \in LetterFiles /\ (letter'.status = "claimed" => letter'.by # NoSession)
    <3>1. CASE letter' = letter
      BY <3>1
    <3>2. CASE letter.status = "claimed" /\ letter' = [letter EXCEPT !.old = TRUE]
      <4>1. letter'.status = letter.status /\ letter'.by = letter.by
        BY <3>2
      <4>2. letter' \in LetterFiles
        BY <3>2
      <4> QED BY <4>1, <4>2
    <3> QED BY <1>1, <3>1, <3>2 DEF TimePasses
  <2> QED BY <1>1, <2>1 DEF TimePasses
<1>2. ASSUME NEW s \in Sessions, SeeResult(s) PROVE DeliveryTypes'
  BY <1>2 DEF SeeResult
<1>3. ASSUME NEW s \in Sessions, CheckLetter(s) PROVE DeliveryTypes'
  BY <1>3 DEF CheckLetter
<1>4. ASSUME NEW s \in Sessions, WriteLetter(s) PROVE DeliveryTypes'
  BY <1>4 DEF WriteLetter
<1>5. ASSUME NEW s \in Sessions, BusGate(s) PROVE DeliveryTypes'
  BY <1>5 DEF BusGate
<1>6. ASSUME NEW s \in Sessions, BusNotify(s) PROVE DeliveryTypes'
  <2>1. presumed' \subseteq {"send", "mark"}
    <3>1. presumed' = presumed \/ presumed' = presumed \cup {"mark"}
      BY <1>6 DEF BusNotify
    <3> QED BY <3>1
  <2>2. notified' \in BOOLEAN
    BY <1>6 DEF BusNotify
  <2> QED BY <1>6, <2>1, <2>2 DEF BusNotify
<1>7. ASSUME NEW s \in Sessions, BusSend(s) PROVE DeliveryTypes'
  BY <1>7 DEF BusSend
<1>8. ASSUME NEW s \in Sessions, BusDone(s) PROVE DeliveryTypes'
  BY <1>8 DEF BusDone
<1>9. ASSUME NEW s \in Sessions, BusClaims(s) PROVE DeliveryTypes'
  BY <1>9 DEF BusClaims, deliveryVars
<1>10. ASSUME NEW s \in Sessions, ListLetters(s) PROVE DeliveryTypes'
  BY <1>10 DEF ListLetters
<1>11. ASSUME NEW s \in Sessions, ReadLetter(s) PROVE DeliveryTypes'
  BY <1>11 DEF ReadLetter
<1>12. ASSUME NEW s \in Sessions, ClaimLetter(s) PROVE DeliveryTypes'
  <2>1. letter' \in LetterFiles /\ (letter'.status = "claimed" => letter'.by # NoSession)
    BY <1>12 DEF ClaimLetter
  <2> QED BY <1>12, <2>1 DEF ClaimLetter
<1>13. ASSUME NEW s \in Sessions, PassFence(s) PROVE DeliveryTypes'
  BY <1>13 DEF PassFence
<1>14. ASSUME NEW s \in Sessions, ConsumerInjects(s) PROVE DeliveryTypes'
  BY <1>14 DEF ConsumerInjects, deliveryVars
<1>15. ASSUME NEW s \in Sessions, Settle(s) PROVE DeliveryTypes'
  BY <1>15 DEF Settle
<1>16. ASSUME NEW s \in Sessions, ReadToAck(s) PROVE DeliveryTypes'
  BY <1>16 DEF ReadToAck
<1>17. ASSUME NEW s \in Sessions, AckLetter(s) PROVE DeliveryTypes'
  <2>1. letter' \in LetterFiles /\ letter'.status # "claimed"
    BY <1>17 DEF AckLetter
  <2> QED BY <1>17, <2>1 DEF AckLetter
<1>18. ASSUME NEW s \in Sessions, ReadToFree(s) PROVE DeliveryTypes'
  BY <1>18 DEF ReadToFree
<1>19. ASSUME NEW s \in Sessions, FreeLetter(s) PROVE DeliveryTypes'
  BY <1>19 DEF FreeLetter
<1>20. ASSUME NEW s \in Sessions, OwnerMoves(s) PROVE DeliveryTypes'
  <2>1. moves' \in 0 .. MaxMoves
    BY <1>20 DEF OwnerMoves
  <2> QED BY <1>20, <2>1 DEF OwnerMoves
<1>21. ASSUME NEW s \in Sessions, SessionCrash(s) PROVE DeliveryTypes'
  BY <1>21 DEF SessionCrash
<1>22. CASE UNCHANGED completionVars
  BY <1>22 DEF completionVars, deliveryVars
<1> QED BY <1>1, <1>2, <1>3, <1>4, <1>5, <1>6, <1>7, <1>8, <1>9, <1>10, <1>11, <1>12, <1>13,
      <1>14, <1>15, <1>16, <1>17, <1>18, <1>19, <1>20, <1>21, <1>22 DEF CompletionNext,
      BusStep, ConsumerStep

\* What a file operation or a send of one holder does to the others' calls: nothing.
HolderWork(h) ==
  BeginClaim(h) \/ ClaimStep(h) \/ SendStep(h) \/ ConfirmStep(h) \/ ReleaseStep(h)

LEMMA OwnCall ==
  ASSUME TypeOK, NEW h \in Holders, HolderWork(h)
  PROVE  \A k \in Holders \ {h} : pc'[k] = pc[k] /\ verdict'[k] = verdict[k]
<1> USE DEF TypeOK, Goto, Return, Unseen, Retry
<1>1. CASE BeginClaim(h)
  BY <1>1 DEF BeginClaim
<1>2. CASE ClaimStep(h)
  BY <1>2 DEF ClaimStep, CreateClaim, Fault, Race, FillClaim, ReadClaim, RecheckReceipt,
    RereadClaim, UnlinkStale
<1>3. CASE SendStep(h)
  BY <1>3 DEF SendStep, SendSucceeds, SendRefused, SendFails
<1>4. CASE ConfirmStep(h)
  BY <1>4 DEF ConfirmStep, ReadOwnClaim, CreateReceipt, ReceiptFails, Fault, FillReceipt,
    ClearClaim, RemoveClaim
<1>5. CASE ReleaseStep(h)
  BY <1>5 DEF ReleaseStep, ReadReleased, DropClaim, RemoveClaim, Fault
<1> QED BY <1>1, <1>2, <1>3, <1>4, <1>5 DEF HolderWork

\* A step that leaves the gate alone and no channel's call behind.
LEMMA ChannelFrame ==
  ASSUME ChannelInv, pc' = pc,
         \A s \in Sessions :
           /\ consumerPc[s] = "gate" => consumerPc'[s] = "gate" \/ pc[Consumer(s)] = "idle"
           /\ \/ busPc'[s] = busPc[s]
              \/ pc[Bus(s)] = "idle" /\ busPc'[s] # "send"
              \/ pc[Bus(s)] = "sending" /\ busPc'[s] = "send"
  PROVE  ChannelInv'
BY TheChannels DEF ChannelInv

LEMMA ChannelStep ==
  ASSUME TypeOK, DeliveryTypes, ChannelInv, [CompletionNext]_completionVars
  PROVE  ChannelInv'
<1>1. ASSUME TimePasses PROVE ChannelInv'
  <2>1. pc' = pc
    BY <1>1 DEF TimePasses, ClaimGrowsStale, injectionVars
  <2>2. \A t \in Sessions :
          /\ consumerPc[t] = "gate" => consumerPc'[t] = "gate" \/ pc[Consumer(t)] = "idle"
          /\ \/ busPc'[t] = busPc[t]
             \/ pc[Bus(t)] = "idle" /\ busPc'[t] # "send"
             \/ pc[Bus(t)] = "sending" /\ busPc'[t] = "send"
    BY <1>1 DEF TimePasses, BusGoto, ConsumerGoto, BusAt, ConsumerAt, DeliveryTypes, ChannelInv
  <2> QED BY <2>1, <2>2, ChannelFrame
<1>2. ASSUME NEW s \in Sessions, SeeResult(s) PROVE ChannelInv'
  <2>1. pc' = pc
    BY <1>2 DEF SeeResult, injectionVars
  <2>2. \A t \in Sessions :
          /\ consumerPc[t] = "gate" => consumerPc'[t] = "gate" \/ pc[Consumer(t)] = "idle"
          /\ \/ busPc'[t] = busPc[t]
             \/ pc[Bus(t)] = "idle" /\ busPc'[t] # "send"
             \/ pc[Bus(t)] = "sending" /\ busPc'[t] = "send"
    BY <1>2 DEF SeeResult, BusGoto, ConsumerGoto, BusAt, ConsumerAt, DeliveryTypes, ChannelInv
  <2> QED BY <2>1, <2>2, ChannelFrame
<1>3. ASSUME NEW s \in Sessions, CheckLetter(s) PROVE ChannelInv'
  <2>1. pc' = pc
    BY <1>3 DEF CheckLetter, injectionVars
  <2>2. \A t \in Sessions :
          /\ consumerPc[t] = "gate" => consumerPc'[t] = "gate" \/ pc[Consumer(t)] = "idle"
          /\ \/ busPc'[t] = busPc[t]
             \/ pc[Bus(t)] = "idle" /\ busPc'[t] # "send"
             \/ pc[Bus(t)] = "sending" /\ busPc'[t] = "send"
    BY <1>3 DEF CheckLetter, BusGoto, ConsumerGoto, BusAt, ConsumerAt, DeliveryTypes, ChannelInv
  <2> QED BY <2>1, <2>2, ChannelFrame
<1>4. ASSUME NEW s \in Sessions, WriteLetter(s) PROVE ChannelInv'
  <2>1. pc' = pc
    BY <1>4 DEF WriteLetter, injectionVars
  <2>2. \A t \in Sessions :
          /\ consumerPc[t] = "gate" => consumerPc'[t] = "gate" \/ pc[Consumer(t)] = "idle"
          /\ \/ busPc'[t] = busPc[t]
             \/ pc[Bus(t)] = "idle" /\ busPc'[t] # "send"
             \/ pc[Bus(t)] = "sending" /\ busPc'[t] = "send"
    BY <1>4 DEF WriteLetter, BusGoto, ConsumerGoto, BusAt, ConsumerAt, DeliveryTypes, ChannelInv
  <2> QED BY <2>1, <2>2, ChannelFrame
<1>5. ASSUME NEW s \in Sessions, BusGate(s) PROVE ChannelInv'
  <2>1. CASE BeginClaim(Bus(s)) /\ BusGoto(s, "notify")
    <3>1. \A k \in Holders \ {Bus(s)} : pc'[k] = pc[k]
      <4>1. Bus(s) \in Holders /\ HolderWork(Bus(s))
        BY <2>1, TheChannels DEF HolderWork, SendStep
      <4> QED BY <4>1, OwnCall
    <3>2. \A t \in Sessions :
            /\ pc'[Consumer(t)] = pc[Consumer(t)] \/ Bus(s) = Consumer(t)
            /\ pc'[Bus(t)] = pc[Bus(t)] \/ Bus(s) = Bus(t)
      BY <3>1, TheChannels
    <3>3. consumerPc' = consumerPc /\ busPc' = [busPc EXCEPT ![s] = "notify"]
      BY <1>5, <2>1 DEF BusGate, BusGoto
    <3> QED BY <3>2, <3>3, TheChannels DEF ChannelInv, DeliveryTypes
  <2>2. CASE BusGoto(s, "idle") /\ UNCHANGED injectionVars
    <3>1. consumerPc' = consumerPc /\ busPc' = [busPc EXCEPT ![s] = "idle"] /\ pc' = pc
      BY <1>5, <2>2 DEF BusGate, BusGoto, injectionVars
    <3>2. pc[Bus(s)] = "idle"
      BY <1>5 DEF BusGate, BusAt, ChannelInv
    <3> QED BY <3>1, <3>2 DEF ChannelInv, DeliveryTypes
  <2> QED BY <1>5, <2>1, <2>2 DEF BusGate
<1>6. ASSUME NEW s \in Sessions, BusNotify(s) PROVE ChannelInv'
  <2>1. CASE pc[Bus(s)] = "idle" /\ BusGoto(s, "idle") /\ UNCHANGED injectionVars
    <3>1. pc' = pc /\ consumerPc' = consumerPc /\ busPc' = [busPc EXCEPT ![s] = "idle"]
      BY <1>6, <2>1 DEF BusNotify, BusGoto, injectionVars
    <3> QED BY <2>1, <3>1 DEF ChannelInv, DeliveryTypes
  <2>2. CASE pc[Bus(s)] = "sending" /\ BusGoto(s, "send") /\ UNCHANGED injectionVars
    <3>1. pc' = pc /\ consumerPc' = consumerPc /\ busPc' = [busPc EXCEPT ![s] = "send"]
      BY <1>6, <2>2 DEF BusNotify, BusGoto, injectionVars
    <3> QED BY <2>2, <3>1 DEF ChannelInv, DeliveryTypes
  <2>3. CASE Goto(Bus(s), "confirm") /\ BusGoto(s, "settle")
    BY <1>6, <2>3, TheChannels DEF BusNotify, Goto, BusGoto, ChannelInv, DeliveryTypes, TypeOK
  <2> QED BY <1>6, <2>1, <2>2, <2>3 DEF BusNotify
<1>7. ASSUME NEW s \in Sessions, BusSend(s) PROVE ChannelInv'
  <2>1. consumerPc' = consumerPc /\ busPc' = [busPc EXCEPT ![s] = "settle"]
    BY <1>7 DEF BusSend, BusGoto
  <2>2. \A k \in Holders \ {Bus(s)} : pc'[k] = pc[k]
    BY <1>7 DEF BusSend, SendSucceeds, SendFails, Goto, Return, TypeOK
  <2>3. \A t \in Sessions :
          /\ pc'[Consumer(t)] = pc[Consumer(t)]
          /\ t # s => pc'[Bus(t)] = pc[Bus(t)]
    BY <2>2, TheChannels
  <2> QED BY <2>1, <2>3 DEF ChannelInv, DeliveryTypes
<1>8. ASSUME NEW s \in Sessions, BusDone(s) PROVE ChannelInv'
  <2>1. pc' = pc
    BY <1>8 DEF BusDone, injectionVars
  <2>2. \A t \in Sessions :
          /\ consumerPc[t] = "gate" => consumerPc'[t] = "gate" \/ pc[Consumer(t)] = "idle"
          /\ \/ busPc'[t] = busPc[t]
             \/ pc[Bus(t)] = "idle" /\ busPc'[t] # "send"
             \/ pc[Bus(t)] = "sending" /\ busPc'[t] = "send"
    BY <1>8 DEF BusDone, BusGoto, ConsumerGoto, BusAt, ConsumerAt, DeliveryTypes, ChannelInv
  <2> QED BY <2>1, <2>2, ChannelFrame
<1>9. ASSUME NEW s \in Sessions, BusClaims(s) PROVE ChannelInv'
  <2>1. \A k \in Holders \ {Bus(s)} : pc'[k] = pc[k]
    <3>1. Bus(s) \in Holders /\ HolderWork(Bus(s))
      BY <1>9, TheChannels DEF BusClaims, HolderWork, SendStep
    <3> QED BY <3>1, OwnCall
  <2>2. \A t \in Sessions :
          /\ pc'[Consumer(t)] = pc[Consumer(t)] \/ Bus(s) = Consumer(t)
          /\ pc'[Bus(t)] = pc[Bus(t)] \/ Bus(s) = Bus(t)
    BY <2>1, TheChannels
  <2>3. consumerPc' = consumerPc /\ busPc' = busPc /\ busPc[s] \in {"notify", "settle"}
    BY <1>9 DEF BusClaims, deliveryVars, BusAt
  <2> QED BY <2>2, <2>3, TheChannels DEF ChannelInv
<1>10. ASSUME NEW s \in Sessions, ListLetters(s) PROVE ChannelInv'
  <2>1. pc' = pc
    BY <1>10 DEF ListLetters, injectionVars
  <2>2. \A t \in Sessions :
          /\ consumerPc[t] = "gate" => consumerPc'[t] = "gate" \/ pc[Consumer(t)] = "idle"
          /\ \/ busPc'[t] = busPc[t]
             \/ pc[Bus(t)] = "idle" /\ busPc'[t] # "send"
             \/ pc[Bus(t)] = "sending" /\ busPc'[t] = "send"
    BY <1>10 DEF ListLetters, BusGoto, ConsumerGoto, BusAt, ConsumerAt, DeliveryTypes,
      ChannelInv
  <2> QED BY <2>1, <2>2, ChannelFrame
<1>11. ASSUME NEW s \in Sessions, ReadLetter(s) PROVE ChannelInv'
  <2>1. pc' = pc
    BY <1>11 DEF ReadLetter, injectionVars
  <2>2. \A t \in Sessions :
          /\ consumerPc[t] = "gate" => consumerPc'[t] = "gate" \/ pc[Consumer(t)] = "idle"
          /\ \/ busPc'[t] = busPc[t]
             \/ pc[Bus(t)] = "idle" /\ busPc'[t] # "send"
             \/ pc[Bus(t)] = "sending" /\ busPc'[t] = "send"
    BY <1>11 DEF ReadLetter, BusGoto, ConsumerGoto, BusAt, ConsumerAt, DeliveryTypes, ChannelInv
  <2> QED BY <2>1, <2>2, ChannelFrame
<1>12. ASSUME NEW s \in Sessions, ClaimLetter(s) PROVE ChannelInv'
  <2>1. pc' = pc
    BY <1>12 DEF ClaimLetter, injectionVars
  <2>2. \A t \in Sessions :
          /\ consumerPc[t] = "gate" => consumerPc'[t] = "gate" \/ pc[Consumer(t)] = "idle"
          /\ \/ busPc'[t] = busPc[t]
             \/ pc[Bus(t)] = "idle" /\ busPc'[t] # "send"
             \/ pc[Bus(t)] = "sending" /\ busPc'[t] = "send"
    BY <1>12 DEF ClaimLetter, BusGoto, ConsumerGoto, BusAt, ConsumerAt, DeliveryTypes,
      ChannelInv
  <2> QED BY <2>1, <2>2, ChannelFrame
<1>13. ASSUME NEW s \in Sessions, PassFence(s) PROVE ChannelInv'
  <2>1. CASE BeginClaim(Consumer(s)) /\ ConsumerGoto(s, "gate")
    <3>1. \A k \in Holders \ {Consumer(s)} : pc'[k] = pc[k]
      <4>1. Consumer(s) \in Holders /\ HolderWork(Consumer(s))
        BY <2>1, TheChannels DEF HolderWork, SendStep
      <4> QED BY <4>1, OwnCall
    <3>2. \A t \in Sessions :
            /\ pc'[Consumer(t)] = pc[Consumer(t)] \/ Consumer(s) = Consumer(t)
            /\ pc'[Bus(t)] = pc[Bus(t)] \/ Consumer(s) = Bus(t)
      BY <3>1, TheChannels
    <3>3. busPc' = busPc /\ consumerPc' = [consumerPc EXCEPT ![s] = "gate"]
      BY <1>13, <2>1 DEF PassFence, ConsumerGoto
    <3> QED BY <3>2, <3>3, TheChannels DEF ChannelInv, DeliveryTypes
  <2>2. CASE ConsumerGoto(s, "idle") /\ UNCHANGED injectionVars
    <3>1. busPc' = busPc /\ consumerPc' = [consumerPc EXCEPT ![s] = "idle"] /\ pc' = pc
      BY <1>13, <2>2 DEF PassFence, ConsumerGoto, injectionVars
    <3>2. pc[Consumer(s)] = "idle"
      BY <1>13 DEF PassFence, ConsumerAt, ChannelInv
    <3> QED BY <3>1, <3>2 DEF ChannelInv, DeliveryTypes
  <2> QED BY <1>13, <2>1, <2>2 DEF PassFence
<1>14. ASSUME NEW s \in Sessions, ConsumerInjects(s) PROVE ChannelInv'
  <2>1. \A k \in Holders \ {Consumer(s)} : pc'[k] = pc[k]
    <3>1. Consumer(s) \in Holders /\ HolderWork(Consumer(s))
      BY <1>14, TheChannels DEF ConsumerInjects, HolderWork, SendStep
    <3> QED BY <3>1, OwnCall
  <2>2. \A t \in Sessions :
          /\ pc'[Consumer(t)] = pc[Consumer(t)] \/ Consumer(s) = Consumer(t)
          /\ pc'[Bus(t)] = pc[Bus(t)] \/ Consumer(s) = Bus(t)
    BY <2>1, TheChannels
  <2>3. consumerPc' = consumerPc /\ busPc' = busPc /\ consumerPc[s] = "gate"
    BY <1>14 DEF ConsumerInjects, deliveryVars, ConsumerAt
  <2> QED BY <2>2, <2>3, TheChannels DEF ChannelInv
<1>15. ASSUME NEW s \in Sessions, Settle(s) PROVE ChannelInv'
  <2>1. pc' = pc
    BY <1>15 DEF Settle, injectionVars
  <2>2. \A t \in Sessions :
          /\ consumerPc[t] = "gate" => consumerPc'[t] = "gate" \/ pc[Consumer(t)] = "idle"
          /\ \/ busPc'[t] = busPc[t]
             \/ pc[Bus(t)] = "idle" /\ busPc'[t] # "send"
             \/ pc[Bus(t)] = "sending" /\ busPc'[t] = "send"
    BY <1>15 DEF Settle, BusGoto, ConsumerGoto, BusAt, ConsumerAt, DeliveryTypes, ChannelInv
  <2> QED BY <2>1, <2>2, ChannelFrame
<1>16. ASSUME NEW s \in Sessions, ReadToAck(s) PROVE ChannelInv'
  <2>1. pc' = pc
    BY <1>16 DEF ReadToAck, injectionVars
  <2>2. \A t \in Sessions :
          /\ consumerPc[t] = "gate" => consumerPc'[t] = "gate" \/ pc[Consumer(t)] = "idle"
          /\ \/ busPc'[t] = busPc[t]
             \/ pc[Bus(t)] = "idle" /\ busPc'[t] # "send"
             \/ pc[Bus(t)] = "sending" /\ busPc'[t] = "send"
    BY <1>16 DEF ReadToAck, BusGoto, ConsumerGoto, BusAt, ConsumerAt, DeliveryTypes, ChannelInv
  <2> QED BY <2>1, <2>2, ChannelFrame
<1>17. ASSUME NEW s \in Sessions, AckLetter(s) PROVE ChannelInv'
  <2>1. pc' = pc
    BY <1>17 DEF AckLetter, injectionVars
  <2>2. \A t \in Sessions :
          /\ consumerPc[t] = "gate" => consumerPc'[t] = "gate" \/ pc[Consumer(t)] = "idle"
          /\ \/ busPc'[t] = busPc[t]
             \/ pc[Bus(t)] = "idle" /\ busPc'[t] # "send"
             \/ pc[Bus(t)] = "sending" /\ busPc'[t] = "send"
    BY <1>17 DEF AckLetter, BusGoto, ConsumerGoto, BusAt, ConsumerAt, DeliveryTypes, ChannelInv
  <2> QED BY <2>1, <2>2, ChannelFrame
<1>18. ASSUME NEW s \in Sessions, ReadToFree(s) PROVE ChannelInv'
  <2>1. pc' = pc
    BY <1>18 DEF ReadToFree, injectionVars
  <2>2. \A t \in Sessions :
          /\ consumerPc[t] = "gate" => consumerPc'[t] = "gate" \/ pc[Consumer(t)] = "idle"
          /\ \/ busPc'[t] = busPc[t]
             \/ pc[Bus(t)] = "idle" /\ busPc'[t] # "send"
             \/ pc[Bus(t)] = "sending" /\ busPc'[t] = "send"
    BY <1>18 DEF ReadToFree, BusGoto, ConsumerGoto, BusAt, ConsumerAt, DeliveryTypes, ChannelInv
  <2> QED BY <2>1, <2>2, ChannelFrame
<1>19. ASSUME NEW s \in Sessions, FreeLetter(s) PROVE ChannelInv'
  <2>1. pc' = pc
    BY <1>19 DEF FreeLetter, injectionVars
  <2>2. \A t \in Sessions :
          /\ consumerPc[t] = "gate" => consumerPc'[t] = "gate" \/ pc[Consumer(t)] = "idle"
          /\ \/ busPc'[t] = busPc[t]
             \/ pc[Bus(t)] = "idle" /\ busPc'[t] # "send"
             \/ pc[Bus(t)] = "sending" /\ busPc'[t] = "send"
    BY <1>19 DEF FreeLetter, BusGoto, ConsumerGoto, BusAt, ConsumerAt, DeliveryTypes, ChannelInv
  <2> QED BY <2>1, <2>2, ChannelFrame
<1>20. ASSUME NEW s \in Sessions, OwnerMoves(s) PROVE ChannelInv'
  <2>1. pc' = pc
    BY <1>20 DEF OwnerMoves, injectionVars
  <2>2. \A t \in Sessions :
          /\ consumerPc[t] = "gate" => consumerPc'[t] = "gate" \/ pc[Consumer(t)] = "idle"
          /\ \/ busPc'[t] = busPc[t]
             \/ pc[Bus(t)] = "idle" /\ busPc'[t] # "send"
             \/ pc[Bus(t)] = "sending" /\ busPc'[t] = "send"
    BY <1>20 DEF OwnerMoves, BusGoto, ConsumerGoto, BusAt, ConsumerAt, DeliveryTypes, ChannelInv
  <2> QED BY <2>1, <2>2, ChannelFrame
<1>21. ASSUME NEW s \in Sessions, SessionCrash(s) PROVE ChannelInv'
  <2>1. consumerPc' = [consumerPc EXCEPT ![s] = "idle"] /\ busPc' = [busPc EXCEPT ![s] = "idle"]
    BY <1>21 DEF SessionCrash, BusGoto, ConsumerGoto
  <2>2. pc' = [h \in Holders |-> IF ProcessOf[h] = s THEN "idle" ELSE pc[h]]
    BY <1>21 DEF SessionCrash, Crash
  <2>3. \A t \in Sessions :
          /\ pc'[Consumer(t)] = IF t = s THEN "idle" ELSE pc[Consumer(t)]
          /\ pc'[Bus(t)] = IF t = s THEN "idle" ELSE pc[Bus(t)]
    <3> TAKE t \in Sessions
    <3>1. /\ Consumer(t) \in Holders /\ ProcessOf[Consumer(t)] = t
          /\ Bus(t) \in Holders /\ ProcessOf[Bus(t)] = t
      BY TheChannels
    <3> QED BY <2>2, <3>1
  <2> QED BY <2>1, <2>3 DEF ChannelInv, DeliveryTypes
<1>22. CASE UNCHANGED completionVars
  <2>1. pc' = pc
    BY <1>22 DEF completionVars, deliveryVars, injectionVars
  <2>2. \A t \in Sessions :
          /\ consumerPc[t] = "gate" => consumerPc'[t] = "gate" \/ pc[Consumer(t)] = "idle"
          /\ \/ busPc'[t] = busPc[t]
             \/ pc[Bus(t)] = "idle" /\ busPc'[t] # "send"
             \/ pc[Bus(t)] = "sending" /\ busPc'[t] = "send"
    BY <1>22 DEF completionVars, deliveryVars, BusGoto, ConsumerGoto, BusAt, ConsumerAt,
      DeliveryTypes, ChannelInv
  <2> QED BY <2>1, <2>2, ChannelFrame
<1> QED BY <1>1, <1>2, <1>3, <1>4, <1>5, <1>6, <1>7, <1>8, <1>9, <1>10, <1>11, <1>12, <1>13,
      <1>14, <1>15, <1>16, <1>17, <1>18, <1>19, <1>20, <1>21, <1>22 DEF CompletionNext,
      BusStep, ConsumerStep

LEMMA CompletionStart ==
  ASSUME CompletionInit
  PROVE  TypeOK /\ DeliveryTypes /\ ChannelInv
<1>1. TypeOK
  BY TypeInit DEF CompletionInit
<1>2. DeliveryTypes
  <2>1. letter \in LetterFiles /\ letter.status # "claimed"
    <3>1. NoLetter \in LetterFiles /\ NoLetter.status = "none"
      BY DEF LetterFiles, NoLetter
    <3>2. PendingLetter \in LetterFiles /\ PendingLetter.status = "pending"
      BY DEF LetterFiles, NoLetter, PendingLetter
    <3> QED BY <3>1, <3>2 DEF CompletionInit
  <2>2. moves \in 0 .. MaxMoves
    BY DEF CompletionInit
  <2> QED BY <2>1, <2>2 DEF CompletionInit, DeliveryTypes
<1>3. ChannelInv
  BY TheChannels DEF CompletionInit, InjectionInit, ChannelInv
<1> QED BY <1>1, <1>2, <1>3

LEMMA CompletionTypes == CompletionSpec => [](TypeOK /\ DeliveryTypes /\ ChannelInv)
<1>1. TypeOK /\ DeliveryTypes /\ ChannelInv /\ [CompletionNext]_completionVars => TypeOK'
  BY GateStep, TypeStep DEF GateStepped, GateNext
<1>2. TypeOK /\ DeliveryTypes /\ ChannelInv /\ [CompletionNext]_completionVars
        => DeliveryTypes' /\ ChannelInv'
  BY DeliveryTypesStep, ChannelStep
<1> QED BY CompletionStart, <1>1, <1>2, PTL DEF CompletionSpec

\* Type correctness of the letter, the mark, the gate's files and both channels' calls,
\* for any sessions and bounds; a claimed letter names its claimer.
THEOREM CompletionTypeOK == CompletionSpec => []DeliveryTypeOK
<1>1. TypeOK /\ DeliveryTypes => DeliveryTypeOK
  BY DEF DeliveryTypeOK
<1> QED BY CompletionTypes, <1>1, PTL

-----------------------------------------------------------------------------
(* The two channels of a completion: how often it is injected *)

\* One session's event bus and mailbox loop between them inject a completion once, and
\* once more for each crash between a delivery and its receipt and each slow send.
THEOREM CompletionInjectionsAccounted ==
  ASSUME \A s, t \in Sessions : s = t, ~WritesTear
  PROVE  CompletionSpec => []InjectionsAccounted
<1>1. OneProcess
  <2>1. \A h \in Holders : ProcessOf[h] \in Sessions
    OBVIOUS
  <2> QED BY <2>1 DEF OneProcess
<1>2. CompletionInit => CallInv /\ AccountInv /\ ~ReceiptTorn
  BY CallInit, AccountInit DEF CompletionInit, InjectionInit, ReceiptTorn
<1>3. TypeOK /\ DeliveryTypes /\ ChannelInv /\ [CompletionNext]_completionVars
        => [GateNext]_injectionVars
  BY GateStep DEF GateStepped, GateNext
<1>4. CallInv /\ TypeOK /\ [GateNext]_injectionVars => CallInv'
  BY <1>1, CallStep
<1>5. AccountInv /\ CallInv /\ TypeOK /\ TypeOK' /\ [GateNext]_injectionVars => AccountInv'
  BY <1>1, AccountStep
<1>6. ~ReceiptTorn /\ TypeOK /\ [GateNext]_injectionVars => ~ReceiptTorn'
  BY FilledStep
<1> QED BY CompletionTypes, Accounted, <1>2, <1>3, <1>4, <1>5, <1>6, PTL DEF CompletionSpec

-----------------------------------------------------------------------------
(* The two channels of a completion: when the letter is acknowledged unread *)

\* What is written or about to be written about the injection is true.
Truthful ==
  /\ receipt # "none" => delivered > 0
  /\ \A h \in Holders : pc[h] \in Confirming \/ verdict[h] \in {"sent", "already"} => delivered > 0

\* Until the bus has confirmed what it did not inject, the mailbox loop acknowledges
\* only what has reached the conversation.
ReadInv ==
  presumed = {} =>
    /\ Truthful
    /\ \A s \in Sessions : consumerPc[s] \in {"ack", "writeAck"} => delivered > 0
    /\ letter.status = "acked" => delivered > 0

\* What has reached the conversation stays there.
LEMMA DeliveredStays ==
  ASSUME TypeOK, delivered > 0, [GateNext]_injectionVars
  PROVE  delivered' > 0
<1> USE DEF TypeOK, Goto, Return, Unseen
<1>1. ASSUME ClaimGrowsStale PROVE delivered' > 0
  BY <1>1 DEF ClaimGrowsStale
<1>2. ASSUME NEW p \in Processes, Crash(p) PROVE delivered' > 0
  BY <1>2 DEF Crash
<1>3. ASSUME NEW h \in Holders, BeginClaim(h) PROVE delivered' > 0
  BY <1>3 DEF BeginClaim
<1>4. ASSUME NEW h \in Holders, CreateClaim(h) PROVE delivered' > 0
  BY <1>4 DEF CreateClaim, Fault, Race
<1>5. ASSUME NEW h \in Holders, FillClaim(h) PROVE delivered' > 0
  BY <1>5 DEF FillClaim, Fault
<1>6. ASSUME NEW h \in Holders, ReadClaim(h) PROVE delivered' > 0
  BY <1>6 DEF ReadClaim
<1>7. ASSUME NEW h \in Holders, RecheckReceipt(h) PROVE delivered' > 0
  BY <1>7 DEF RecheckReceipt
<1>8. ASSUME NEW h \in Holders, RereadClaim(h) PROVE delivered' > 0
  BY <1>8 DEF RereadClaim
<1>9. ASSUME NEW h \in Holders, UnlinkStale(h) PROVE delivered' > 0
  BY <1>9 DEF UnlinkStale, Fault, Race, Retry
<1>10. ASSUME NEW h \in Holders, SendSucceeds(h) PROVE delivered' > 0
  BY <1>10 DEF SendSucceeds
<1>11. ASSUME NEW h \in Holders, SendRefused(h) PROVE delivered' > 0
  BY <1>11 DEF SendRefused
<1>12. ASSUME NEW h \in Holders, SendFails(h) PROVE delivered' > 0
  BY <1>12 DEF SendFails
<1>13. ASSUME NEW h \in Holders, ReadOwnClaim(h) PROVE delivered' > 0
  BY <1>13 DEF ReadOwnClaim
<1>14. ASSUME NEW h \in Holders, CreateReceipt(h) PROVE delivered' > 0
  BY <1>14 DEF CreateReceipt, ReceiptFails, Fault
<1>15. ASSUME NEW h \in Holders, FillReceipt(h) PROVE delivered' > 0
  BY <1>15 DEF FillReceipt, ReceiptFails, Fault
<1>16. ASSUME NEW h \in Holders, ClearClaim(h) PROVE delivered' > 0
  BY <1>16 DEF ClearClaim, RemoveClaim, Fault
<1>17. ASSUME NEW h \in Holders, ReadReleased(h) PROVE delivered' > 0
  BY <1>17 DEF ReadReleased
<1>18. ASSUME NEW h \in Holders, DropClaim(h) PROVE delivered' > 0
  BY <1>18 DEF DropClaim, RemoveClaim, Fault
<1>19. ASSUME NEW h \in Holders, Presume(h) PROVE delivered' > 0
  BY <1>19 DEF Presume
<1>20. CASE UNCHANGED injectionVars
  BY <1>20 DEF injectionVars
<1> QED BY <1>1, <1>2, <1>3, <1>4, <1>5, <1>6, <1>7, <1>8, <1>9, <1>10, <1>11, <1>12, <1>13,
      <1>14, <1>15, <1>16, <1>17, <1>18, <1>19, <1>20 DEF GateNext, InjectionNext, HolderStep,
      ClaimStep, SendStep, ConfirmStep, ReleaseStep

\* Nothing of InjectionClaim's writes what is not true.
LEMMA TruthfulStep ==
  ASSUME TypeOK, Truthful, [InjectionNext]_injectionVars
  PROVE  Truthful'
<1> USE DEF Truthful, TypeOK, Goto, Return, Unseen, Retry, At
<1>1. ASSUME ClaimGrowsStale PROVE Truthful'
  BY <1>1 DEF ClaimGrowsStale
<1>2. ASSUME NEW p \in Processes, Crash(p) PROVE Truthful'
  BY <1>2 DEF Crash, Confirming
<1>3. ASSUME NEW h \in Holders, BeginClaim(h) PROVE Truthful'
  BY <1>3 DEF BeginClaim, Confirming
<1>4. ASSUME NEW h \in Holders, ClaimStep(h) PROVE Truthful'
  BY <1>4 DEF ClaimStep, CreateClaim, Fault, Race, FillClaim, ReadClaim, RecheckReceipt,
    RereadClaim, UnlinkStale, Confirming
<1>5. ASSUME NEW h \in Holders, SendStep(h) PROVE Truthful'
  BY <1>5 DEF SendStep, SendSucceeds, SendRefused, SendFails, Confirming
<1>6. ASSUME NEW h \in Holders, ConfirmStep(h) PROVE Truthful'
  BY <1>6 DEF ConfirmStep, ReadOwnClaim, CreateReceipt, ReceiptFails, Fault, FillReceipt,
    ClearClaim, RemoveClaim, Confirming
<1>7. ASSUME NEW h \in Holders, ReleaseStep(h) PROVE Truthful'
  BY <1>7 DEF ReleaseStep, ReadReleased, DropClaim, RemoveClaim, Fault, Confirming
<1>8. CASE UNCHANGED injectionVars
  BY <1>8 DEF injectionVars
<1> QED BY <1>1, <1>2, <1>3, <1>4, <1>5, <1>6, <1>7, <1>8 DEF InjectionNext, HolderStep

\* How a letter comes to be acknowledged: by a loop that has the right verdict.
LEMMA AckStep ==
  ASSUME DeliveryTypes, [CompletionNext]_completionVars
  PROVE  /\ \A s \in Sessions : consumerPc'[s] \in {"ack", "writeAck"} =>
              \/ consumerPc[s] \in {"ack", "writeAck"}
              \/ verdict[Consumer(s)] \in {"sent", "already"}
         /\ letter'.status = "acked" =>
              letter.status = "acked" \/ \E s \in Sessions : consumerPc[s] = "writeAck"
<1> DEFINE Asked ==
      \A s \in Sessions : consumerPc'[s] \in {"ack", "writeAck"} =>
        \/ consumerPc[s] \in {"ack", "writeAck"}
        \/ verdict[Consumer(s)] \in {"sent", "already"}
<1> DEFINE Acked ==
      letter'.status = "acked" =>
        letter.status = "acked" \/ \E s \in Sessions : consumerPc[s] = "writeAck"
<1> USE DEF DeliveryTypes, BusGoto, ConsumerGoto, BusAt, ConsumerAt
<1>1. ASSUME TimePasses PROVE Asked /\ Acked
  <2>1. letter'.status = letter.status
    BY <1>1 DEF TimePasses, LetterFiles
  <2> QED BY <1>1, <2>1 DEF TimePasses
<1>2. ASSUME NEW s \in Sessions, SeeResult(s) PROVE Asked /\ Acked
  BY <1>2 DEF SeeResult
<1>3. ASSUME NEW s \in Sessions, CheckLetter(s) PROVE Asked /\ Acked
  BY <1>3 DEF CheckLetter
<1>4. ASSUME NEW s \in Sessions, WriteLetter(s) PROVE Asked /\ Acked
  BY <1>4 DEF WriteLetter, PendingLetter, NoLetter
<1>5. ASSUME NEW s \in Sessions, BusGate(s) PROVE Asked /\ Acked
  BY <1>5 DEF BusGate
<1>6. ASSUME NEW s \in Sessions, BusNotify(s) PROVE Asked /\ Acked
  BY <1>6 DEF BusNotify
<1>7. ASSUME NEW s \in Sessions, BusSend(s) PROVE Asked /\ Acked
  BY <1>7 DEF BusSend
<1>8. ASSUME NEW s \in Sessions, BusDone(s) PROVE Asked /\ Acked
  BY <1>8 DEF BusDone
<1>9. ASSUME NEW s \in Sessions, BusClaims(s) PROVE Asked /\ Acked
  BY <1>9 DEF BusClaims, deliveryVars
<1>10. ASSUME NEW s \in Sessions, ListLetters(s) PROVE Asked /\ Acked
  BY <1>10 DEF ListLetters
<1>11. ASSUME NEW s \in Sessions, ReadLetter(s) PROVE Asked /\ Acked
  BY <1>11 DEF ReadLetter
<1>12. ASSUME NEW s \in Sessions, ClaimLetter(s) PROVE Asked /\ Acked
  BY <1>12 DEF ClaimLetter
<1>13. ASSUME NEW s \in Sessions, PassFence(s) PROVE Asked /\ Acked
  BY <1>13 DEF PassFence
<1>14. ASSUME NEW s \in Sessions, ConsumerInjects(s) PROVE Asked /\ Acked
  BY <1>14 DEF ConsumerInjects, deliveryVars
<1>15. ASSUME NEW s \in Sessions, Settle(s) PROVE Asked /\ Acked
  BY <1>15 DEF Settle
<1>16. ASSUME NEW s \in Sessions, ReadToAck(s) PROVE Asked /\ Acked
  BY <1>16 DEF ReadToAck
<1>17. ASSUME NEW s \in Sessions, AckLetter(s) PROVE Asked /\ Acked
  BY <1>17 DEF AckLetter
<1>18. ASSUME NEW s \in Sessions, ReadToFree(s) PROVE Asked /\ Acked
  BY <1>18 DEF ReadToFree
<1>19. ASSUME NEW s \in Sessions, FreeLetter(s) PROVE Asked /\ Acked
  BY <1>19 DEF FreeLetter, PendingLetter, NoLetter
<1>20. ASSUME NEW s \in Sessions, OwnerMoves(s) PROVE Asked /\ Acked
  BY <1>20 DEF OwnerMoves
<1>21. ASSUME NEW s \in Sessions, SessionCrash(s) PROVE Asked /\ Acked
  BY <1>21 DEF SessionCrash
<1>22. CASE UNCHANGED completionVars
  BY <1>22 DEF completionVars, deliveryVars
<1> QED BY <1>1, <1>2, <1>3, <1>4, <1>5, <1>6, <1>7, <1>8, <1>9, <1>10, <1>11, <1>12, <1>13,
      <1>14, <1>15, <1>16, <1>17, <1>18, <1>19, <1>20, <1>21, <1>22 DEF CompletionNext,
      BusStep, ConsumerStep

LEMMA ReadStep ==
  ASSUME TypeOK, DeliveryTypes, ChannelInv, ReadInv, [CompletionNext]_completionVars
  PROVE  ReadInv'
<1> SUFFICES ASSUME presumed' = {} PROVE ReadInv'
  BY DEF ReadInv
<1>1. presumed = {} /\ [GateNext]_injectionVars
  BY GateStep DEF GateStepped, GateNext
<1>2. CASE delivered > 0
  <2>1. delivered' > 0
    BY <1>1, <1>2, DeliveredStays
  <2> QED BY <2>1 DEF ReadInv, Truthful
<1>3. CASE ~(delivered > 0)
  <2>1. Truthful'
    BY <1>1, <1>3, GateStep, TruthfulStep DEF GateStepped, ReadInv
  <2>2. \A s \in Sessions : consumerPc[s] \notin {"ack", "writeAck"}
    BY <1>1, <1>3 DEF ReadInv
  <2>3. letter.status # "acked"
    BY <1>1, <1>3 DEF ReadInv
  <2>4. \A s \in Sessions : verdict[Consumer(s)] \notin {"sent", "already"}
    BY <1>1, <1>3, TheChannels DEF ReadInv, Truthful
  <2> QED BY <2>1, <2>2, <2>3, <2>4, AckStep DEF ReadInv
<1> QED BY <1>2, <1>3

\* Until a claim is removed as stale or a busy agent's refusal goes unseen, a mark whose
\* message has not arrived is that of a bus that still has the claim, so no bus meets
\* the mark at the gate.
Backed ==
  /\ claiming # NoClaim
  /\ \E s \in Sessions :
       /\ claiming.by = Bus(s)
       /\ ~(busPc[s] = "notify" /\ pc[Bus(s)] \in Holding)

MarkInv ==
  ~stolen /\ "send" \notin presumed =>
    /\ "mark" \notin presumed
    /\ notified /\ ~(delivered > 0) => Backed

\* A claim that is held ends in one way only, unless it is removed as stale, and nobody
\* else wins it.
LEMMA ClaimKept ==
  ASSUME TypeOK, HolderIsNamed, NEW h \in Holders, HolderWork(h), claiming # NoClaim, ~stolen'
  PROVE  /\ \/ claiming' # NoClaim /\ claiming'.by = claiming.by
            \/ claiming.by = h /\ pc[h] \in {"clear", "drop"}
         /\ pc'[h] \in Holding => pc[h] \in Holding
<1> DEFINE Kept == \/ claiming' # NoClaim /\ claiming'.by = claiming.by
                   \/ claiming.by = h /\ pc[h] \in {"clear", "drop"}
<1> DEFINE NotWon == pc'[h] \in Holding => pc[h] \in Holding
<1> USE DEF TypeOK, Goto, Return, Unseen, At, Claims, NoClaim, Holding, Confirming, Releasing,
      HolderIsNamed, HolderWork, ClaimStep, SendStep, ConfirmStep, ReleaseStep
<1>1. CASE BeginClaim(h)
  BY <1>1 DEF BeginClaim
<1>2. CASE CreateClaim(h)
  BY <1>2 DEF CreateClaim, Fault, Race
<1>3. CASE FillClaim(h)
  BY <1>3 DEF FillClaim, Fault
<1>4. CASE ReadClaim(h)
  BY <1>4 DEF ReadClaim, Retry
<1>5. CASE RecheckReceipt(h)
  BY <1>5 DEF RecheckReceipt
<1>6. CASE RereadClaim(h)
  BY <1>6 DEF RereadClaim, Retry
<1>7. CASE UnlinkStale(h)
  BY <1>7 DEF UnlinkStale, Fault, Race, Retry
<1>8. CASE SendSucceeds(h)
  BY <1>8 DEF SendSucceeds
<1>9. CASE SendRefused(h)
  BY <1>9 DEF SendRefused
<1>10. CASE SendFails(h)
  BY <1>10 DEF SendFails
<1>11. CASE ReadOwnClaim(h)
  BY <1>11 DEF ReadOwnClaim
<1>12. CASE CreateReceipt(h)
  BY <1>12 DEF CreateReceipt, ReceiptFails, Fault
<1>13. CASE FillReceipt(h)
  BY <1>13 DEF FillReceipt, ReceiptFails, Fault
<1>14. CASE ClearClaim(h)
  BY <1>14 DEF ClearClaim, RemoveClaim, Fault
<1>15. CASE ReadReleased(h)
  BY <1>15 DEF ReadReleased
<1>16. CASE DropClaim(h)
  BY <1>16 DEF DropClaim, RemoveClaim, Fault
<1> QED BY <1>1, <1>2, <1>3, <1>4, <1>5, <1>6, <1>7, <1>8, <1>9, <1>10, <1>11, <1>12, <1>13,
      <1>14, <1>15, <1>16

LEMMA StolenStays ==
  ASSUME stolen, [GateNext]_injectionVars
  PROVE  stolen'
<1> USE DEF Goto, Return, Unseen
<1>1. ASSUME ClaimGrowsStale PROVE stolen'
  BY <1>1 DEF ClaimGrowsStale
<1>2. ASSUME NEW p \in Processes, Crash(p) PROVE stolen'
  BY <1>2 DEF Crash
<1>3. ASSUME NEW h \in Holders, BeginClaim(h) PROVE stolen'
  BY <1>3 DEF BeginClaim
<1>4. ASSUME NEW h \in Holders, CreateClaim(h) PROVE stolen'
  BY <1>4 DEF CreateClaim, Fault, Race
<1>5. ASSUME NEW h \in Holders, FillClaim(h) PROVE stolen'
  BY <1>5 DEF FillClaim, Fault
<1>6. ASSUME NEW h \in Holders, ReadClaim(h) PROVE stolen'
  BY <1>6 DEF ReadClaim
<1>7. ASSUME NEW h \in Holders, RecheckReceipt(h) PROVE stolen'
  BY <1>7 DEF RecheckReceipt
<1>8. ASSUME NEW h \in Holders, RereadClaim(h) PROVE stolen'
  BY <1>8 DEF RereadClaim
<1>9. ASSUME NEW h \in Holders, UnlinkStale(h) PROVE stolen'
  BY <1>9 DEF UnlinkStale, Fault, Race
<1>10. ASSUME NEW h \in Holders, SendSucceeds(h) PROVE stolen'
  BY <1>10 DEF SendSucceeds
<1>11. ASSUME NEW h \in Holders, SendRefused(h) PROVE stolen'
  BY <1>11 DEF SendRefused
<1>12. ASSUME NEW h \in Holders, SendFails(h) PROVE stolen'
  BY <1>12 DEF SendFails
<1>13. ASSUME NEW h \in Holders, ReadOwnClaim(h) PROVE stolen'
  BY <1>13 DEF ReadOwnClaim
<1>14. ASSUME NEW h \in Holders, CreateReceipt(h) PROVE stolen'
  BY <1>14 DEF CreateReceipt, ReceiptFails, Fault
<1>15. ASSUME NEW h \in Holders, FillReceipt(h) PROVE stolen'
  BY <1>15 DEF FillReceipt, ReceiptFails, Fault
<1>16. ASSUME NEW h \in Holders, ClearClaim(h) PROVE stolen'
  BY <1>16 DEF ClearClaim, RemoveClaim, Fault
<1>17. ASSUME NEW h \in Holders, ReadReleased(h) PROVE stolen'
  BY <1>17 DEF ReadReleased
<1>18. ASSUME NEW h \in Holders, DropClaim(h) PROVE stolen'
  BY <1>18 DEF DropClaim, RemoveClaim, Fault
<1>19. ASSUME NEW h \in Holders, Presume(h) PROVE stolen'
  BY <1>19 DEF Presume
<1>20. CASE UNCHANGED injectionVars
  BY <1>20 DEF injectionVars
<1> QED BY <1>1, <1>2, <1>3, <1>4, <1>5, <1>6, <1>7, <1>8, <1>9, <1>10, <1>11, <1>12, <1>13,
      <1>14, <1>15, <1>16, <1>17, <1>18, <1>19, <1>20 DEF GateNext, InjectionNext, HolderStep,
      ClaimStep, SendStep, ConfirmStep, ReleaseStep

\* A step that takes no mark, sends nothing through the gate and takes no claim away.
Quiet ==
  /\ presumed' = presumed \/ presumed' = presumed \cup {"send"}
  /\ notified' => notified \/ delivered > 0
  /\ claiming # NoClaim /\ ~(delivered > 0) /\ (\E t \in Sessions : claiming.by = Bus(t)) =>
       claiming' # NoClaim /\ claiming'.by = claiming.by
  /\ claiming # NoClaim => \A t \in Sessions :
       busPc'[t] = "notify" /\ pc'[Bus(t)] \in Holding =>
         busPc[t] = "notify" /\ pc[Bus(t)] \in Holding

\* What is to be shown of a step that starts where nothing has been presumed.
MarkKept ==
  /\ "mark" \notin presumed'
  /\ notified' /\ ~(delivered' > 0) => Backed'

LEMMA QuietStep ==
  ASSUME presumed = {}, notified /\ ~(delivered > 0) => Backed,
    delivered > 0 => delivered' > 0, Quiet
  PROVE  MarkKept
<1>1. "mark" \notin presumed'
  BY DEF Quiet
<1>2. ASSUME notified', ~(delivered' > 0) PROVE Backed'
  <2>1. Backed /\ ~(delivered > 0)
    BY <1>2 DEF Quiet
  <2>2. PICK t \in Sessions : /\ claiming.by = Bus(t)
                              /\ ~(busPc[t] = "notify" /\ pc[Bus(t)] \in Holding)
    BY <2>1 DEF Backed
  <2>3. claiming' # NoClaim /\ claiming'.by = Bus(t)
    BY <2>1, <2>2 DEF Quiet, Backed
  <2>4. ~(busPc'[t] = "notify" /\ pc'[Bus(t)] \in Holding)
    BY <2>1, <2>2 DEF Quiet, Backed
  <2>5. \E s \in Sessions : /\ claiming'.by = Bus(s)
                            /\ ~(busPc'[s] = "notify" /\ pc'[Bus(s)] \in Holding)
    BY <2>3, <2>4
  <2> QED BY <2>3, <2>5 DEF Backed, Bus
<1> QED BY <1>1, <1>2 DEF MarkKept

LEMMA MarkKeptStep ==
  ASSUME TypeOK, DeliveryTypes, ChannelInv, HolderIsNamed, Truthful, presumed = {},
         notified /\ ~(delivered > 0) => Backed,
         delivered > 0 => delivered' > 0, ~stolen, ~stolen', CompletionNext
  PROVE  MarkKept
<1>1. ASSUME TimePasses PROVE MarkKept
  <2>1. notified' = notified /\ presumed' = presumed /\ busPc' = busPc
    BY <1>1 DEF TimePasses
  <2>2. pc' = pc /\ claiming'.by = claiming.by /\ (claiming # NoClaim => claiming' # NoClaim)
    BY <1>1 DEF TimePasses, ClaimGrowsStale, injectionVars, TypeOK, Claims, NoClaim
  <2> QED BY <2>1, <2>2, QuietStep DEF Quiet
<1>2. ASSUME NEW s \in Sessions, SeeResult(s) PROVE MarkKept
  <2>1. UNCHANGED <<injectionVars, notified, presumed>>
    BY <1>2 DEF SeeResult
  <2>2. claiming' = claiming /\ pc' = pc
    BY <2>1 DEF injectionVars
  <2>3. \A t \in Sessions : busPc'[t] = "notify" => busPc[t] = "notify"
    BY <1>2 DEF SeeResult, BusGoto, DeliveryTypes
  <2> QED BY <2>1, <2>2, <2>3, QuietStep DEF Quiet
<1>3. ASSUME NEW s \in Sessions, CheckLetter(s) PROVE MarkKept
  <2>1. UNCHANGED <<injectionVars, notified, presumed>>
    BY <1>3 DEF CheckLetter
  <2>2. claiming' = claiming /\ pc' = pc
    BY <2>1 DEF injectionVars
  <2>3. \A t \in Sessions : busPc'[t] = "notify" => busPc[t] = "notify"
    BY <1>3 DEF CheckLetter, BusGoto, DeliveryTypes
  <2> QED BY <2>1, <2>2, <2>3, QuietStep DEF Quiet
<1>4. ASSUME NEW s \in Sessions, WriteLetter(s) PROVE MarkKept
  <2>1. UNCHANGED <<injectionVars, notified, presumed>>
    BY <1>4 DEF WriteLetter
  <2>2. claiming' = claiming /\ pc' = pc
    BY <2>1 DEF injectionVars
  <2>3. \A t \in Sessions : busPc'[t] = "notify" => busPc[t] = "notify"
    BY <1>4 DEF WriteLetter, BusGoto, DeliveryTypes
  <2> QED BY <2>1, <2>2, <2>3, QuietStep DEF Quiet
<1>5. ASSUME NEW s \in Sessions, BusGate(s) PROVE MarkKept
  <2>1. CASE ~Addressed(s)
    <3>1. UNCHANGED <<injectionVars, notified, presumed>>
      BY <1>5, <2>1 DEF BusGate
    <3>2. claiming' = claiming /\ pc' = pc
      BY <3>1 DEF injectionVars
    <3>3. \A t \in Sessions : busPc'[t] = "notify" => busPc[t] = "notify"
      BY <1>5, <2>1 DEF BusGate, BusGoto, DeliveryTypes
    <3> QED BY <3>1, <3>2, <3>3, QuietStep DEF Quiet
  <2>2. CASE BeginClaim(Bus(s)) /\ BusGoto(s, "notify")
    <3>1. \A t \in Sessions : pc'[Bus(t)] = pc[Bus(t)] \/ Bus(s) = Bus(t)
      <4>1. \A k \in Holders \ {Bus(s)} : pc'[k] = pc[k]
        <5>1. Bus(s) \in Holders /\ HolderWork(Bus(s))
          BY <2>2, TheChannels DEF HolderWork, SendStep
        <5> QED BY <5>1, OwnCall
      <4> QED BY <4>1, TheChannels
    <3>2. claiming # NoClaim =>
            /\ \/ claiming' # NoClaim /\ claiming'.by = claiming.by
               \/ claiming.by = Bus(s) /\ pc[Bus(s)] \in {"clear", "drop"}
            /\ pc'[Bus(s)] \in Holding => pc[Bus(s)] \in Holding
      <4>1. Bus(s) \in Holders /\ HolderWork(Bus(s))
        BY <2>2, TheChannels DEF HolderWork, SendStep
      <4> QED BY <4>1, ClaimKept
    <3>3. pc[Bus(s)] = "idle"
      BY <1>5 DEF BusGate, BusAt, ChannelInv
    <3>4. \A t \in Sessions : busPc'[t] = busPc[t] \/ t = s
      BY <2>2 DEF BusGoto, DeliveryTypes
    <3>5. notified' = notified /\ presumed' = presumed
      BY <1>5 DEF BusGate
    <3>6. "idle" \notin Holding
      BY DEF Holding, Confirming, Releasing
    <3> QED BY <3>1, <3>2, <3>3, <3>4, <3>5, <3>6, TheChannels, QuietStep DEF Quiet
  <2> QED BY <1>5, <2>1, <2>2 DEF BusGate
<1>6. ASSUME NEW s \in Sessions, BusNotify(s) PROVE MarkKept
  <2>1. CASE /\ pc[Bus(s)] = "idle" /\ BusGoto(s, "idle")
             /\ UNCHANGED <<injectionVars, notified, presumed>>
    <3>1. claiming' = claiming /\ pc' = pc /\ busPc' = [busPc EXCEPT ![s] = "idle"]
      BY <2>1 DEF injectionVars, BusGoto
    <3>2. \A t \in Sessions : busPc'[t] = "notify" => busPc[t] = "notify"
      BY <3>1 DEF DeliveryTypes
    <3> QED BY <2>1, <3>1, <3>2, QuietStep DEF Quiet
  <2>2. CASE pc[Bus(s)] = "sending"
    <3>1. Bus(s) \in Holders /\ pc[Bus(s)] \in Holding /\ busPc[s] = "notify"
      BY <1>6, <2>2, TheChannels DEF Holding, BusNotify, BusAt
    <3>2. claiming # NoClaim /\ claiming.by = Bus(s)
      BY <3>1 DEF HolderIsNamed
    <3>3. CASE ~notified /\ BusGoto(s, "send") /\ UNCHANGED <<injectionVars, presumed>>
      <4>1. claiming' = claiming /\ pc' = pc /\ busPc'[s] = "send"
        BY <3>3 DEF injectionVars, BusGoto, DeliveryTypes
      <4>2. Backed'
        BY <3>2, <4>1 DEF Backed, Bus
      <4> QED BY <3>3, <4>2 DEF MarkKept
    <3>4. CASE notified
      <4>1. delivered > 0
        <5> SUFFICES ASSUME Backed PROVE FALSE
          BY <3>4
        <5>1. PICK t \in Sessions : /\ claiming.by = Bus(t)
                                    /\ ~(busPc[t] = "notify" /\ pc[Bus(t)] \in Holding)
          BY DEF Backed
        <5>2. Bus(t) = Bus(s)
          BY <3>2, <5>1
        <5>3. t = s
          BY <5>2 DEF Bus
        <5> QED BY <3>1, <5>1, <5>3
      <4>2. presumed' = presumed
        BY <1>6, <2>2, <3>4, <4>1 DEF BusNotify, TypeOK
      <4> QED BY <4>1, <4>2 DEF MarkKept
    <3> QED BY <1>6, <2>2, <3>3, <3>4 DEF BusNotify
  <2> QED BY <1>6, <2>1, <2>2 DEF BusNotify
<1>7. ASSUME NEW s \in Sessions, BusSend(s) PROVE MarkKept
  <2>1. notified' = notified /\ busPc' = [busPc EXCEPT ![s] = "settle"] /\ claiming' = claiming
        /\ (presumed' = presumed \/ presumed' = presumed \cup {"send"})
    BY <1>7 DEF BusSend, BusGoto, SendSucceeds, SendFails
  <2>2. \A k \in Holders \ {Bus(s)} : pc'[k] = pc[k]
    BY <1>7 DEF BusSend, SendSucceeds, SendFails, Goto, Return, TypeOK
  <2>3. \A t \in Sessions : t # s => pc'[Bus(t)] = pc[Bus(t)] /\ busPc'[t] = busPc[t]
    <3> SUFFICES ASSUME NEW t \in Sessions, t # s
                 PROVE  pc'[Bus(t)] = pc[Bus(t)] /\ busPc'[t] = busPc[t]
      OBVIOUS
    <3>1. Bus(t) \in Holders /\ Bus(t) # Bus(s)
      BY DEF Bus
    <3> QED BY <2>1, <2>2, <3>1 DEF DeliveryTypes
  <2>4. busPc'[s] # "notify"
    BY <2>1 DEF DeliveryTypes
  <2> QED BY <2>1, <2>3, <2>4, QuietStep DEF Quiet
<1>8. ASSUME NEW s \in Sessions, BusDone(s) PROVE MarkKept
  <2>1. UNCHANGED <<injectionVars, notified, presumed>>
    BY <1>8 DEF BusDone
  <2>2. claiming' = claiming /\ pc' = pc
    BY <2>1 DEF injectionVars
  <2>3. \A t \in Sessions : busPc'[t] = "notify" => busPc[t] = "notify"
    BY <1>8 DEF BusDone, BusGoto, DeliveryTypes
  <2> QED BY <2>1, <2>2, <2>3, QuietStep DEF Quiet
<1>9. ASSUME NEW s \in Sessions, BusClaims(s) PROVE MarkKept
  <2>1. \A t \in Sessions : pc'[Bus(t)] = pc[Bus(t)] \/ Bus(s) = Bus(t)
    <3>1. \A k \in Holders \ {Bus(s)} : pc'[k] = pc[k]
      <4>1. Bus(s) \in Holders /\ HolderWork(Bus(s))
        BY <1>9, TheChannels DEF BusClaims, HolderWork, SendStep
      <4> QED BY <4>1, OwnCall
    <3> QED BY <3>1, TheChannels
  <2>2. claiming # NoClaim =>
          /\ \/ claiming' # NoClaim /\ claiming'.by = claiming.by
             \/ claiming.by = Bus(s) /\ pc[Bus(s)] \in {"clear", "drop"}
          /\ pc'[Bus(s)] \in Holding => pc[Bus(s)] \in Holding
    <3>1. Bus(s) \in Holders /\ HolderWork(Bus(s))
      BY <1>9, TheChannels DEF BusClaims, HolderWork, SendStep
    <3> QED BY <3>1, ClaimKept
  <2>3. notified' = notified /\ presumed' = presumed /\ busPc' = busPc
    BY <1>9 DEF BusClaims, deliveryVars
  <2>4. pc[Bus(s)] # "drop"
    BY <1>9 DEF BusClaims, ClaimStep, CreateClaim, Fault, Race, FillClaim, ReadClaim,
      RecheckReceipt, RereadClaim, UnlinkStale, ConfirmStep, ReadOwnClaim, CreateReceipt,
      ReceiptFails, FillReceipt, ClearClaim, RemoveClaim, At
  <2>5. pc[Bus(s)] = "clear" => delivered > 0
    BY TheChannels DEF Truthful, Confirming
  <2> QED BY <2>1, <2>2, <2>3, <2>4, <2>5, TheChannels, QuietStep DEF Quiet
<1>10. ASSUME NEW s \in Sessions, ListLetters(s) PROVE MarkKept
  <2>1. UNCHANGED <<injectionVars, notified, presumed>>
    BY <1>10 DEF ListLetters
  <2>2. claiming' = claiming /\ pc' = pc
    BY <2>1 DEF injectionVars
  <2>3. \A t \in Sessions : busPc'[t] = "notify" => busPc[t] = "notify"
    BY <1>10 DEF ListLetters, BusGoto, DeliveryTypes
  <2> QED BY <2>1, <2>2, <2>3, QuietStep DEF Quiet
<1>11. ASSUME NEW s \in Sessions, ReadLetter(s) PROVE MarkKept
  <2>1. UNCHANGED <<injectionVars, notified, presumed>>
    BY <1>11 DEF ReadLetter
  <2>2. claiming' = claiming /\ pc' = pc
    BY <2>1 DEF injectionVars
  <2>3. \A t \in Sessions : busPc'[t] = "notify" => busPc[t] = "notify"
    BY <1>11 DEF ReadLetter, BusGoto, DeliveryTypes
  <2> QED BY <2>1, <2>2, <2>3, QuietStep DEF Quiet
<1>12. ASSUME NEW s \in Sessions, ClaimLetter(s) PROVE MarkKept
  <2>1. UNCHANGED <<injectionVars, notified, presumed>>
    BY <1>12 DEF ClaimLetter
  <2>2. claiming' = claiming /\ pc' = pc
    BY <2>1 DEF injectionVars
  <2>3. \A t \in Sessions : busPc'[t] = "notify" => busPc[t] = "notify"
    BY <1>12 DEF ClaimLetter, BusGoto, DeliveryTypes
  <2> QED BY <2>1, <2>2, <2>3, QuietStep DEF Quiet
<1>13. ASSUME NEW s \in Sessions, PassFence(s) PROVE MarkKept
  <2>1. CASE UNCHANGED injectionVars
    BY <1>13, <2>1, QuietStep DEF PassFence, injectionVars, Quiet
  <2>2. CASE BeginClaim(Consumer(s))
    <3>1. \A t \in Sessions : pc'[Bus(t)] = pc[Bus(t)] \/ Consumer(s) = Bus(t)
      <4>1. \A k \in Holders \ {Consumer(s)} : pc'[k] = pc[k]
        <5>1. Consumer(s) \in Holders /\ HolderWork(Consumer(s))
          BY <2>2, TheChannels DEF HolderWork, SendStep
        <5> QED BY <5>1, OwnCall
      <4> QED BY <4>1, TheChannels
    <3>2. claiming # NoClaim =>
            /\ \/ claiming' # NoClaim /\ claiming'.by = claiming.by
               \/ claiming.by = Consumer(s) /\ pc[Consumer(s)] \in {"clear", "drop"}
            /\ pc'[Consumer(s)] \in Holding => pc[Consumer(s)] \in Holding
      <4>1. Consumer(s) \in Holders /\ HolderWork(Consumer(s))
        BY <2>2, TheChannels DEF HolderWork, SendStep
      <4> QED BY <4>1, ClaimKept
    <3>3. notified' = notified /\ presumed' = presumed /\ busPc' = busPc
      BY <1>13 DEF PassFence
    <3> QED BY <3>1, <3>2, <3>3, TheChannels, QuietStep DEF Quiet
  <2> QED BY <1>13, <2>1, <2>2 DEF PassFence
<1>14. ASSUME NEW s \in Sessions, ConsumerInjects(s) PROVE MarkKept
  <2>1. \A t \in Sessions : pc'[Bus(t)] = pc[Bus(t)] \/ Consumer(s) = Bus(t)
    <3>1. \A k \in Holders \ {Consumer(s)} : pc'[k] = pc[k]
      <4>1. Consumer(s) \in Holders /\ HolderWork(Consumer(s))
        BY <1>14, TheChannels DEF ConsumerInjects, HolderWork, SendStep
      <4> QED BY <4>1, OwnCall
    <3> QED BY <3>1, TheChannels
  <2>2. claiming # NoClaim =>
          /\ \/ claiming' # NoClaim /\ claiming'.by = claiming.by
             \/ claiming.by = Consumer(s) /\ pc[Consumer(s)] \in {"clear", "drop"}
          /\ pc'[Consumer(s)] \in Holding => pc[Consumer(s)] \in Holding
    <3>1. Consumer(s) \in Holders /\ HolderWork(Consumer(s))
      BY <1>14, TheChannels DEF ConsumerInjects, HolderWork, SendStep
    <3> QED BY <3>1, ClaimKept
  <2>3. notified' = notified /\ presumed' = presumed /\ busPc' = busPc
    BY <1>14 DEF ConsumerInjects, deliveryVars
  <2> QED BY <2>1, <2>2, <2>3, TheChannels, QuietStep DEF Quiet
<1>15. ASSUME NEW s \in Sessions, Settle(s) PROVE MarkKept
  <2>1. UNCHANGED <<injectionVars, presumed, busPc>>
    BY <1>15 DEF Settle
  <2>2. claiming' = claiming /\ pc' = pc
    BY <2>1 DEF injectionVars
  <2>3. notified' => notified \/ delivered > 0
    BY <1>15, TheChannels DEF Settle, Truthful
  <2> QED BY <2>1, <2>2, <2>3, QuietStep DEF Quiet
<1>16. ASSUME NEW s \in Sessions, ReadToAck(s) PROVE MarkKept
  <2>1. UNCHANGED <<injectionVars, notified, presumed>>
    BY <1>16 DEF ReadToAck
  <2>2. claiming' = claiming /\ pc' = pc
    BY <2>1 DEF injectionVars
  <2>3. \A t \in Sessions : busPc'[t] = "notify" => busPc[t] = "notify"
    BY <1>16 DEF ReadToAck, BusGoto, DeliveryTypes
  <2> QED BY <2>1, <2>2, <2>3, QuietStep DEF Quiet
<1>17. ASSUME NEW s \in Sessions, AckLetter(s) PROVE MarkKept
  <2>1. UNCHANGED <<injectionVars, notified, presumed>>
    BY <1>17 DEF AckLetter
  <2>2. claiming' = claiming /\ pc' = pc
    BY <2>1 DEF injectionVars
  <2>3. \A t \in Sessions : busPc'[t] = "notify" => busPc[t] = "notify"
    BY <1>17 DEF AckLetter, BusGoto, DeliveryTypes
  <2> QED BY <2>1, <2>2, <2>3, QuietStep DEF Quiet
<1>18. ASSUME NEW s \in Sessions, ReadToFree(s) PROVE MarkKept
  <2>1. UNCHANGED <<injectionVars, notified, presumed>>
    BY <1>18 DEF ReadToFree
  <2>2. claiming' = claiming /\ pc' = pc
    BY <2>1 DEF injectionVars
  <2>3. \A t \in Sessions : busPc'[t] = "notify" => busPc[t] = "notify"
    BY <1>18 DEF ReadToFree, BusGoto, DeliveryTypes
  <2> QED BY <2>1, <2>2, <2>3, QuietStep DEF Quiet
<1>19. ASSUME NEW s \in Sessions, FreeLetter(s) PROVE MarkKept
  <2>1. UNCHANGED <<injectionVars, notified, presumed>>
    BY <1>19 DEF FreeLetter
  <2>2. claiming' = claiming /\ pc' = pc
    BY <2>1 DEF injectionVars
  <2>3. \A t \in Sessions : busPc'[t] = "notify" => busPc[t] = "notify"
    BY <1>19 DEF FreeLetter, BusGoto, DeliveryTypes
  <2> QED BY <2>1, <2>2, <2>3, QuietStep DEF Quiet
<1>20. ASSUME NEW s \in Sessions, OwnerMoves(s) PROVE MarkKept
  <2>1. UNCHANGED <<injectionVars, notified, presumed>>
    BY <1>20 DEF OwnerMoves
  <2>2. claiming' = claiming /\ pc' = pc
    BY <2>1 DEF injectionVars
  <2>3. \A t \in Sessions : busPc'[t] = "notify" => busPc[t] = "notify"
    BY <1>20 DEF OwnerMoves, BusGoto, DeliveryTypes
  <2> QED BY <2>1, <2>2, <2>3, QuietStep DEF Quiet
<1>21. ASSUME NEW s \in Sessions, SessionCrash(s) PROVE MarkKept
  <2>1. notified' = notified /\ presumed' = presumed /\ claiming' = claiming
        /\ busPc' = [busPc EXCEPT ![s] = "idle"]
        /\ pc' = [h \in Holders |-> IF ProcessOf[h] = s THEN "idle" ELSE pc[h]]
    BY <1>21 DEF SessionCrash, Crash, BusGoto
  <2>2. \A t \in Sessions : t # s => pc'[Bus(t)] = pc[Bus(t)] /\ busPc'[t] = busPc[t]
    <3> TAKE t \in Sessions
    <3>1. Bus(t) \in Holders /\ ProcessOf[Bus(t)] = t
      BY TheChannels
    <3> QED BY <2>1, <3>1 DEF DeliveryTypes
  <2>3. busPc'[s] = "idle"
    BY <2>1 DEF DeliveryTypes
  <2> QED BY <2>1, <2>2, <2>3, QuietStep DEF Quiet
<1> QED BY <1>1, <1>2, <1>3, <1>4, <1>5, <1>6, <1>7, <1>8, <1>9, <1>10, <1>11, <1>12, <1>13,
      <1>14, <1>15, <1>16, <1>17, <1>18, <1>19, <1>20, <1>21 DEF CompletionNext, BusStep,
      ConsumerStep

LEMMA MarkStep ==
  ASSUME TypeOK, DeliveryTypes, ChannelInv, HolderIsNamed, ReadInv, MarkInv,
         [CompletionNext]_completionVars
  PROVE  MarkInv'
<1>1. CASE UNCHANGED completionVars
  BY <1>1 DEF completionVars, injectionVars, deliveryVars, MarkInv, Backed, Holding,
    Confirming, Releasing, Bus
<1>2. CASE CompletionNext
  <2> SUFFICES ASSUME ~stolen', "send" \notin presumed' PROVE MarkKept
    BY DEF MarkInv, MarkKept
  <2>1. [GateNext]_injectionVars /\ "send" \notin presumed
    BY GateStep DEF GateStepped, GateNext
  <2>2. ~stolen
    BY <2>1, StolenStays
  <2>3. "mark" \notin presumed /\ (notified /\ ~(delivered > 0) => Backed)
    BY <2>1, <2>2 DEF MarkInv
  <2>4. presumed = {}
    BY <2>1, <2>3 DEF DeliveryTypes
  <2>5. delivered > 0 => delivered' > 0
    BY <2>1, DeliveredStays
  <2> QED BY <1>2, <2>2, <2>3, <2>4, <2>5, MarkKeptStep DEF ReadInv
<1> QED BY <1>1, <1>2

\* A letter is acknowledged unread only after the event bus has confirmed a send that a
\* busy agent rejected, or took a .notified mark for an injection - and such a mark it
\* meets only after such a send or once a claim was removed as stale; for any sessions,
\* watchers, hand-overs, crashes and torn files.
THEOREM CompletionUnreadOnlyIfPresumed == CompletionSpec => []UnreadOnlyIfPresumed
<1>1. CompletionInit => HolderIsNamed /\ ReadInv /\ MarkInv
  BY DEF CompletionInit, InjectionInit, HolderIsNamed, Holding, Confirming, Releasing, ReadInv,
    Truthful, MarkInv, NoLetter, PendingLetter
<1>2. TypeOK /\ DeliveryTypes /\ ChannelInv /\ HolderIsNamed /\ [CompletionNext]_completionVars
        => HolderIsNamed'
  BY GateStep, NamedStep DEF GateStepped, GateNext
<1>3. TypeOK /\ DeliveryTypes /\ ChannelInv /\ ReadInv /\ [CompletionNext]_completionVars
        => ReadInv'
  BY ReadStep
<1>4. /\ TypeOK /\ DeliveryTypes /\ ChannelInv
      /\ HolderIsNamed /\ ReadInv /\ MarkInv /\ [CompletionNext]_completionVars
      => MarkInv'
  BY MarkStep
<1>5. ReadInv /\ MarkInv => UnreadOnlyIfPresumed
  BY DEF ReadInv, Truthful, MarkInv, UnreadOnlyIfPresumed, AckedWasDelivered,
    ReceiptMeansDelivered
<1> QED BY CompletionTypes, <1>1, <1>2, <1>3, <1>4, <1>5, PTL DEF CompletionSpec
=============================================================================
