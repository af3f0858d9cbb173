----------------------- MODULE MasterRegistry_proofs -----------------------
(***************************************************************************)
(* Proofs about MasterRegistry, for any sessions, nonces and bounds.       *)
(*                                                                         *)
(* The first part makes no assumption about leases and heartbeats.  The    *)
(* second part is about the regime production code runs in as long as no   *)
(* process dies inside the lease: leases do not grow old, and nobody calls *)
(* heartbeatMaster (the repository has no caller outside its tests).       *)
(***************************************************************************)
EXTENDS MasterRegistry, TLAPS

USE DEF UnderLease

(***************************************************************************)
(* The values that stand for "no file" and "no call" have the types of     *)
(* what they stand in for.                                                 *)
(***************************************************************************)
LEMMA Defaults ==
  /\ NoAttachment \in Attachments
  /\ NoLease \in Leases
  /\ NoHandoff \in Handoffs
  /\ NoCall \in Calls
  BY DEF NoAttachment, Attachments, NoLease, Leases, NoHandoff, Handoffs, NoCall,
         Calls, Owners

(***************************************************************************)
(* The records that the actions build are of the registry's types.         *)
(***************************************************************************)
LEMMA Records ==
  ASSUME NEW s \in Sessions, NEW g \in Nat, NEW b \in BOOLEAN
  PROVE  /\ [session |-> s, generation |-> g, stale |-> b] \in Attachments
         /\ [by |-> s, old |-> b] \in Leases
         /\ \A a \in Attachments : [a EXCEPT !.stale = b] \in Attachments
         /\ [kind |-> "takeover", token |-> NoToken, human |-> b] \in Calls
         /\ \A k \in {"refresh", "force"} :
              [kind |-> k, token |-> NoToken, human |-> b] \in Calls
         /\ \A t \in Tokens : [kind |-> "token", token |-> t, human |-> FALSE] \in Calls
  BY DEF Attachments, Leases, Owners, Calls

(***************************************************************************)
(* What a step of a call does to the locals of its session.                *)
(***************************************************************************)
LEMMA Gotos ==
  ASSUME pc \in [Sessions -> Labels], NEW s \in Sessions,
         NEW label \in Labels, Goto(s, label)
  PROVE  pc' \in [Sessions -> Labels]
  BY DEF Goto

LEMMA ReadGotos ==
  ASSUME TypeOK, NEW s \in Sessions, NEW label \in Labels, ReadThenGoto(s, label)
  PROVE  pc' \in [Sessions -> Labels] /\ seen' \in [Sessions -> Attachments]
  BY DEF ReadThenGoto, Goto, TypeOK

LEMMA Returns ==
  ASSUME TypeOK, NEW s \in Sessions, Return(s)
  PROVE  /\ pc' \in [Sessions -> Labels]
         /\ call' \in [Sessions -> Calls]
         /\ seen' \in [Sessions -> Attachments]
  BY Defaults DEF Return, Goto, TypeOK, Labels

(***************************************************************************)
(* Every variable keeps its type, whatever leases and heartbeats do.       *)
(***************************************************************************)
THEOREM RegistryTypeOK == RegistrySpec => []TypeOK
<1>1. RegistryInit => TypeOK
  BY Defaults DEF RegistryInit, TypeOK, Labels
<1>2. TypeOK /\ [RegistryNext]_registryVars => TypeOK'
  <2> SUFFICES ASSUME TypeOK, [RegistryNext]_registryVars PROVE TypeOK'
    OBVIOUS
  <2>1. CASE HeartbeatGoesStale
    BY <2>1 DEF HeartbeatGoesStale, TypeOK, Attachments
  <2>2. CASE LeaseGrowsOld
    BY <2>2 DEF LeaseGrowsOld, TypeOK, Leases
  <2>3. CASE TokenExpires
    BY <2>3 DEF TokenExpires, TypeOK, Handoffs
  <2>4. CASE WindowExpires
    BY <2>4 DEF WindowExpires, TypeOK
  <2>5. ASSUME NEW s \in Sessions, AttachRead(s) PROVE TypeOK'
    <3>1. call' \in [Sessions -> Calls]
      <4>1. PICK kind \in {"refresh", "token", "force"}, human \in BOOLEAN,
                 token \in issued \cup {NoToken} :
              /\ (kind = "token") <=> (token # NoToken)
              /\ human => kind = "force"
              /\ call' = [call EXCEPT ![s] =
                            [kind |-> kind, token |-> token, human |-> human]]
        BY <2>5 DEF AttachRead
      <4>2. [kind |-> kind, token |-> token, human |-> human] \in Calls
        <5>1. CASE kind = "token"
          BY <4>1, <5>1 DEF Calls, TypeOK
        <5>2. CASE kind # "token"
          BY <4>1, <5>2 DEF Calls
        <5> QED
          BY <5>1, <5>2
      <4> QED
        BY <4>1, <4>2 DEF TypeOK
    <3>2. \E label \in Labels : ReadThenGoto(s, label)
      BY <2>5 DEF AttachRead, Labels
    <3> QED
      BY <2>5, <3>1, <3>2, ReadGotos DEF AttachRead, TypeOK
  <2>6. ASSUME NEW s \in Sessions, CreateGenesis(s) PROVE TypeOK'
    <3>1. CASE /\ attachment' = [session |-> s, generation |-> 1, stale |-> FALSE]
               /\ granted' = granted \cup {<<1, s>>}
               /\ Return(s)
      <4>1. attachment' \in Attachments
        BY <3>1, Records
      <4>2. granted' \subseteq Nat \X Sessions
        BY <3>1 DEF TypeOK
      <4> QED
        BY <2>6, <3>1, <4>1, <4>2, Returns DEF CreateGenesis, TypeOK
    <3>2. CASE ReadThenGoto(s, "lease") /\ UNCHANGED <<attachment, granted, call>>
      BY <2>6, <3>2, ReadGotos DEF CreateGenesis, TypeOK, Labels
    <3> QED
      BY <2>6, <3>1, <3>2 DEF CreateGenesis
  <2>7. ASSUME NEW s \in Sessions, TakeoverRead(s) PROVE TypeOK'
    <3>1. window' \in BOOLEAN /\ call' \in [Sessions -> Calls]
      BY <2>7, Records DEF TakeoverRead, TypeOK
    <3> QED
      BY <2>7, <3>1, ReadGotos DEF TakeoverRead, TypeOK, Labels
  <2>8. ASSUME NEW s \in Sessions, AcquireLease(s) PROVE TypeOK'
    <3>1. lease' \in Leases
      BY <2>8, Records DEF AcquireLease, TypeOK
    <3>2. CASE Return(s)
      BY <2>8, <3>1, <3>2, Returns DEF AcquireLease, TypeOK
    <3>3. CASE (Goto(s, "decide") \/ Goto(s, "steal")) /\ UNCHANGED <<call, seen>>
      BY <2>8, <3>1, <3>3, Gotos DEF AcquireLease, TypeOK, Labels
    <3> QED
      BY <2>8, <3>2, <3>3 DEF AcquireLease
  <2>9. ASSUME NEW s \in Sessions, StealLease(s) PROVE TypeOK'
    BY <2>9, Gotos DEF StealLease, TypeOK, Leases, Owners, Labels
  <2>10. ASSUME NEW s \in Sessions, Decide(s) PROVE TypeOK'
    BY <2>10, Gotos, ReadGotos DEF Decide, TypeOK, Labels
  <2>11. ASSUME NEW s \in Sessions, WriteBump(s) PROVE TypeOK'
    <3>1. seen[s].generation + 1 \in Nat /\ call[s] \in Calls
      BY DEF TypeOK, Attachments
    <3>2. attachment' \in Attachments /\ granted' \subseteq Nat \X Sessions
      <4>1. attachment' = [session |-> s, generation |-> seen[s].generation + 1,
                           stale |-> FALSE]
        BY <2>11 DEF WriteBump
      <4>2. granted' = granted \cup {<<seen[s].generation + 1, s>>}
        BY <2>11 DEF WriteBump
      <4>3. attachment' \in Attachments
        BY <3>1, <4>1, Records
      <4> QED
        BY <3>1, <4>2, <4>3 DEF TypeOK
    <3>3. call[s].kind = "token" => call[s].token \in Tokens
      BY <3>1 DEF Calls
    <3>4. spent' \subseteq Tokens \X Nat \X Sessions
      BY <2>11, <3>1, <3>3 DEF WriteBump, TypeOK
    <3>5. pc' \in [Sessions -> Labels]
      BY <2>11, Gotos DEF WriteBump, TypeOK, Labels
    <3> QED
      BY <2>11, <3>2, <3>4, <3>5 DEF WriteBump, TypeOK
  <2>12. ASSUME NEW s \in Sessions, WriteRenewal(s) PROVE TypeOK'
    <3>1. seen[s] \in Attachments /\ seen[s].generation \in Nat
      BY DEF TypeOK, Attachments
    <3>2. attachment' \in Attachments /\ granted' \subseteq Nat \X Sessions
      <4>1. attachment' = [seen[s] EXCEPT !.stale = FALSE]
        BY <2>12 DEF WriteRenewal
      <4>2. granted' = granted \cup {<<seen[s].generation, s>>}
        BY <2>12 DEF WriteRenewal
      <4>3. attachment' \in Attachments
        BY <3>1, <4>1, Records
      <4> QED
        BY <3>1, <4>2, <4>3 DEF TypeOK
    <3>3. pc' \in [Sessions -> Labels]
      BY <2>12, Gotos DEF WriteRenewal, TypeOK, Labels
    <3> QED
      BY <2>12, <3>2, <3>3 DEF WriteRenewal, TypeOK
  <2>13. ASSUME NEW s \in Sessions, ReadOwnLease(s) PROVE TypeOK'
    BY <2>13, Returns, Gotos DEF ReadOwnLease, TypeOK, Labels
  <2>14. ASSUME NEW s \in Sessions, UnlinkLease(s) PROVE TypeOK'
    BY <2>14, Returns, Defaults DEF UnlinkLease, TypeOK
  <2>15. ASSUME NEW s \in Sessions, DetachRead(s) PROVE TypeOK'
    BY <2>15, ReadGotos DEF DetachRead, TypeOK, Labels
  <2>16. ASSUME NEW s \in Sessions, DetachWrite(s) PROVE TypeOK'
    BY <2>16, Returns DEF DetachWrite, TypeOK, Handoffs, Tokens, Attachments
  <2>17. ASSUME NEW s \in Sessions, HeartbeatRead(s) PROVE TypeOK'
    BY <2>17, ReadGotos DEF HeartbeatRead, TypeOK, Labels
  <2>18. ASSUME NEW s \in Sessions, HeartbeatWrite(s) PROVE TypeOK'
    BY <2>18, Returns DEF HeartbeatWrite, TypeOK, Attachments
  <2>19. ASSUME NEW s \in Sessions, SetTransferWindow(s) PROVE TypeOK'
    BY <2>19 DEF SetTransferWindow, TypeOK
  <2>20. ASSUME NEW s \in Sessions, ClearTransferWindow(s) PROVE TypeOK'
    BY <2>20 DEF ClearTransferWindow, TypeOK
  <2>21. ASSUME NEW s \in Sessions, Crash(s) PROVE TypeOK'
    BY <2>21, Returns DEF Crash, TypeOK
  <2>22. ASSUME NEW s \in Sessions, Restart(s) PROVE TypeOK'
    BY <2>22 DEF Restart, TypeOK
  <2>23. CASE UNCHANGED registryVars
    BY <2>23 DEF registryVars, TypeOK
  <2> QED
    BY <2>1, <2>2, <2>3, <2>4, <2>5, <2>6, <2>7, <2>8, <2>9, <2>10, <2>11,
       <2>12, <2>13, <2>14, <2>15, <2>16, <2>17, <2>18, <2>19, <2>20, <2>21,
       <2>22, <2>23
    DEF RegistryNext, TimePasses, SessionStep, AttachStep
<1> QED BY <1>1, <1>2, PTL DEF RegistrySpec
-----------------------------------------------------------------------------
(* First part: any leases, any heartbeats *)

HandsOnWrite == {"bump", "renew", "heartbeat"}

(***************************************************************************)
(* A step that writes no attachment and leads to no write keeps the chain. *)
(***************************************************************************)
LEMMA ChainUntouched ==
  ASSUME TypeOK, GrantChain, NEW s \in Sessions, NEW label \in Labels \ HandsOnWrite,
         UNCHANGED <<attachment, granted>>,
         pc' = [pc EXCEPT ![s] = label],
         \A t \in Sessions \ {s} : seen'[t] = seen[t] /\ call'[t] = call[t]
  PROVE  GrantChain'
  BY DEF GrantChain, TypeOK, HandsOnWrite, Exists

(***************************************************************************)
(* The chain of grants holds in every reachable state.                     *)
(***************************************************************************)
THEOREM RegistryGrantChain == RegistrySpec => []GrantChain
<1> USE DEF HandsOnWrite
<1>1. RegistryInit => GrantChain
  BY DEF RegistryInit, GrantChain, NoAttachment, Exists
<1>2. TypeOK /\ GrantChain /\ [RegistryNext]_registryVars => GrantChain'
  <2> SUFFICES ASSUME TypeOK, GrantChain, [RegistryNext]_registryVars
               PROVE  GrantChain'
    OBVIOUS
  <2>1. CASE TimePasses
    BY <2>1 DEF TimePasses, HeartbeatGoesStale, LeaseGrowsOld, TokenExpires,
                WindowExpires, GrantChain, Exists, TypeOK, Attachments
  <2>2. CASE UNCHANGED registryVars
    BY <2>2 DEF registryVars, GrantChain, Exists
  <2>3. ASSUME NEW s \in Sessions,
               \/ AttachRead(s) \/ TakeoverRead(s) \/ AcquireLease(s) \/ StealLease(s)
               \/ ReadOwnLease(s) \/ UnlinkLease(s) \/ DetachRead(s) \/ DetachWrite(s)
               \/ Crash(s)
        PROVE  GrantChain'
    <3>1. /\ UNCHANGED <<attachment, granted>>
          /\ \A t \in Sessions \ {s} : seen'[t] = seen[t] /\ call'[t] = call[t]
      BY <2>3 DEF AttachRead, TakeoverRead, AcquireLease, StealLease, ReadOwnLease,
                  UnlinkLease, DetachRead, DetachWrite, Crash, ReadThenGoto, Return,
                  Goto, TypeOK
    <3>2. PICK label \in Labels \ HandsOnWrite : pc' = [pc EXCEPT ![s] = label]
      BY <2>3 DEF AttachRead, TakeoverRead, AcquireLease, StealLease, ReadOwnLease,
                  UnlinkLease, DetachRead, DetachWrite, Crash, ReadThenGoto, Return,
                  Goto, Labels
    <3> QED
      BY <3>1, <3>2, ChainUntouched
  <2>4. ASSUME NEW s \in Sessions, CreateGenesis(s) PROVE GrantChain'
    <3>1. CASE Exists(attachment)
      BY <2>4, <3>1, ChainUntouched DEF CreateGenesis, ReadThenGoto, Goto, TypeOK,
                                        Labels, Exists
    <3>2. CASE ~Exists(attachment)
      <4>1. /\ attachment' = [session |-> s, generation |-> 1, stale |-> FALSE]
            /\ granted' = granted \cup {<<1, s>>}
            /\ pc' = [pc EXCEPT ![s] = "idle"]
            /\ \A t \in Sessions \ {s} : seen'[t] = seen[t] /\ call'[t] = call[t]
        BY <2>4, <3>2 DEF CreateGenesis, Return, Goto, TypeOK
      <4> QED
        BY <3>2, <4>1 DEF GrantChain, Exists, TypeOK
    <3> QED
      BY <3>1, <3>2
  <2>5. ASSUME NEW s \in Sessions, Decide(s) PROVE GrantChain'
    <3>1. CASE Goto(s, "release") /\ UNCHANGED seen
      BY <2>5, <3>1, ChainUntouched DEF Decide, Goto, TypeOK, Labels
    <3>2. ASSUME Unmoved(s), MayBump(s), ReadThenGoto(s, "bump") PROVE GrantChain'
      BY <2>5, <3>2 DEF Decide, Unmoved, MayBump, ReadThenGoto, Goto, GrantChain,
                        Exists, TypeOK
    <3>3. ASSUME Unmoved(s), MayRenew(s), ReadThenGoto(s, "renew") PROVE GrantChain'
      BY <2>5, <3>3 DEF Decide, Unmoved, MayRenew, ReadThenGoto, Goto, GrantChain,
                        Exists, TypeOK
    <3> QED
      BY <2>5, <3>1, <3>2, <3>3 DEF Decide
  <2>6. ASSUME NEW s \in Sessions, WriteBump(s) PROVE GrantChain'
    <3>1. /\ attachment' = [session |-> s, generation |-> seen[s].generation + 1,
                            stale |-> FALSE]
          /\ granted' = granted \cup {<<seen[s].generation + 1, s>>}
          /\ pc' = [pc EXCEPT ![s] = "release"]
          /\ UNCHANGED <<seen, call>>
      BY <2>6 DEF WriteBump, Goto
    <3>2. seen[s].generation \in Nat
      BY DEF TypeOK, Attachments
    <3> QED
      BY <3>1, <3>2 DEF GrantChain, Exists, TypeOK
  <2>7. ASSUME NEW s \in Sessions, WriteRenewal(s) \/ HeartbeatWrite(s)
        PROVE  GrantChain'
    <3>0. /\ seen[s].session = s
          /\ <<seen[s].generation, s>> \in granted
      BY <2>7 DEF WriteRenewal, HeartbeatWrite, At, GrantChain
    <3>1. /\ attachment' = [seen[s] EXCEPT !.stale = FALSE]
          /\ granted' = granted \cup {<<seen[s].generation, s>>}
          /\ \E label \in {"release", "idle"} : pc' = [pc EXCEPT ![s] = label]
          /\ \A t \in Sessions \ {s} : seen'[t] = seen[t] /\ call'[t] = call[t]
      BY <2>7, <3>0 DEF WriteRenewal, HeartbeatWrite, Return, Goto, TypeOK
    <3>2. /\ attachment'.session = s
          /\ attachment'.generation = seen[s].generation
          /\ seen[s].generation > 0
      BY <3>0, <3>1 DEF TypeOK, Attachments, GrantChain
    <3>3. granted' = granted
      BY <3>0, <3>1
    <3> QED
      BY <3>0, <3>1, <3>2, <3>3 DEF GrantChain, Exists, TypeOK
  <2>8. ASSUME NEW s \in Sessions, HeartbeatRead(s) PROVE GrantChain'
    <3>1. Exists(attachment)
      BY <2>8, RegistryAssumption DEF HeartbeatRead, GrantChain
    <3> QED
      BY <2>8, <3>1 DEF HeartbeatRead, ReadThenGoto, Goto, GrantChain, Exists, TypeOK
  <2>9. ASSUME NEW s \in Sessions,
               SetTransferWindow(s) \/ ClearTransferWindow(s) \/ Restart(s)
        PROVE  GrantChain'
    BY <2>9 DEF SetTransferWindow, ClearTransferWindow, Restart, GrantChain, Exists
  <2> QED
    BY <2>1, <2>2, <2>3, <2>4, <2>5, <2>6, <2>7, <2>8, <2>9
    DEF RegistryNext, SessionStep, AttachStep
<1> QED BY <1>1, <1>2, RegistryTypeOK, PTL DEF RegistrySpec
(***************************************************************************)
(* Ownership is only ever granted by the first attachment or by a bump.    *)
(***************************************************************************)
LEMMA WaysToOwn ==
  ASSUME TypeOK, GrantChain, [RegistryNext]_registryVars
  PROVE  \/ granted' = granted /\ spent' = spent
         \/ /\ granted = {} /\ spent' = spent
            /\ \E s \in Sessions : granted' = {<<1, s>>}
         \/ \E s \in Sessions : WriteBump(s)
<1>1. CASE TimePasses \/ UNCHANGED registryVars
  BY <1>1 DEF TimePasses, HeartbeatGoesStale, LeaseGrowsOld, TokenExpires,
              WindowExpires, registryVars
<1>2. ASSUME NEW s \in Sessions, CreateGenesis(s)
      PROVE  \/ granted' = granted /\ spent' = spent
             \/ granted = {} /\ spent' = spent /\ granted' = {<<1, s>>}
  BY <1>2 DEF CreateGenesis, GrantChain
<1>3. ASSUME NEW s \in Sessions, WriteRenewal(s)
      PROVE  granted' = granted /\ spent' = spent
  <2>1. <<seen[s].generation, s>> \in granted
    BY <1>3 DEF WriteRenewal, At, GrantChain
  <2> QED
    BY <1>3, <2>1 DEF WriteRenewal
<1>4. ASSUME NEW s \in Sessions, SessionStep(s),
             ~CreateGenesis(s), ~WriteRenewal(s), ~WriteBump(s)
      PROVE  granted' = granted /\ spent' = spent
  BY <1>4 DEF SessionStep, AttachStep, AttachRead, TakeoverRead, AcquireLease,
              StealLease, Decide, ReadOwnLease, UnlinkLease, DetachRead, DetachWrite,
              HeartbeatRead, HeartbeatWrite, SetTransferWindow, ClearTransferWindow,
              Crash, Restart
<1> QED
  BY <1>1, <1>2, <1>3, <1>4 DEF RegistryNext

(***************************************************************************)
(* One first owner, however many sessions attach at once.                  *)
(***************************************************************************)
THEOREM RegistryFirstOwnerIsUnique == RegistrySpec => []FirstOwnerIsUnique
<1>1. RegistryInit => FirstOwnerIsUnique
  BY DEF RegistryInit, FirstOwnerIsUnique
<1>2. TypeOK /\ GrantChain /\ FirstOwnerIsUnique /\ [RegistryNext]_registryVars
        => FirstOwnerIsUnique'
  <2> SUFFICES ASSUME TypeOK, GrantChain, FirstOwnerIsUnique,
                      [RegistryNext]_registryVars
               PROVE  FirstOwnerIsUnique'
    OBVIOUS
  <2>1. ASSUME NEW s \in Sessions, WriteBump(s) PROVE FirstOwnerIsUnique'
    <3>1. seen[s].generation \in Nat /\ seen[s].generation > 0
      BY <2>1 DEF WriteBump, At, GrantChain, TypeOK, Attachments
    <3>2. granted' = granted \cup {<<seen[s].generation + 1, s>>}
      BY <2>1 DEF WriteBump
    <3> QED
      BY <3>1, <3>2 DEF FirstOwnerIsUnique
  <2> QED
    BY <2>1, WaysToOwn DEF FirstOwnerIsUnique
<1> QED BY <1>1, <1>2, RegistryTypeOK, RegistryGrantChain, PTL DEF RegistrySpec

(***************************************************************************)
(* A token buys the generation after its issuer's, from a true owner.      *)
(***************************************************************************)
THEOREM RegistryTokenBuysSuccession == RegistrySpec => []TokenBuysSuccession
<1>1. RegistryInit => TokenBuysSuccession
  BY DEF RegistryInit, TokenBuysSuccession
<1>2. TypeOK /\ GrantChain /\ TokenBuysSuccession /\ [RegistryNext]_registryVars
        => TokenBuysSuccession'
  <2> SUFFICES ASSUME TypeOK, GrantChain, TokenBuysSuccession,
                      [RegistryNext]_registryVars
               PROVE  TokenBuysSuccession'
    OBVIOUS
  <2>1. ASSUME NEW s \in Sessions, WriteBump(s) PROVE TokenBuysSuccession'
    <3>1. granted \subseteq granted'
      BY <2>1 DEF WriteBump
    <3>2. call[s].kind = "token" =>
            /\ spent' = spent \cup {<<call[s].token, seen[s].generation + 1, s>>}
            /\ call[s].token.generation = seen[s].generation
            /\ <<call[s].token.generation, call[s].token.from>> \in granted
      BY <2>1 DEF WriteBump, At, GrantChain
    <3>3. call[s].kind # "token" => spent' = spent
      BY <2>1 DEF WriteBump
    <3>4. ASSUME NEW p \in spent'
          PROVE  p[2] = p[1].generation + 1 /\ <<p[1].generation, p[1].from>> \in granted'
      <4>1. CASE p \in spent
        BY <3>1, <4>1 DEF TokenBuysSuccession
      <4>2. CASE p \notin spent
        <5>1. p = <<call[s].token, seen[s].generation + 1, s>>
          BY <3>2, <3>3, <3>4, <4>2
        <5>2. p[1] = call[s].token /\ p[2] = seen[s].generation + 1
          BY <5>1
        <5> QED
          BY <3>1, <3>2, <3>3, <3>4, <4>2, <5>2
      <4> QED
        BY <4>1, <4>2
    <3> QED
      BY <3>4 DEF TokenBuysSuccession
  <2>2. CASE granted \subseteq granted' /\ spent' = spent
    BY <2>2 DEF TokenBuysSuccession
  <2> QED
    BY <2>1, <2>2, WaysToOwn
<1> QED BY <1>1, <1>2, RegistryTypeOK, RegistryGrantChain, PTL DEF RegistrySpec

-----------------------------------------------------------------------------
(* Second part: no lease grows old, nobody calls heartbeatMaster *)

(***************************************************************************)
(* The lease protects the read-modify-write of the attachment.             *)
(***************************************************************************)
THEOREM RegistryLeaseProtects ==
  ASSUME LeaseMayAge = FALSE, HeartbeatCallers = {}
  PROVE  RegistrySpec => []LeaseProtects
<1>1. RegistryInit => LeaseProtects
  BY DEF RegistryInit, LeaseProtects, HolderIsCurrent, GrantsArePast, SpentArePast, NoLease
<1>2. TypeOK /\ GrantChain /\ LeaseProtects /\ [RegistryNext]_registryVars
        => LeaseProtects'
  <2> SUFFICES ASSUME TypeOK, GrantChain, LeaseProtects, [RegistryNext]_registryVars
               PROVE  LeaseProtects'
    OBVIOUS
  <2>1. CASE TimePasses
    BY <2>1 DEF TimePasses, HeartbeatGoesStale, LeaseGrowsOld, TokenExpires,
                WindowExpires, LeaseProtects, HolderIsCurrent, GrantsArePast, SpentArePast,
                SameOwner, TypeOK, Attachments
  <2>2. CASE UNCHANGED registryVars
    BY <2>2 DEF registryVars, LeaseProtects, HolderIsCurrent, GrantsArePast, SpentArePast,
                SameOwner
  <2>3. ASSUME NEW s \in Sessions,
               \/ AttachRead(s) \/ TakeoverRead(s) \/ DetachRead(s) \/ DetachWrite(s)
               \/ Crash(s)
        PROVE  LeaseProtects'
    <3>1. /\ UNCHANGED <<attachment, lease, granted, spent>>
          /\ \A t \in Sessions \ {s} : seen'[t] = seen[t]
          /\ \E label \in {"create", "lease", "detach", "idle"} :
               pc' = [pc EXCEPT ![s] = label]
      BY <2>3 DEF AttachRead, TakeoverRead, DetachRead, DetachWrite, Crash,
                  ReadThenGoto, Return, Goto, TypeOK
    <3> QED
      BY <3>1 DEF LeaseProtects, HolderIsCurrent, GrantsArePast, SpentArePast, SameOwner,
                  TypeOK
  <2>4. ASSUME NEW s \in Sessions, CreateGenesis(s) PROVE LeaseProtects'
    <3>1. CASE Exists(attachment)
      BY <2>4, <3>1 DEF CreateGenesis, ReadThenGoto, Goto, LeaseProtects, HolderIsCurrent,
                        GrantsArePast, SpentArePast, SameOwner,
                        Exists, TypeOK
    <3>2. CASE ~Exists(attachment)
      <4>1. /\ attachment'.session = s /\ attachment'.generation = 1
            /\ granted' = {<<1, s>>}
            /\ pc' = [pc EXCEPT ![s] = "idle"]
            /\ UNCHANGED <<lease, spent>>
            /\ \A t \in Sessions \ {s} : seen'[t] = seen[t]
        BY <2>4, <3>2 DEF CreateGenesis, Return, Goto, GrantChain, TypeOK
      <4>2. \A t \in Sessions : pc[t] \notin {"bump", "renew"}
        BY <3>2 DEF GrantChain
      <4>3. attachment.generation = 0
        BY <3>2 DEF Exists, TypeOK, Attachments
      <4>4. \A p \in spent : p[1].generation < 1
        <5> SUFFICES ASSUME NEW p \in spent PROVE p[1].generation < 1
          OBVIOUS
        <5>1. p[1] \in Tokens /\ p[1].generation < 0
          BY <4>3 DEF LeaseProtects, SpentArePast, TypeOK
        <5>2. p[1].generation \in Nat
          BY <5>1 DEF Tokens
        <5> QED
          BY <5>1, <5>2
      <4> QED
        BY <4>1, <4>2, <4>4 DEF LeaseProtects, GrantsArePast, SpentArePast, HolderIsCurrent,
                                SameOwner, TypeOK
    <3> QED
      BY <3>1, <3>2
  <2>5. ASSUME NEW s \in Sessions, AcquireLease(s) PROVE LeaseProtects'
    <3>1. CASE lease.by = NoSession
      <4>1. \A t \in Sessions : pc[t] \notin UnderLease
        BY <3>1, RegistryAssumption DEF LeaseProtects, HolderIsCurrent
      <4>2. /\ UNCHANGED <<attachment, granted, spent, seen>>
            /\ lease' = [by |-> s, old |-> FALSE]
            /\ pc' = [pc EXCEPT ![s] = "decide"]
        BY <2>5, <3>1 DEF AcquireLease, Goto
      <4> QED
        BY <4>1, <4>2 DEF LeaseProtects, GrantsArePast, SpentArePast, HolderIsCurrent,
                          SameOwner, TypeOK
    <3>2. CASE lease.by # NoSession
      <4>1. /\ UNCHANGED <<attachment, granted, spent, lease>>
            /\ pc' = [pc EXCEPT ![s] = "idle"]
            /\ \A t \in Sessions \ {s} : seen'[t] = seen[t]
        BY <2>5, <3>2 DEF AcquireLease, Return, Goto, LeaseProtects, TypeOK
      <4> QED
        BY <4>1 DEF LeaseProtects, GrantsArePast, SpentArePast, HolderIsCurrent, SameOwner,
                    TypeOK
    <3> QED
      BY <3>1, <3>2
  <2>6. ASSUME NEW s \in Sessions, Decide(s) PROVE LeaseProtects'
    <3>1. /\ UNCHANGED <<attachment, lease, granted, spent>>
          /\ \A t \in Sessions \ {s} : seen'[t] = seen[t]
          /\ \/ pc' = [pc EXCEPT ![s] = "release"]
             \/ /\ seen'[s] = attachment
                /\ \E label \in {"bump", "renew"} : pc' = [pc EXCEPT ![s] = label]
      BY <2>6 DEF Decide, ReadThenGoto, Goto, TypeOK
    <3>2. pc[s] = "decide"
      BY <2>6 DEF Decide, At
    <3> QED
      BY <3>1, <3>2 DEF LeaseProtects, HolderIsCurrent, GrantsArePast, SpentArePast,
                        SameOwner, TypeOK
  <2>7. ASSUME NEW s \in Sessions, WriteBump(s) PROVE LeaseProtects'
    <3>1. /\ pc[s] = "bump"
          /\ attachment'.session = s
          /\ attachment'.generation = seen[s].generation + 1
          /\ granted' = granted \cup {<<seen[s].generation + 1, s>>}
          /\ pc' = [pc EXCEPT ![s] = "release"]
          /\ UNCHANGED <<lease, seen>>
      BY <2>7 DEF WriteBump, At, Goto
    <3>2. /\ attachment.generation \in Nat
          /\ attachment'.generation = attachment.generation + 1
      BY <3>1 DEF LeaseProtects, HolderIsCurrent, GrantsArePast, SpentArePast, SameOwner,
                  TypeOK, Attachments
    <3>3. \A t \in Sessions \ {s} : pc[t] \notin {"bump", "renew"}
      BY <3>1 DEF LeaseProtects, HolderIsCurrent
    <3>4. ASSUME NEW p \in granted'
          PROVE  /\ p[1] <= attachment'.generation
                 /\ p[1] = attachment'.generation => p[2] = attachment'.session
      <4>1. CASE p \in granted
        <5>1. p[1] \in Nat
          BY <4>1 DEF TypeOK
        <5>2. p[1] <= attachment.generation
          BY <4>1 DEF LeaseProtects, GrantsArePast, SpentArePast
        <5> QED
          BY <3>2, <5>1, <5>2
      <4>2. CASE p = <<seen[s].generation + 1, s>>
        BY <3>1, <3>2, <4>2
      <4> QED
        BY <3>1, <4>1, <4>2
    <3>5. ASSUME NEW p \in spent' PROVE p[1].generation < attachment'.generation
      <4>1. CASE p \in spent
        <5>1. p[1] \in Tokens /\ p[1].generation < attachment.generation
          BY <4>1 DEF LeaseProtects, GrantsArePast, SpentArePast, TypeOK
        <5>2. p[1].generation \in Nat
          BY <5>1 DEF Tokens
        <5> QED
          BY <3>2, <5>1, <5>2
      <4>2. CASE call[s].kind = "token" /\ p = <<call[s].token, seen[s].generation + 1, s>>
        <5>1. p[1] = call[s].token
          BY <4>2
        <5>2. p[1].generation = seen[s].generation /\ seen[s].generation \in Nat
          BY <3>1, <4>2, <5>1 DEF GrantChain, TypeOK, Attachments
        <5> QED
          BY <3>1, <5>2
      <4> QED
        BY <2>7, <4>1, <4>2 DEF WriteBump
    <3> QED
      BY <3>1, <3>3, <3>4, <3>5 DEF LeaseProtects, HolderIsCurrent, GrantsArePast,
                                    SpentArePast, SameOwner, TypeOK
  <2>8. ASSUME NEW s \in Sessions, WriteRenewal(s) PROVE LeaseProtects'
    <3>1. /\ pc[s] = "renew"
          /\ attachment' = [seen[s] EXCEPT !.stale = FALSE]
          /\ pc' = [pc EXCEPT ![s] = "release"]
          /\ UNCHANGED <<lease, seen, spent>>
      BY <2>8 DEF WriteRenewal, At, Goto
    <3>2. /\ attachment'.session = attachment.session
          /\ attachment'.generation = attachment.generation
      BY <3>1 DEF LeaseProtects, HolderIsCurrent, GrantsArePast, SpentArePast, SameOwner,
                  TypeOK, Attachments
    <3>3. granted' = granted
      <4>1. <<seen[s].generation, s>> \in granted
        BY <3>1 DEF GrantChain
      <4> QED
        BY <2>8, <4>1 DEF WriteRenewal
    <3> QED
      BY <3>1, <3>2, <3>3 DEF LeaseProtects, HolderIsCurrent, GrantsArePast, SpentArePast,
                              SameOwner, TypeOK
  <2>9. ASSUME NEW s \in Sessions, ReadOwnLease(s) PROVE LeaseProtects'
    BY <2>9 DEF ReadOwnLease, At, Return, Goto, LeaseProtects, HolderIsCurrent,
                GrantsArePast, SpentArePast, SameOwner, TypeOK
  <2>10. ASSUME NEW s \in Sessions, UnlinkLease(s) PROVE LeaseProtects'
    <3>1. \A t \in Sessions \ {s} : pc[t] \notin UnderLease
      BY <2>10 DEF UnlinkLease, At, LeaseProtects, HolderIsCurrent
    <3> QED
      BY <2>10, <3>1 DEF UnlinkLease, NoLease, Return, Goto, LeaseProtects, HolderIsCurrent,
                         GrantsArePast, SpentArePast, SameOwner, TypeOK
  <2>11. ASSUME NEW s \in Sessions,
                SetTransferWindow(s) \/ ClearTransferWindow(s) \/ Restart(s)
         PROVE  LeaseProtects'
    BY <2>11 DEF SetTransferWindow, ClearTransferWindow, Restart, LeaseProtects,
                 HolderIsCurrent, GrantsArePast, SpentArePast, SameOwner
  <2>12. ASSUME NEW s \in Sessions, StealLease(s) \/ HeartbeatRead(s) \/ HeartbeatWrite(s)
         PROVE  LeaseProtects'
    BY <2>12 DEF StealLease, HeartbeatRead, HeartbeatWrite, At, LeaseProtects,
                 HolderIsCurrent
  <2> QED
    BY <2>1, <2>2, <2>3, <2>4, <2>5, <2>6, <2>7, <2>8, <2>9, <2>10, <2>11, <2>12
    DEF RegistryNext, SessionStep, AttachStep
<1> QED BY <1>1, <1>2, RegistryTypeOK, RegistryGrantChain, PTL DEF RegistrySpec

(***************************************************************************)
(* At most one session is inside the lease.                                *)
(***************************************************************************)
THEOREM RegistryLeaseIsExclusive ==
  ASSUME LeaseMayAge = FALSE, HeartbeatCallers = {}
  PROVE  RegistrySpec => []LeaseIsExclusive
<1>1. LeaseProtects => LeaseIsExclusive
  BY DEF LeaseProtects, HolderIsCurrent, LeaseIsExclusive
<1> QED BY <1>1, RegistryLeaseProtects, PTL

(***************************************************************************)
(* No generation is ever granted to two sessions.  A bump grants a number  *)
(* above all numbers granted so far, because the copy it was computed from *)
(* is the attachment as it is.                                             *)
(***************************************************************************)
THEOREM RegistryOneOwnerPerGeneration ==
  ASSUME LeaseMayAge = FALSE, HeartbeatCallers = {}
  PROVE  RegistrySpec => []OneOwnerPerGeneration
<1>1. RegistryInit => OneOwnerPerGeneration
  BY DEF RegistryInit, OneOwnerPerGeneration
<1>2. TypeOK /\ GrantChain /\ LeaseProtects /\ OneOwnerPerGeneration /\ [RegistryNext]_registryVars
        => OneOwnerPerGeneration'
  <2> SUFFICES ASSUME TypeOK, GrantChain, LeaseProtects, OneOwnerPerGeneration,
                      [RegistryNext]_registryVars
               PROVE  OneOwnerPerGeneration'
    OBVIOUS
  <2>1. ASSUME NEW s \in Sessions, WriteBump(s) PROVE OneOwnerPerGeneration'
    <3>1. /\ granted' = granted \cup {<<attachment.generation + 1, s>>}
          /\ attachment.generation \in Nat
      BY <2>1 DEF WriteBump, At, LeaseProtects, HolderIsCurrent, GrantsArePast,
                  SpentArePast, SameOwner, TypeOK, Attachments
    <3>2. \A p \in granted : p[1] # attachment.generation + 1
      <4> SUFFICES ASSUME NEW p \in granted PROVE p[1] # attachment.generation + 1
        OBVIOUS
      <4>1. p[1] \in Nat
        BY DEF TypeOK
      <4>2. p[1] <= attachment.generation
        BY DEF LeaseProtects, GrantsArePast, SpentArePast
      <4> QED
        BY <3>1, <4>1, <4>2
    <3> QED
      BY <3>1, <3>2 DEF OneOwnerPerGeneration
  <2> QED
    BY <2>1, WaysToOwn DEF OneOwnerPerGeneration
<1> QED BY <1>1, <1>2, RegistryTypeOK, RegistryGrantChain, RegistryLeaseProtects, PTL
        DEF RegistrySpec

(***************************************************************************)
(* A token is spent once: when it is, its generation becomes the past.     *)
(***************************************************************************)
THEOREM RegistryTokenSpentOnce ==
  ASSUME LeaseMayAge = FALSE, HeartbeatCallers = {}
  PROVE  RegistrySpec => []TokenSpentOnce
<1>1. RegistryInit => TokenSpentOnce
  BY DEF RegistryInit, TokenSpentOnce
<1>2. TypeOK /\ GrantChain /\ LeaseProtects /\ TokenSpentOnce /\ [RegistryNext]_registryVars
        => TokenSpentOnce'
  <2> SUFFICES ASSUME TypeOK, GrantChain, LeaseProtects, TokenSpentOnce,
                      [RegistryNext]_registryVars
               PROVE  TokenSpentOnce'
    OBVIOUS
  <2>1. ASSUME NEW s \in Sessions, WriteBump(s) PROVE TokenSpentOnce'
    <3>1. CASE call[s].kind = "token"
      <4>1. call[s].token.generation = attachment.generation
        BY <2>1, <3>1 DEF WriteBump, At, GrantChain, LeaseProtects, HolderIsCurrent,
                          GrantsArePast, SpentArePast, SameOwner
      <4>2. \A p \in spent : p[1] # call[s].token
        <5> SUFFICES ASSUME NEW p \in spent, p[1] = call[s].token PROVE FALSE
          OBVIOUS
        <5>1. attachment.generation < attachment.generation
          BY <4>1 DEF LeaseProtects, GrantsArePast, SpentArePast
        <5>2. attachment.generation \in Nat
          BY DEF TypeOK, Attachments
        <5> QED
          BY <5>1, <5>2
      <4>3. spent' = spent \cup {<<call[s].token, seen[s].generation + 1, s>>}
        BY <2>1, <3>1 DEF WriteBump
      <4> QED
        BY <4>2, <4>3 DEF TokenSpentOnce
    <3>2. CASE call[s].kind # "token"
      BY <2>1, <3>2 DEF WriteBump, TokenSpentOnce
    <3> QED
      BY <3>1, <3>2
  <2>2. CASE spent' = spent
    BY <2>2 DEF TokenSpentOnce
  <2> QED
    BY <2>1, <2>2, WaysToOwn
<1> QED BY <1>1, <1>2, RegistryTypeOK, RegistryGrantChain, RegistryLeaseProtects, PTL
        DEF RegistrySpec

(***************************************************************************)
(* The registry implements Ownership.                                      *)
(***************************************************************************)
THEOREM RegistryImplementsOwnership ==
  ASSUME LeaseMayAge = FALSE, HeartbeatCallers = {}
  PROVE  RegistrySpec => ImplementsOwnership
<1>1. RegistryInit => O!OwnershipInit
  BY DEF RegistryInit, NoAttachment, O!OwnershipInit
<1>2. TypeOK /\ LeaseProtects /\ [RegistryNext]_registryVars
        => [O!OwnershipNext]_(O!ownershipVars)
  <2> SUFFICES ASSUME TypeOK, LeaseProtects, [RegistryNext]_registryVars
               PROVE  \/ O!OwnershipNext
                      \/ /\ attachment'.session = attachment.session
                         /\ attachment'.generation = attachment.generation
    BY DEF O!ownershipVars
  <2>1. CASE TimePasses \/ UNCHANGED registryVars
    BY <2>1 DEF TimePasses, HeartbeatGoesStale, LeaseGrowsOld, TokenExpires,
                WindowExpires, registryVars, TypeOK, Attachments
  <2>2. ASSUME NEW s \in Sessions, CreateGenesis(s)
        PROVE  O!TakeOwnership(s) \/ attachment' = attachment
    <3>1. ~Exists(attachment) => attachment.generation = 0
      BY DEF Exists, TypeOK, Attachments
    <3> QED
      BY <2>2, <3>1 DEF CreateGenesis, O!TakeOwnership
  <2>3. ASSUME NEW s \in Sessions, WriteBump(s) PROVE O!TakeOwnership(s)
    BY <2>3 DEF WriteBump, At, LeaseProtects, HolderIsCurrent, GrantsArePast, SpentArePast,
                SameOwner, O!TakeOwnership
  <2>4. ASSUME NEW s \in Sessions, WriteRenewal(s)
        PROVE  /\ attachment'.session = attachment.session
               /\ attachment'.generation = attachment.generation
    BY <2>4 DEF WriteRenewal, At, LeaseProtects, HolderIsCurrent, GrantsArePast,
                SpentArePast, SameOwner, TypeOK, Attachments
  <2>5. ASSUME NEW s \in Sessions, SessionStep(s),
               ~CreateGenesis(s), ~WriteRenewal(s), ~WriteBump(s)
        PROVE  attachment' = attachment
    BY <2>5 DEF SessionStep, AttachStep, AttachRead, TakeoverRead, AcquireLease,
                StealLease, Decide, ReadOwnLease, UnlinkLease, DetachRead, DetachWrite,
                HeartbeatRead, HeartbeatWrite, At, LeaseProtects, HolderIsCurrent,
                SetTransferWindow,
                ClearTransferWindow, Crash, Restart
  <2> QED
    BY <2>1, <2>2, <2>3, <2>4, <2>5 DEF RegistryNext, O!OwnershipNext
<1> QED BY <1>1, <1>2, RegistryTypeOK, RegistryLeaseProtects, PTL
        DEF RegistrySpec, ImplementsOwnership, O!OwnershipSpec
=============================================================================
