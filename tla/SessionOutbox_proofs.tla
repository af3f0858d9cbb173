------------------------ MODULE SessionOutbox_proofs ------------------------
(***************************************************************************)
(* What a message for a session is promised, for every set of sessions and *)
(* every bound: its types, how often it reaches a conversation, and that   *)
(* its item says what became of it.                                        *)
(***************************************************************************)
EXTENDS SessionOutbox, FiniteSetTheorems, TLAPS

USE DEF Goto, Unmoved, Uncounted, files, calls, bounds, BeginMark, EndMark, ListMine, Answered,
        EndRound, Fault, Queued, Absent, NoClaim, Marking, Claiming, Confirming, Releasing

-----------------------------------------------------------------------------
(* Types *)

FileTypes ==
  /\ item \in Items
  /\ claim \in Claims /\ (claim.by = Nobody => claim = NoClaim)
  /\ receipt \in {"none", "torn", "written"}
  /\ record \in {"none", "pending", "injected", "rejected"}
  /\ owner \in Owners /\ before \in Owners \cup {NoOwner}

CallTypes ==
  /\ flying \in [Sessions -> Nat]
  /\ pc \in [Processes -> Labels]
  /\ attempts \in [Processes -> 0 .. MaxAttempts - 1]
  /\ copy \in [Processes -> Sessions \cup {Nobody}]
  /\ verdict \in [Processes -> Final]

CountTypes ==
  /\ injected \in Nat /\ lost \in Nat /\ slow \in 0 .. MaxSlow
  /\ raced \in Nat /\ requeued \in BOOLEAN
  /\ moves \in 0 .. MaxMoves /\ refusals \in 0 .. MaxRefusals
  /\ failures \in 0 .. MaxFailures

Types == FileTypes /\ CallTypes /\ CountTypes

\* Generations count the moves; a pending item names its session, and so does the copy
\* of one; only a call that marks the item has a verdict; a receipt is written before
\* the claim is removed; the host that queues has read an owner.
CallInv ==
  /\ owner.generation = moves + 1
  /\ item.status = "pending" => item.to \in Sessions
  /\ \A p \in Processes : verdict[p] # "expired" => pc[p] \in Marking
  /\ \A p \in Processes : pc[p] = "writeItem" => copy[p] \in Sessions
  /\ \A s \in Sessions : pc[s] = "clear" => receipt = "written"
  /\ pc[Host] \in {"reread", "queue"} => before \in Owners

\* Sessions and the host are processes, and nobody is neither.
LEMMA Members ==
  /\ \A s \in Sessions : s \in Processes /\ s # Nobody /\ s # Host
  /\ Host \in Processes /\ Host # Nobody
  BY OutboxAssumption DEF OutboxAssumption, Processes


\* Every step keeps the types.
LEMMA FileStep ==
  ASSUME Types, CallInv, [OutboxNext]_outboxVars
  PROVE  FileTypes'
<1> USE OutboxAssumption, Members DEF Types, FileTypes, Items, Claims, Final, OutboxAssumption
<1>1. ASSUME NEW p \in Processes, ReadItem(p) PROVE FileTypes'
  BY <1>1 DEF ReadItem
<1>2. ASSUME NEW p \in Processes, WriteItem(p) PROVE FileTypes'
  <2>1. [status |-> verdict[p], to |-> copy[p], old |-> FALSE] \in Items
    BY DEF CallTypes
  <2>2. item' \in Items
    BY <1>2, <2>1 DEF WriteItem
  <2> QED BY <1>2, <2>2 DEF WriteItem
<1>3. ASSUME NEW p \in Processes, Crash(p) PROVE FileTypes'
  BY <1>3 DEF Crash
<1>4. ASSUME NEW s \in Sessions, BeginTick(s) PROVE FileTypes'
  BY <1>4 DEF BeginTick
<1>5. ASSUME NEW s \in Sessions, EndSweep(s) PROVE FileTypes'
  BY <1>5 DEF EndSweep
<1>6. ASSUME NEW s \in Sessions, Look(s) PROVE FileTypes'
  BY <1>6 DEF Look, Replay, NotWon, ClaimCall
<1>7. ASSUME NEW s \in Sessions, CreateClaim(s) PROVE FileTypes'
  <2>1. claim' \in {claim, [by |-> s, state |-> "torn"]}
    BY <1>7 DEF CreateClaim
  <2>2. claim \in Claims /\ [by |-> s, state |-> "torn"] \in Claims
    OBVIOUS
  <2>3. claim' \in Claims /\ (claim'.by = Nobody => claim' = NoClaim)
    BY <2>1, <2>2
  <2> QED BY <1>7, <2>3 DEF CreateClaim, ClaimCall
<1>8. ASSUME NEW s \in Sessions, FillClaim(s) PROVE FileTypes'
  BY <1>8 DEF FillClaim, Skip, ClaimCall
<1>9. ASSUME NEW s \in Sessions, Judge(s) PROVE FileTypes'
  BY <1>9 DEF Judge, Retry, Replay, Skip, NotWon, ClaimCall
<1>10. ASSUME NEW s \in Sessions, UnlinkStale(s) PROVE FileTypes'
  <2>1. claim' \in {claim, NoClaim}
    BY <1>10 DEF UnlinkStale
  <2>2. claim \in Claims /\ NoClaim \in Claims
    OBVIOUS
  <2>3. claim' \in Claims /\ (claim'.by = Nobody => claim' = NoClaim)
    BY <2>1, <2>2
  <2> QED BY <1>10, <2>3 DEF UnlinkStale, ClaimCall
<1>11. ASSUME NEW s \in Sessions, Confirm(s) PROVE FileTypes'
  BY <1>11 DEF Confirm, Mine, NotWon, ClaimCall
<1>12. ASSUME NEW s \in Sessions, CreateReceipt(s) PROVE FileTypes'
  BY <1>12 DEF CreateReceipt, NotConfirmed, ClaimCall
<1>13. ASSUME NEW s \in Sessions, FillReceipt(s) PROVE FileTypes'
  BY <1>13 DEF FillReceipt, NotConfirmed, ClaimCall
<1>14. ASSUME NEW s \in Sessions, ClearClaim(s) PROVE FileTypes'
  <2>1. claim' \in {claim, NoClaim}
    BY <1>14 DEF ClearClaim, RemoveClaim
  <2>2. claim \in Claims /\ NoClaim \in Claims
    OBVIOUS
  <2>3. claim' \in Claims /\ (claim'.by = Nobody => claim' = NoClaim)
    BY <2>1, <2>2
  <2> QED BY <1>14, <2>3 DEF ClearClaim, ClaimCall
<1>15. ASSUME NEW s \in Sessions, Release(s) PROVE FileTypes'
  BY <1>15 DEF Release, Mine, NotWon, ClaimCall
<1>16. ASSUME NEW s \in Sessions, DropClaim(s) PROVE FileTypes'
  <2>1. claim' \in {claim, NoClaim}
    BY <1>16 DEF DropClaim, RemoveClaim
  <2>2. claim \in Claims /\ NoClaim \in Claims
    OBVIOUS
  <2>3. claim' \in Claims /\ (claim'.by = Nobody => claim' = NoClaim)
    BY <2>1, <2>2
  <2> QED BY <1>16, <2>3 DEF DropClaim, ClaimCall
<1>17. ASSUME NEW s \in Sessions, SendLands(s) PROVE FileTypes'
  BY <1>17 DEF SendLands
<1>18. ASSUME NEW s \in Sessions, SendBusy(s) PROVE FileTypes'
  BY <1>18 DEF SendBusy
<1>19. ASSUME NEW s \in Sessions, SendFails(s) PROVE FileTypes'
  BY <1>19 DEF SendFails
<1>20. ASSUME NEW s \in Sessions, QueueCommand(s) PROVE FileTypes'
  BY <1>20 DEF QueueCommand
<1>21. ASSUME ChooseRecord PROVE FileTypes'
  BY <1>21 DEF ChooseRecord
<1>22. ASSUME RereadOwner PROVE FileTypes'
  BY <1>22 DEF RereadOwner
<1>23. ASSUME QueueWechat PROVE FileTypes'
  <2>1. before.session \in Sessions
    BY <1>23 DEF CallInv, Owners, QueueWechat
  <2>2. [status |-> "pending", to |-> before.session, old |-> FALSE] \in Items /\ item \in Items
    BY <2>1
  <2>3. item' \in {item, [status |-> "pending", to |-> before.session, old |-> FALSE]}
    BY <1>23 DEF QueueWechat
  <2>4. item' \in Items
    BY Zenon, <2>2, <2>3
  <2> QED BY <1>23, <2>4 DEF QueueWechat
<1>24. ASSUME SettleRecord PROVE FileTypes'
  BY <1>24 DEF SettleRecord
<1>25. ASSUME RejectRecord PROVE FileTypes'
  BY <1>25 DEF RejectRecord
<1>26. ASSUME OwnerMoves PROVE FileTypes'
  BY <1>26 DEF OwnerMoves, Owners, CountTypes, CallInv
<1>27. ASSUME ItemGrowsOld PROVE FileTypes'
  BY <1>27 DEF ItemGrowsOld
<1>28. ASSUME ClaimGrowsStale PROVE FileTypes'
  BY <1>28 DEF ClaimGrowsStale
<1>29. CASE UNCHANGED outboxVars
  BY <1>29 DEF outboxVars
<1> QED BY <1>1, <1>2, <1>3, <1>4, <1>5, <1>6, <1>7, <1>8, <1>9, <1>10, <1>11, <1>12, <1>13,
      <1>14, <1>15, <1>16, <1>17, <1>18, <1>19, <1>20, <1>21, <1>22, <1>23, <1>24, <1>25, <1>26,
      <1>27, <1>28, <1>29 DEF OutboxNext, MarkStep, SendStep, ClaimStep, ConfirmStep,
      ReleaseStep, TickStep, BridgeStep, InputStep


\* The calls.
LEMMA CallStep ==
  ASSUME Types, CallInv, [OutboxNext]_outboxVars
  PROVE  CallTypes'
<1> USE OutboxAssumption, Members DEF Types, FileTypes, CallTypes, Items, Final, Labels,
      Queueing, OutboxAssumption
<1>1. ASSUME NEW p \in Processes, ReadItem(p) PROVE CallTypes'
  BY <1>1 DEF ReadItem
<1>2. ASSUME NEW p \in Processes, WriteItem(p) PROVE CallTypes'
  BY <1>2 DEF WriteItem
<1>3. ASSUME NEW p \in Processes, Crash(p) PROVE CallTypes'
  BY <1>3 DEF Crash
<1>4. ASSUME NEW s \in Sessions, BeginTick(s) PROVE CallTypes'
  BY <1>4 DEF BeginTick
<1>5. ASSUME NEW s \in Sessions, EndSweep(s) PROVE CallTypes'
  BY <1>5 DEF EndSweep
<1>6. ASSUME NEW s \in Sessions, Look(s) PROVE CallTypes'
  BY <1>6 DEF Look, Replay, NotWon, ClaimCall
<1>7. ASSUME NEW s \in Sessions, CreateClaim(s) PROVE CallTypes'
  BY <1>7 DEF CreateClaim, Race, Skip, ClaimCall
<1>8. ASSUME NEW s \in Sessions, FillClaim(s) PROVE CallTypes'
  BY <1>8 DEF FillClaim, Skip, ClaimCall
<1>9. ASSUME NEW s \in Sessions, Judge(s) PROVE CallTypes'
  BY <1>9 DEF Judge, Retry, Replay, Skip, NotWon, ClaimCall
<1>10. ASSUME NEW s \in Sessions, UnlinkStale(s) PROVE CallTypes'
  BY <1>10 DEF UnlinkStale, Race, Retry, Skip, ClaimCall
<1>11. ASSUME NEW s \in Sessions, Confirm(s) PROVE CallTypes'
  BY <1>11 DEF Confirm, Mine, NotWon, ClaimCall
<1>12. ASSUME NEW s \in Sessions, CreateReceipt(s) PROVE CallTypes'
  BY <1>12 DEF CreateReceipt, NotConfirmed, ClaimCall
<1>13. ASSUME NEW s \in Sessions, FillReceipt(s) PROVE CallTypes'
  BY <1>13 DEF FillReceipt, NotConfirmed, ClaimCall
<1>14. ASSUME NEW s \in Sessions, ClearClaim(s) PROVE CallTypes'
  BY <1>14 DEF ClearClaim, RemoveClaim, ClaimCall
<1>15. ASSUME NEW s \in Sessions, Release(s) PROVE CallTypes'
  BY <1>15 DEF Release, Mine, NotWon, ClaimCall
<1>16. ASSUME NEW s \in Sessions, DropClaim(s) PROVE CallTypes'
  BY <1>16 DEF DropClaim, RemoveClaim, ClaimCall
<1>17. ASSUME NEW s \in Sessions, SendLands(s) PROVE CallTypes'
  BY <1>17 DEF SendLands
<1>18. ASSUME NEW s \in Sessions, SendBusy(s) PROVE CallTypes'
  BY <1>18 DEF SendBusy
<1>19. ASSUME NEW s \in Sessions, SendFails(s) PROVE CallTypes'
  BY <1>19 DEF SendFails
<1>20. ASSUME NEW s \in Sessions, QueueCommand(s) PROVE CallTypes'
  BY <1>20 DEF QueueCommand
<1>21. ASSUME ChooseRecord PROVE CallTypes'
  BY <1>21 DEF ChooseRecord
<1>22. ASSUME RereadOwner PROVE CallTypes'
  BY <1>22 DEF RereadOwner
<1>23. ASSUME QueueWechat PROVE CallTypes'
  BY <1>23 DEF QueueWechat
<1>24. ASSUME SettleRecord PROVE CallTypes'
  BY <1>24 DEF SettleRecord
<1>25. ASSUME RejectRecord PROVE CallTypes'
  BY <1>25 DEF RejectRecord
<1>26. ASSUME OwnerMoves PROVE CallTypes'
  BY <1>26 DEF OwnerMoves
<1>27. ASSUME ItemGrowsOld PROVE CallTypes'
  BY <1>27 DEF ItemGrowsOld
<1>28. ASSUME ClaimGrowsStale PROVE CallTypes'
  BY <1>28 DEF ClaimGrowsStale
<1>29. CASE UNCHANGED outboxVars
  BY <1>29 DEF outboxVars
<1> QED BY <1>1, <1>2, <1>3, <1>4, <1>5, <1>6, <1>7, <1>8, <1>9, <1>10, <1>11, <1>12, <1>13,
      <1>14, <1>15, <1>16, <1>17, <1>18, <1>19, <1>20, <1>21, <1>22, <1>23, <1>24, <1>25, <1>26,
      <1>27, <1>28, <1>29 DEF OutboxNext, MarkStep, SendStep, ClaimStep, ConfirmStep,
      ReleaseStep, TickStep, BridgeStep, InputStep


\* The counters.
LEMMA CountStep ==
  ASSUME Types, CallInv, [OutboxNext]_outboxVars
  PROVE  CountTypes'
<1>1. ASSUME NEW p \in Processes, ReadItem(p) PROVE CountTypes'
  BY <1>1 DEF ReadItem, Types, CountTypes
<1>2. ASSUME NEW p \in Processes, WriteItem(p) PROVE CountTypes'
  BY OutboxAssumption, <1>2 DEF WriteItem, Types, CountTypes, OutboxAssumption
<1>3. ASSUME NEW p \in Processes, Crash(p) PROVE CountTypes'
  BY OutboxAssumption, <1>3 DEF Crash, Types, CountTypes, OutboxAssumption
<1>4. ASSUME NEW s \in Sessions, BeginTick(s) PROVE CountTypes'
  BY <1>4 DEF BeginTick, Types, CountTypes
<1>5. ASSUME NEW s \in Sessions, EndSweep(s) PROVE CountTypes'
  BY <1>5 DEF EndSweep, Types, CountTypes
<1>6. ASSUME NEW s \in Sessions, Look(s) PROVE CountTypes'
  BY <1>6 DEF Look, Replay, NotWon, ClaimCall, Types, CountTypes
<1>7. ASSUME NEW s \in Sessions, CreateClaim(s) PROVE CountTypes'
  BY OutboxAssumption, <1>7 DEF CreateClaim, Race, Skip, ClaimCall, Types, CountTypes,
      OutboxAssumption
<1>8. ASSUME NEW s \in Sessions, FillClaim(s) PROVE CountTypes'
  BY OutboxAssumption, <1>8 DEF FillClaim, Skip, ClaimCall, Types, CountTypes, OutboxAssumption
<1>9. ASSUME NEW s \in Sessions, Judge(s) PROVE CountTypes'
  BY <1>9 DEF Judge, Retry, Replay, Skip, NotWon, ClaimCall, Types, CountTypes
<1>10. ASSUME NEW s \in Sessions, UnlinkStale(s) PROVE CountTypes'
  BY OutboxAssumption, <1>10 DEF UnlinkStale, Race, Retry, Skip, ClaimCall, Types, CountTypes,
      OutboxAssumption
<1>11. ASSUME NEW s \in Sessions, Confirm(s) PROVE CountTypes'
  BY <1>11 DEF Confirm, Mine, NotWon, ClaimCall, Types, CountTypes
<1>12. ASSUME NEW s \in Sessions, CreateReceipt(s) PROVE CountTypes'
  BY OutboxAssumption, <1>12 DEF CreateReceipt, NotConfirmed, ClaimCall, Types, CountTypes,
      OutboxAssumption
<1>13. ASSUME NEW s \in Sessions, FillReceipt(s) PROVE CountTypes'
  BY OutboxAssumption, <1>13 DEF FillReceipt, NotConfirmed, ClaimCall, Types, CountTypes,
      OutboxAssumption
<1>14. ASSUME NEW s \in Sessions, ClearClaim(s) PROVE CountTypes'
  BY OutboxAssumption, <1>14 DEF ClearClaim, RemoveClaim, ClaimCall, Types, CountTypes,
      OutboxAssumption
<1>15. ASSUME NEW s \in Sessions, Release(s) PROVE CountTypes'
  BY <1>15 DEF Release, Mine, NotWon, ClaimCall, Types, CountTypes
<1>16. ASSUME NEW s \in Sessions, DropClaim(s) PROVE CountTypes'
  BY OutboxAssumption, <1>16 DEF DropClaim, RemoveClaim, ClaimCall, Types, CountTypes,
      OutboxAssumption
<1>17. ASSUME NEW s \in Sessions, SendLands(s) PROVE CountTypes'
  BY OutboxAssumption, <1>17 DEF SendLands, Types, CountTypes, OutboxAssumption
<1>18. ASSUME NEW s \in Sessions, SendBusy(s) PROVE CountTypes'
  BY OutboxAssumption, <1>18 DEF SendBusy, Types, CountTypes, OutboxAssumption
<1>19. ASSUME NEW s \in Sessions, SendFails(s) PROVE CountTypes'
  BY OutboxAssumption, <1>19 DEF SendFails, Types, CountTypes, OutboxAssumption
<1>20. ASSUME NEW s \in Sessions, QueueCommand(s) PROVE CountTypes'
  BY <1>20 DEF QueueCommand, Types, CountTypes
<1>21. ASSUME ChooseRecord PROVE CountTypes'
  BY <1>21 DEF ChooseRecord, Types, CountTypes
<1>22. ASSUME RereadOwner PROVE CountTypes'
  BY <1>22 DEF RereadOwner, Types, CountTypes
<1>23. ASSUME QueueWechat PROVE CountTypes'
  <2>1. requeued' \in BOOLEAN
    BY Zenon, <1>23 DEF QueueWechat, Types, CountTypes
  <2>2. /\ UNCHANGED <<injected, lost, slow, raced, moves, refusals>>
        /\ failures' \in 0 .. MaxFailures
    BY OutboxAssumption, <1>23 DEF QueueWechat, Types, CountTypes, OutboxAssumption
  <2> QED BY Zenon, <2>1, <2>2 DEF Types, CountTypes
<1>24. ASSUME SettleRecord PROVE CountTypes'
  BY OutboxAssumption, <1>24 DEF SettleRecord, Types, CountTypes, OutboxAssumption
<1>25. ASSUME RejectRecord PROVE CountTypes'
  BY OutboxAssumption, <1>25 DEF RejectRecord, Types, CountTypes, OutboxAssumption
<1>26. ASSUME OwnerMoves PROVE CountTypes'
  BY OutboxAssumption, <1>26 DEF OwnerMoves, Types, CountTypes, OutboxAssumption
<1>27. ASSUME ItemGrowsOld PROVE CountTypes'
  BY <1>27 DEF ItemGrowsOld, Types, CountTypes
<1>28. ASSUME ClaimGrowsStale PROVE CountTypes'
  BY OutboxAssumption, <1>28 DEF ClaimGrowsStale, Types, CountTypes, OutboxAssumption
<1>29. CASE UNCHANGED outboxVars
  BY <1>29 DEF outboxVars, Types, CountTypes
<1> QED BY <1>1, <1>2, <1>3, <1>4, <1>5, <1>6, <1>7, <1>8, <1>9, <1>10, <1>11, <1>12, <1>13,
      <1>14, <1>15, <1>16, <1>17, <1>18, <1>19, <1>20, <1>21, <1>22, <1>23, <1>24, <1>25, <1>26,
      <1>27, <1>28, <1>29, Members DEF OutboxNext, MarkStep, SendStep, ClaimStep, ConfirmStep,
      ReleaseStep, TickStep, BridgeStep, InputStep


\* And what relates a call to the files.
LEMMA CallInvStep ==
  ASSUME Types, CallInv, [OutboxNext]_outboxVars
  PROVE  CallInv'
<1> USE Members DEF Types, FileTypes, CallTypes, CallInv, Items, Claims, Final, Labels
<1>1. ASSUME NEW p \in Processes, ReadItem(p) PROVE CallInv'
  BY <1>1 DEF ReadItem
<1>2. ASSUME NEW p \in Processes, WriteItem(p) PROVE CallInv'
  BY <1>2 DEF WriteItem
<1>3. ASSUME NEW p \in Processes, Crash(p) PROVE CallInv'
  BY <1>3 DEF Crash
<1>4. ASSUME NEW s \in Sessions, BeginTick(s) PROVE CallInv'
  BY <1>4 DEF BeginTick
<1>5. ASSUME NEW s \in Sessions, EndSweep(s) PROVE CallInv'
  BY <1>5 DEF EndSweep
<1>6. ASSUME NEW s \in Sessions, Look(s) PROVE CallInv'
  BY <1>6 DEF Look, Replay, NotWon, ClaimCall
<1>7. ASSUME NEW s \in Sessions, CreateClaim(s) PROVE CallInv'
  BY <1>7 DEF CreateClaim, Race, Skip, ClaimCall
<1>8. ASSUME NEW s \in Sessions, FillClaim(s) PROVE CallInv'
  BY <1>8 DEF FillClaim, Skip, ClaimCall
<1>9. ASSUME NEW s \in Sessions, Judge(s) PROVE CallInv'
  BY <1>9 DEF Judge, Retry, Replay, Skip, NotWon, ClaimCall
<1>10. ASSUME NEW s \in Sessions, UnlinkStale(s) PROVE CallInv'
  BY <1>10 DEF UnlinkStale, Race, Retry, Skip, ClaimCall
<1>11. ASSUME NEW s \in Sessions, Confirm(s) PROVE CallInv'
  BY <1>11 DEF Confirm, Mine, NotWon, ClaimCall
<1>12. ASSUME NEW s \in Sessions, CreateReceipt(s) PROVE CallInv'
  BY <1>12 DEF CreateReceipt, NotConfirmed, ClaimCall
<1>13. ASSUME NEW s \in Sessions, FillReceipt(s) PROVE CallInv'
  BY <1>13 DEF FillReceipt, NotConfirmed, ClaimCall
<1>14. ASSUME NEW s \in Sessions, ClearClaim(s) PROVE CallInv'
  BY <1>14 DEF ClearClaim, RemoveClaim, ClaimCall
<1>15. ASSUME NEW s \in Sessions, Release(s) PROVE CallInv'
  BY <1>15 DEF Release, Mine, NotWon, ClaimCall
<1>16. ASSUME NEW s \in Sessions, DropClaim(s) PROVE CallInv'
  BY <1>16 DEF DropClaim, RemoveClaim, ClaimCall
<1>17. ASSUME NEW s \in Sessions, SendLands(s) PROVE CallInv'
  BY <1>17 DEF SendLands
<1>18. ASSUME NEW s \in Sessions, SendBusy(s) PROVE CallInv'
  BY <1>18 DEF SendBusy
<1>19. ASSUME NEW s \in Sessions, SendFails(s) PROVE CallInv'
  BY <1>19 DEF SendFails
<1>20. ASSUME NEW s \in Sessions, QueueCommand(s) PROVE CallInv'
  BY <1>20 DEF QueueCommand
<1>21. ASSUME ChooseRecord PROVE CallInv'
  BY <1>21 DEF ChooseRecord
<1>22. ASSUME RereadOwner PROVE CallInv'
  BY <1>22 DEF RereadOwner
<1>23. ASSUME QueueWechat PROVE CallInv'
  BY <1>23 DEF QueueWechat, Owners
<1>24. ASSUME SettleRecord PROVE CallInv'
  BY <1>24 DEF SettleRecord
<1>25. ASSUME RejectRecord PROVE CallInv'
  BY <1>25 DEF RejectRecord
<1>26. ASSUME OwnerMoves PROVE CallInv'
  BY <1>26 DEF OwnerMoves, Owners, CountTypes
<1>27. ASSUME ItemGrowsOld PROVE CallInv'
  BY <1>27 DEF ItemGrowsOld
<1>28. ASSUME ClaimGrowsStale PROVE CallInv'
  BY <1>28 DEF ClaimGrowsStale
<1>29. CASE UNCHANGED outboxVars
  BY <1>29 DEF outboxVars
<1> QED BY <1>1, <1>2, <1>3, <1>4, <1>5, <1>6, <1>7, <1>8, <1>9, <1>10, <1>11, <1>12, <1>13,
      <1>14, <1>15, <1>16, <1>17, <1>18, <1>19, <1>20, <1>21, <1>22, <1>23, <1>24, <1>25, <1>26,
      <1>27, <1>28, <1>29 DEF OutboxNext, MarkStep, SendStep, ClaimStep, ConfirmStep,
      ReleaseStep, TickStep, BridgeStep, InputStep


\* Every run keeps them.
LEMMA OutboxTypes == OutboxSpec => [](Types /\ CallInv)
<1>1. ASSUME OutboxInit PROVE Types /\ CallInv
  <2> USE OutboxAssumption, Members, <1>1 DEF OutboxInit, OutboxAssumption
  <2>1. item \in Items /\ claim \in Claims
    BY DEF Items, Claims
  <2>2. owner \in Owners /\ owner.generation = 1
    BY DEF Owners
  <2>3. FileTypes
    BY <2>1, <2>2 DEF FileTypes
  <2>4. CallTypes
    BY DEF CallTypes, Labels, Final
  <2>5. CountTypes
    <3>1. requeued \in BOOLEAN
      BY Zenon DEF OutboxInit
    <3> QED BY <3>1 DEF CountTypes
  <2> QED BY <2>2, <2>3, <2>4, <2>5 DEF Types, CallInv
<1>2. (Types /\ CallInv) /\ [OutboxNext]_outboxVars => (Types /\ CallInv)'
  BY FileStep, CallStep, CountStep, CallInvStep DEF Types
<1> QED BY <1>1, <1>2, PTL DEF OutboxSpec

-----------------------------------------------------------------------------
(* The sends that are open *)

\* A send is open from the create of its claim until its answer is dealt with: <<s, 0>>
\* while the claim is not filled yet or is being given back, <<s, n>> for the n-th send
\* in flight.
Opening == {"fill", "release", "drop"}
Open == {x \in Sessions \X Nat : IF x[2] = 0 THEN pc[x[1]] \in Opening
                                             ELSE x[2] <= flying[x[1]]}

\* How often the message reached a conversation, or may by an open send.
Sent == injected + Cardinality(Open)

OpenInv == IsFiniteSet(Open)

\* The open sends are finitely many, and the counts are numbers.
LEMMA Sizes ==
  ASSUME Types, OpenInv
  PROVE  /\ Cardinality(Open) \in Nat /\ Sent \in Nat /\ Excuses \in Nat
         /\ injected <= Sent
<1>1. Cardinality(Open) \in Nat
  BY FS_CardinalityType DEF OpenInv
<1> QED BY <1>1, OutboxAssumption DEF OutboxAssumption, Sent, Excuses, Types, CountTypes

\* What a step does to the open sends: nothing, ...
LEMMA OpenStays ==
  ASSUME Types, OpenInv, flying' = flying,
         \A t \in Sessions : pc'[t] \in Opening <=> pc[t] \in Opening
  PROVE  Open' = Open /\ OpenInv'
<1>1. Open' = Open
  BY DEF Open
<1> QED BY <1>1 DEF OpenInv

\* ... one is opened with its claim, ...
LEMMA OpenBegins ==
  ASSUME Types, OpenInv, NEW s \in Sessions, flying' = flying,
         pc[s] = "create", pc' = [pc EXCEPT ![s] = "fill"]
  PROVE  OpenInv' /\ Cardinality(Open') = Cardinality(Open) + 1
<1>1. Open' = Open \cup {<<s, 0>>} /\ <<s, 0>> \notin Open
  BY Members DEF Open, Opening, Types, CallTypes
<1> QED BY <1>1, FS_AddElement DEF OpenInv

\* ... or closed, when the claim could not be filled or is given back, ...
LEMMA OpenEnds ==
  ASSUME Types, OpenInv, NEW s \in Sessions, flying' = flying,
         pc[s] \in Opening, pc' = [pc EXCEPT ![s] = "idle"]
  PROVE  OpenInv' /\ Cardinality(Open') = Cardinality(Open) - 1
<1>1. Open' = Open \ {<<s, 0>>} /\ <<s, 0>> \in Open
  BY Members DEF Open, Opening, Types, CallTypes
<1> QED BY <1>1, FS_RemoveElement DEF OpenInv

\* ... goes out, ...
LEMMA OpenFlies ==
  ASSUME Types, OpenInv, NEW s \in Sessions, pc[s] = "fill", pc' = [pc EXCEPT ![s] = "idle"],
         flying' = [flying EXCEPT ![s] = @ + 1]
  PROVE  OpenInv' /\ Cardinality(Open') = Cardinality(Open)
<1> DEFINE rest == Open \ {<<s, 0>>}
<1>1. <<s, 0>> \in Open
  BY Members DEF Open, Opening
<1>2. IsFiniteSet(rest) /\ Cardinality(rest) = Cardinality(Open) - 1
  BY <1>1, FS_RemoveElement DEF OpenInv
<1>3. Open' = rest \cup {<<s, flying[s] + 1>>} /\ <<s, flying[s] + 1>> \notin rest
  BY Members DEF Open, Opening, Types, CallTypes
<1>4. IsFiniteSet(Open') /\ Cardinality(Open') = Cardinality(rest) + 1
  BY <1>2, <1>3, FS_AddElement
<1>5. Cardinality(Open) \in Nat
  BY Sizes
<1> QED BY <1>2, <1>4, <1>5 DEF OpenInv

\* ... is answered, ...
LEMMA OpenAnswered ==
  ASSUME Types, OpenInv, NEW s \in Sessions, NEW label \in Labels \ Opening,
         pc[s] = "idle", pc' = [pc EXCEPT ![s] = label],
         flying[s] > 0, flying' = [flying EXCEPT ![s] = @ - 1]
  PROVE  OpenInv' /\ Cardinality(Open') = Cardinality(Open) - 1
<1>1. Open' = Open \ {<<s, flying[s]>>} /\ <<s, flying[s]>> \in Open
  BY Members DEF Open, Opening, Types, CallTypes
<1> QED BY <1>1, FS_RemoveElement DEF OpenInv

\* ... is refused, and its claim is to be given back, ...
LEMMA OpenRefused ==
  ASSUME Types, OpenInv, NEW s \in Sessions,
         pc[s] = "idle", pc' = [pc EXCEPT ![s] = "release"],
         flying[s] > 0, flying' = [flying EXCEPT ![s] = @ - 1]
  PROVE  OpenInv' /\ Cardinality(Open') = Cardinality(Open)
<1> DEFINE rest == Open \ {<<s, flying[s]>>}
<1>1. <<s, flying[s]>> \in Open
  BY DEF Open, Types, CallTypes
<1>2. IsFiniteSet(rest) /\ Cardinality(rest) = Cardinality(Open) - 1
  BY <1>1, FS_RemoveElement DEF OpenInv
<1>3. Open' = rest \cup {<<s, 0>>} /\ <<s, 0>> \notin rest
  BY Members DEF Open, Opening, Types, CallTypes
<1>4. IsFiniteSet(Open') /\ Cardinality(Open') = Cardinality(rest) + 1
  BY <1>2, <1>3, FS_AddElement
<1>5. Cardinality(Open) \in Nat
  BY Sizes
<1> QED BY <1>2, <1>4, <1>5 DEF OpenInv

\* ... or is lost with its process.
LEMMA OpenLost ==
  ASSUME Types, OpenInv, NEW p \in Processes, NEW label \in {"idle", "readItem"},
         flying' = [s \in Sessions |-> IF s = p THEN 0 ELSE flying[s]],
         pc' = [pc EXCEPT ![p] = label]
  PROVE  /\ OpenInv' /\ Cardinality(Open') \in Nat /\ Cardinality(Open') <= Cardinality(Open)
         /\ p \in Sessions /\ (flying[p] > 0 \/ pc[p] \in Opening) =>
              Cardinality(Open') < Cardinality(Open)
<1>1. Open' \subseteq Open
  BY Members DEF Open, Opening, Types, CallTypes
<1>2. /\ IsFiniteSet(Open') /\ Cardinality(Open') <= Cardinality(Open)
      /\ Cardinality(Open) = Cardinality(Open') => Open' = Open
  BY <1>1, FS_Subset DEF OpenInv
<1>3. ASSUME p \in Sessions, flying[p] > 0 PROVE Open' # Open
  <2>1. <<p, 1>> \in Open /\ <<p, 1>> \notin Open'
    BY <1>3 DEF Open, Types, CallTypes
  <2> QED BY <2>1
<1>4. ASSUME p \in Sessions, pc[p] \in Opening PROVE Open' # Open
  <2>1. <<p, 0>> \in Open /\ <<p, 0>> \notin Open'
    BY <1>4 DEF Open, Opening, Types, CallTypes
  <2> QED BY <2>1
<1>5. Cardinality(Open) \in Nat /\ Cardinality(Open') \in Nat
  BY <1>2, FS_CardinalityType DEF OpenInv
<1> QED BY <1>2, <1>3, <1>4, <1>5 DEF OpenInv

-----------------------------------------------------------------------------
(* How often the message arrives *)

Hunting == {"look", "create", "judge", "unlink"}
Pursuing == Opening \cup {"confirm", "record", "fillReceipt"}

\* The claim is that of an open send, or of an arrival whose receipt is to be written.
Pursued ==
  \/ claim.state = "torn" /\ pc[claim.by] = "fill"
  \/ /\ claim.state = "fresh"
     /\ flying[claim.by] > 0 \/ pc[claim.by] \in Pursuing \ {"fill"}

\* One send is allowed, and one more for every excuse.  When all of them are used up
\* and there is no receipt, the claim is held for one of them.
SentInv ==
  /\ Sent <= 1 + Excuses
  /\ receipt # "written" /\ Sent = 1 + Excuses => Pursued

\* The item says that the send failed, or a call is about to write it ...
Doomed == item.status = "failed" \/ \E p \in Processes : verdict[p] = "failed"

\* ... or it says so, and nobody is about to claim or to write it.
Settled ==
  /\ item.status = "failed"
  /\ \A p \in Processes : pc[p] \notin Hunting /\ verdict[p] # "failed"

\* A failed send leaves the allowance one short.  Another send can only use it up when
\* the claim of the failed one is gone or stale, and then only once the item is
\* pending again.
DoomedInv ==
  Doomed =>
    /\ Sent <= Excuses
    /\ receipt # "written" /\ Sent = Excuses => claim.state \in {"torn", "fresh"} \/ Settled

AccountInv == OpenInv /\ SentInv /\ DoomedInv
\* Only a failed send dooms the item, and what is settled stays so.
LEMMA DoomKept ==
  ASSUME Types, CallInv, [OutboxNext]_outboxVars, ~\E s \in Sessions : SendFails(s)
  PROVE  /\ Doomed' => Doomed
         /\ Settled /\ Doomed' => Settled'
<1> DEFINE Kept == (Doomed' => Doomed) /\ (Settled /\ Doomed' => Settled')
<1> USE Members DEF Types, FileTypes, CallTypes, Items, Final, Labels, CallInv, Doomed, Settled,
      Hunting
<1>1. ASSUME NEW p \in Processes, ReadItem(p) PROVE Kept
  BY <1>1 DEF ReadItem
<1>2. ASSUME NEW p \in Processes, WriteItem(p) PROVE Kept
  BY <1>2 DEF WriteItem
<1>3. ASSUME NEW p \in Processes, Crash(p) PROVE Kept
  BY <1>3 DEF Crash
<1>4. ASSUME NEW s \in Sessions, BeginTick(s) PROVE Kept
  BY <1>4 DEF BeginTick
<1>5. ASSUME NEW s \in Sessions, EndSweep(s) PROVE Kept
  BY <1>5 DEF EndSweep
<1>6. ASSUME NEW s \in Sessions, Look(s) PROVE Kept
  BY <1>6 DEF Look, Replay, NotWon, ClaimCall
<1>7. ASSUME NEW s \in Sessions, CreateClaim(s) PROVE Kept
  BY <1>7 DEF CreateClaim, Race, Skip, ClaimCall
<1>8. ASSUME NEW s \in Sessions, FillClaim(s) PROVE Kept
  BY <1>8 DEF FillClaim, Skip, ClaimCall
<1>9. ASSUME NEW s \in Sessions, Judge(s) PROVE Kept
  BY <1>9 DEF Judge, Retry, Replay, Skip, NotWon, ClaimCall
<1>10. ASSUME NEW s \in Sessions, UnlinkStale(s) PROVE Kept
  BY <1>10 DEF UnlinkStale, Race, Retry, Skip, ClaimCall
<1>11. ASSUME NEW s \in Sessions, Confirm(s) PROVE Kept
  BY <1>11 DEF Confirm, Mine, NotWon, ClaimCall
<1>12. ASSUME NEW s \in Sessions, CreateReceipt(s) PROVE Kept
  BY <1>12 DEF CreateReceipt, NotConfirmed, ClaimCall
<1>13. ASSUME NEW s \in Sessions, FillReceipt(s) PROVE Kept
  BY <1>13 DEF FillReceipt, NotConfirmed, ClaimCall
<1>14. ASSUME NEW s \in Sessions, ClearClaim(s) PROVE Kept
  BY <1>14 DEF ClearClaim, RemoveClaim, ClaimCall
<1>15. ASSUME NEW s \in Sessions, Release(s) PROVE Kept
  BY <1>15 DEF Release, Mine, NotWon, ClaimCall
<1>16. ASSUME NEW s \in Sessions, DropClaim(s) PROVE Kept
  BY <1>16 DEF DropClaim, RemoveClaim, ClaimCall
<1>17. ASSUME NEW s \in Sessions, SendLands(s) PROVE Kept
  BY <1>17 DEF SendLands
<1>18. ASSUME NEW s \in Sessions, SendBusy(s) PROVE Kept
  BY <1>18 DEF SendBusy
<1>19. ASSUME NEW s \in Sessions, SendFails(s) PROVE Kept
  BY <1>19
<1>20. ASSUME NEW s \in Sessions, QueueCommand(s) PROVE Kept
  BY <1>20 DEF QueueCommand
<1>21. ASSUME ChooseRecord PROVE Kept
  BY <1>21 DEF ChooseRecord
<1>22. ASSUME RereadOwner PROVE Kept
  BY <1>22 DEF RereadOwner
<1>23. ASSUME QueueWechat PROVE Kept
  BY <1>23 DEF QueueWechat
<1>24. ASSUME SettleRecord PROVE Kept
  BY <1>24 DEF SettleRecord
<1>25. ASSUME RejectRecord PROVE Kept
  BY <1>25 DEF RejectRecord
<1>26. ASSUME OwnerMoves PROVE Kept
  BY <1>26 DEF OwnerMoves
<1>27. ASSUME ItemGrowsOld PROVE Kept
  BY <1>27 DEF ItemGrowsOld
<1>28. ASSUME ClaimGrowsStale PROVE Kept
  BY <1>28 DEF ClaimGrowsStale
<1>29. CASE UNCHANGED outboxVars
  BY <1>29 DEF outboxVars
<1> QED BY <1>1, <1>2, <1>3, <1>4, <1>5, <1>6, <1>7, <1>8, <1>9, <1>10, <1>11, <1>12, <1>13,
      <1>14, <1>15, <1>16, <1>17, <1>18, <1>19, <1>20, <1>21, <1>22, <1>23, <1>24, <1>25, <1>26,
      <1>27, <1>28, <1>29 DEF OutboxNext, MarkStep, SendStep, ClaimStep, ConfirmStep,
      ReleaseStep, TickStep, BridgeStep, InputStep

\* A step that neither claims nor sends, gives back nor confirms.
Quiet ==
  /\ UNCHANGED <<flying, injected, lost, slow, raced, claim, receipt>>
  /\ \A t \in Sessions : pc'[t] = pc[t] \/ {pc[t], pc'[t]} \cap Pursuing = {}

\* Such a step keeps the account.
LEMMA QuietKeeps ==
  ASSUME Types, CallInv, AccountInv, Quiet, Doomed' => Doomed, Settled /\ Doomed' => Settled'
  PROVE  AccountInv'
<1>1. Open' = Open /\ OpenInv'
  BY OpenStays DEF Quiet, Pursuing, Opening, AccountInv
<1>2. Sent' = Sent /\ Excuses' = Excuses
  BY <1>1 DEF Quiet, Sent, Excuses
<1>3. claim.by \in Sessions \/ claim.state = "none"
  BY DEF Types, FileTypes, Claims
<1>4. Pursued => Pursued'
  BY <1>3 DEF Quiet, Pursued, Pursuing, Opening
<1>5. SentInv'
  BY <1>2, <1>4 DEF Quiet, AccountInv, SentInv
<1>6. DoomedInv'
  BY <1>2 DEF Quiet, AccountInv, DoomedInv
<1> QED BY <1>1, <1>5, <1>6 DEF AccountInv

\* A send that fails leaves its claim; the allowance has one more send.
LEMMA FailKeeps ==
  ASSUME Types, AccountInv, NEW s \in Sessions, SendFails(s)
  PROVE  AccountInv'
<1>1. /\ UNCHANGED <<injected, lost, slow, raced, claim, receipt>>
      /\ pc[s] = "idle" /\ pc' = [pc EXCEPT ![s] = "readItem"]
      /\ flying[s] > 0 /\ flying' = [flying EXCEPT ![s] = @ - 1]
  BY DEF SendFails
<1>2. OpenInv' /\ Cardinality(Open') = Cardinality(Open) - 1
  BY <1>1, OpenAnswered DEF AccountInv, Labels, Opening
<1>3. Sent' = Sent - 1 /\ Excuses' = Excuses
  BY <1>1, <1>2, Sizes DEF AccountInv, Sent, Excuses, Types, CountTypes
<1>4. Pursued => claim.state \in {"torn", "fresh"}
  BY DEF Pursued
<1> QED BY <1>1, <1>2, <1>3, <1>4, Sizes DEF AccountInv, SentInv, DoomedInv

\* Every step keeps the account.
LEMMA AccountStep ==
  ASSUME Types, CallInv, AccountInv, [OutboxNext]_outboxVars
  PROVE  AccountInv'
<1>s. CASE \E s \in Sessions : SendFails(s)
  BY <1>s, FailKeeps
<1>n. SUFFICES ASSUME ~\E s \in Sessions : SendFails(s) PROVE AccountInv'
  BY <1>s
<1>0. (Doomed' => Doomed) /\ (Settled /\ Doomed' => Settled')
  BY <1>n, DoomKept
<1>1. ASSUME NEW p \in Processes, ReadItem(p) PROVE AccountInv'
  <2>1. Quiet
    BY Members, <1>1
    DEF ReadItem, Quiet, Pursuing, Opening, Types, CallTypes
  <2> QED BY <2>1, <1>0, QuietKeeps
<1>2. ASSUME NEW p \in Processes, WriteItem(p) PROVE AccountInv'
  <2>1. Quiet
    BY Members, <1>2
    DEF WriteItem, Quiet, Pursuing, Opening, Types, CallTypes
  <2> QED BY <2>1, <1>0, QuietKeeps
<1>3. ASSUME NEW p \in Processes, Crash(p) PROVE AccountInv'
  <2> DEFINE label == IF p = Host /\ Overdue THEN "readItem" ELSE "idle"
  <2>1. /\ UNCHANGED <<injected, slow, raced, claim, receipt>>
        /\ flying' = [s \in Sessions |-> IF s = p THEN 0 ELSE flying[s]]
        /\ pc' = [pc EXCEPT ![p] = label]
        /\ lost' = IF pc[p] \in {"confirm", "record", "fillReceipt"} THEN lost + 1 ELSE lost
    BY <1>3 DEF Crash
  <2>2. label \in {"idle", "readItem"}
    OBVIOUS
  <2> HIDE DEF label
  <2>3. /\ OpenInv' /\ Cardinality(Open') \in Nat /\ Cardinality(Open') <= Cardinality(Open)
        /\ p \in Sessions /\ (flying[p] > 0 \/ pc[p] \in Opening) =>
             Cardinality(Open') < Cardinality(Open)
    BY <2>1, <2>2, OpenLost DEF AccountInv
  <2>4. /\ Sent' \in Nat /\ Sent' <= Sent
        /\ p \in Sessions /\ (flying[p] > 0 \/ pc[p] \in Opening) => Sent' < Sent
    BY <2>1, <2>3, Sizes DEF AccountInv, Sent, Types, CountTypes
  <2>5. Excuses' = IF pc[p] \in {"confirm", "record", "fillReceipt"}
                   THEN Excuses + 1 ELSE Excuses
    BY <2>1, OutboxAssumption DEF OutboxAssumption, Excuses, Types, CountTypes
  <2>6. claim.by \in Sessions \/ claim.state = "none"
    BY DEF Types, FileTypes, Claims
  <2>7. CASE p = claim.by
    <3>1. Pursued => Sent' < Sent \/ Excuses' = Excuses + 1
      BY <2>4, <2>5, <2>6, <2>7 DEF Pursued, Pursuing, Opening
    <3> QED BY <1>0, <2>1, <2>3, <2>4, <2>5, <3>1, Sizes DEF AccountInv, SentInv, DoomedInv
  <2>8. CASE p # claim.by
    <3>1. Pursued => Pursued'
      BY Members, <2>1, <2>6, <2>8 DEF Pursued, Types, CallTypes
    <3> QED BY <1>0, <2>1, <2>3, <2>4, <2>5, <3>1, Sizes DEF AccountInv, SentInv, DoomedInv
  <2> QED BY <2>7, <2>8
<1>4. ASSUME NEW s \in Sessions, BeginTick(s) PROVE AccountInv'
  <2>1. Quiet
    BY Members, <1>4
    DEF BeginTick, Quiet, Pursuing, Opening, Types, CallTypes
  <2> QED BY <2>1, <1>0, QuietKeeps
<1>5. ASSUME NEW s \in Sessions, EndSweep(s) PROVE AccountInv'
  <2>1. Quiet
    BY Members, <1>5
    DEF EndSweep, Quiet, Pursuing, Opening, Types, CallTypes
  <2> QED BY <2>1, <1>0, QuietKeeps
<1>6. ASSUME NEW s \in Sessions, Look(s) PROVE AccountInv'
  <2>1. Quiet
    BY Members, <1>6
    DEF Look, Replay, NotWon, ClaimCall, Quiet, Pursuing, Opening, Types, CallTypes
  <2> QED BY <2>1, <1>0, QuietKeeps
<1>7. ASSUME NEW s \in Sessions, CreateClaim(s) PROVE AccountInv'
  <2>1. CASE claim' = claim
    <3>1. Quiet
      BY Members, <1>7, <2>1 DEF CreateClaim, Race, Skip, Retry, ClaimCall, Quiet, Pursuing,
        Opening, Types, FileTypes, CallTypes, Claims
    <3> QED BY <3>1, <1>0, QuietKeeps
  <2>2. CASE claim' # claim
    <3>1. /\ claim = NoClaim /\ claim' = [by |-> s, state |-> "torn"]
          /\ pc[s] = "create" /\ pc' = [pc EXCEPT ![s] = "fill"]
          /\ UNCHANGED <<injected, lost, slow, receipt, flying>>
          /\ raced' = IF receipt = "written" THEN raced + 1 ELSE raced
      BY <1>7, <2>2 DEF CreateClaim, Race, Skip
    <3>2. OpenInv' /\ Cardinality(Open') = Cardinality(Open) + 1
      BY <3>1, OpenBegins DEF AccountInv
    <3>3. /\ Sent' = Sent + 1
          /\ Excuses' = IF receipt = "written" THEN Excuses + 1 ELSE Excuses
      BY <3>1, <3>2, Sizes, OutboxAssumption
      DEF AccountInv, OutboxAssumption, Sent, Excuses, Types, CountTypes
    <3>4. Pursued'
      BY Members, <3>1 DEF Pursued, Types, CallTypes
    <3>5. ~Pursued
      BY <3>1 DEF Pursued
    <3>6. SentInv'
      BY <3>1, <3>3, <3>4, <3>5, Sizes DEF AccountInv, SentInv
    <3>7. ~Settled
      BY Members, <3>1 DEF Settled, Hunting
    <3>8. DoomedInv'
      BY <1>0, <3>1, <3>3, <3>7, Sizes DEF AccountInv, DoomedInv
    <3> QED BY <3>2, <3>6, <3>8 DEF AccountInv
  <2> QED BY <2>1, <2>2
<1>8. ASSUME NEW s \in Sessions, FillClaim(s) PROVE AccountInv'
  <2>1. /\ UNCHANGED <<injected, lost, slow, raced, receipt>>
        /\ pc[s] = "fill" /\ pc' = [pc EXCEPT ![s] = "idle"]
    BY <1>8 DEF FillClaim, Skip, ClaimCall
  <2>2. Excuses' = Excuses
    BY <2>1 DEF Excuses
  <2>3. CASE flying' = flying
    <3>1. claim' = claim
      BY <1>8, <2>3 DEF FillClaim, Types, CallTypes
    <3>2. OpenInv' /\ Cardinality(Open') = Cardinality(Open) - 1
      BY <2>1, <2>3, OpenEnds DEF AccountInv, Opening
    <3>3. Sent' = Sent - 1
      BY <2>1, <3>2, Sizes DEF AccountInv, Sent, Types, CountTypes
    <3> QED BY <1>0, <2>1, <2>2, <3>1, <3>2, <3>3, Sizes DEF AccountInv, SentInv, DoomedInv
  <2>4. CASE flying' # flying
    <3>1. /\ flying' = [flying EXCEPT ![s] = @ + 1]
          /\ claim' = IF claim = [by |-> s, state |-> "torn"]
                      THEN [claim EXCEPT !.state = "fresh"] ELSE claim
      BY <1>8, <2>4 DEF FillClaim
    <3>2. OpenInv' /\ Cardinality(Open') = Cardinality(Open)
      BY <2>1, <3>1, OpenFlies DEF AccountInv
    <3>3. Sent' = Sent
      BY <2>1, <3>2 DEF Sent
    <3>4. Pursued => Pursued'
      <4>1. claim.by \in Sessions \/ claim.state = "none"
        BY DEF Types, FileTypes, Claims
      <4>2. CASE claim = [by |-> s, state |-> "torn"]
        BY Members, <2>1, <3>1, <4>2 DEF Pursued, Types, CallTypes
      <4>3. CASE claim # [by |-> s, state |-> "torn"]
        BY Members, <2>1, <3>1, <4>1, <4>3
        DEF Pursued, Pursuing, Opening, Types, CallTypes, FileTypes, Claims
      <4> QED BY <4>2, <4>3
    <3>5. claim.state \in {"torn", "fresh"} => claim'.state \in {"torn", "fresh"}
      BY <3>1
    <3> QED BY <1>0, <2>1, <2>2, <3>2, <3>3, <3>4, <3>5 DEF AccountInv, SentInv, DoomedInv
  <2> QED BY <2>3, <2>4
<1>9. ASSUME NEW s \in Sessions, Judge(s) PROVE AccountInv'
  <2>1. Quiet
    BY Members, <1>9
    DEF Judge, Retry, Replay, Skip, NotWon, ClaimCall, Quiet, Pursuing, Opening, Types, CallTypes
  <2> QED BY <2>1, <1>0, QuietKeeps
<1>10. ASSUME NEW s \in Sessions, UnlinkStale(s) PROVE AccountInv'
  <2>1. CASE claim' = claim
    <3>1. Quiet
      BY Members, <1>10, <2>1 DEF UnlinkStale, Race, Retry, Skip, ClaimCall, Quiet,
        Pursuing, Opening, Types, CallTypes
    <3> QED BY <3>1, <1>0, QuietKeeps
  <2>2. CASE claim' # claim
    <3>1. /\ pc[s] = "unlink" /\ claim' = NoClaim
          /\ UNCHANGED <<injected, lost, slow, receipt, flying>>
          /\ raced' = IF claim.state \in {"torn", "fresh"} THEN raced + 1 ELSE raced
          /\ \A t \in Sessions : pc'[t] = pc[t] \/ {pc[t], pc'[t]} \cap Opening = {}
      BY Members, <1>10, <2>2 DEF UnlinkStale, Race, Retry, Skip, ClaimCall, Opening, Types,
        CallTypes
    <3>2. Open' = Open /\ OpenInv'
      BY <3>1, OpenStays DEF AccountInv
    <3>3. /\ Sent' = Sent
          /\ Excuses' = IF claim.state \in {"torn", "fresh"} THEN Excuses + 1 ELSE Excuses
      BY <3>1, <3>2, OutboxAssumption
      DEF OutboxAssumption, Sent, Excuses, Types, CountTypes
    <3>4. claim.state \notin {"torn", "fresh"} => ~Pursued
      BY DEF Pursued
    <3>5. SentInv'
      BY <3>1, <3>3, <3>4, Sizes DEF AccountInv, SentInv
    <3>6. ~Settled
      BY Members, <3>1 DEF Settled, Hunting
    <3>7. DoomedInv'
      BY <1>0, <3>1, <3>3, <3>6, Sizes DEF AccountInv, DoomedInv
    <3> QED BY <3>2, <3>5, <3>7 DEF AccountInv
  <2> QED BY <2>1, <2>2
<1>11. ASSUME NEW s \in Sessions, Confirm(s) PROVE AccountInv'
  <2>1. /\ UNCHANGED <<flying, injected, lost, slow, raced, claim, receipt>>
        /\ pc[s] = "confirm" /\ pc' = [pc EXCEPT ![s] = IF Mine(s) THEN "record" ELSE "idle"]
    BY <1>11 DEF Confirm, ClaimCall, NotWon
  <2>2. \A t \in Sessions : pc'[t] \in Opening <=> pc[t] \in Opening
    BY Members, <2>1 DEF Opening, Types, CallTypes
  <2>3. Open' = Open /\ OpenInv'
    BY <2>1, <2>2, OpenStays DEF AccountInv
  <2>4. Sent' = Sent /\ Excuses' = Excuses
    BY <2>1, <2>3 DEF Sent, Excuses
  <2>5. claim.by \in Sessions \/ claim.state = "none"
    BY DEF Types, FileTypes, Claims
  <2>6. Pursued => Pursued'
    BY Members, <2>1, <2>5 DEF Mine, Pursued, Pursuing, Opening, Types, CallTypes
  <2> QED BY <1>0, <2>1, <2>3, <2>4, <2>6 DEF AccountInv, SentInv, DoomedInv
<1>12. ASSUME NEW s \in Sessions, CreateReceipt(s) PROVE AccountInv'
  <2>1. /\ UNCHANGED <<flying, injected, slow, raced, claim>> /\ pc[s] = "record"
        /\ \/ lost' = lost + 1 /\ pc' = [pc EXCEPT ![s] = "idle"]
           \/ lost' = lost /\ receipt' = "torn" /\ pc' = [pc EXCEPT ![s] = "fillReceipt"]
           \/ lost' = lost /\ receipt' = "written" /\ pc' = [pc EXCEPT ![s] = "idle"]
        /\ receipt = "written" => receipt' = "written"
    BY <1>12 DEF CreateReceipt, NotConfirmed, ClaimCall
  <2>2. \A t \in Sessions : pc'[t] \in Opening <=> pc[t] \in Opening
    BY Members, <2>1 DEF Opening, Types, CallTypes
  <2>3. Open' = Open /\ OpenInv'
    BY <2>1, <2>2, OpenStays DEF AccountInv
  <2>4. Sent' = Sent /\ Excuses' = IF lost' = lost THEN Excuses ELSE Excuses + 1
    BY <2>1, <2>3, OutboxAssumption DEF OutboxAssumption, Sent, Excuses, Types, CountTypes
  <2>5. claim.by \in Sessions \/ claim.state = "none"
    BY DEF Types, FileTypes, Claims
  <2>6. receipt' = "torn" /\ lost' = lost /\ Pursued => Pursued'
    BY Members, <2>1, <2>5 DEF Pursued, Pursuing, Opening, Types, CallTypes, CountTypes
  <2>7. SentInv'
    BY <2>1, <2>4, <2>6, Sizes DEF AccountInv, SentInv, Types, CountTypes
  <2>8. DoomedInv'
    BY <1>0, <2>1, <2>4, Sizes DEF AccountInv, DoomedInv
  <2> QED BY <2>3, <2>7, <2>8 DEF AccountInv
<1>13. ASSUME NEW s \in Sessions, FillReceipt(s) PROVE AccountInv'
  <2>1. /\ UNCHANGED <<flying, injected, slow, raced, claim>> /\ pc[s] = "fillReceipt"
        /\ \/ lost' = lost /\ receipt' = "written" /\ pc' = [pc EXCEPT ![s] = "clear"]
           \/ lost' = lost + 1 /\ pc' = [pc EXCEPT ![s] = "idle"]
        /\ receipt = "written" => receipt' = "written"
    BY <1>13 DEF FillReceipt, NotConfirmed, ClaimCall
  <2>2. \A t \in Sessions : pc'[t] \in Opening <=> pc[t] \in Opening
    BY Members, <2>1 DEF Opening, Types, CallTypes
  <2>3. Open' = Open /\ OpenInv'
    BY <2>1, <2>2, OpenStays DEF AccountInv
  <2>4. Sent' = Sent /\ Excuses' = IF lost' = lost THEN Excuses ELSE Excuses + 1
    BY <2>1, <2>3, OutboxAssumption DEF OutboxAssumption, Sent, Excuses, Types, CountTypes
  <2>5. SentInv'
    BY <2>1, <2>4, Sizes DEF AccountInv, SentInv, Types, CountTypes
  <2>6. DoomedInv'
    BY <1>0, <2>1, <2>4, Sizes DEF AccountInv, DoomedInv
  <2> QED BY <2>3, <2>5, <2>6 DEF AccountInv
<1>14. ASSUME NEW s \in Sessions, ClearClaim(s) PROVE AccountInv'
  <2>1. /\ UNCHANGED <<flying, injected, lost, slow, raced, receipt>>
        /\ pc[s] = "clear" /\ pc' = [pc EXCEPT ![s] = "readItem"]
    BY <1>14 DEF ClearClaim, RemoveClaim, ClaimCall
  <2>2. \A t \in Sessions : pc'[t] \in Opening <=> pc[t] \in Opening
    BY Members, <2>1 DEF Opening, Types, CallTypes
  <2>3. Open' = Open /\ OpenInv'
    BY <2>1, <2>2, OpenStays DEF AccountInv
  <2>4. Sent' = Sent /\ Excuses' = Excuses /\ receipt' = "written"
    BY <2>1, <2>3 DEF Sent, Excuses, CallInv
  <2> QED BY <1>0, <2>3, <2>4 DEF AccountInv, SentInv, DoomedInv
<1>15. ASSUME NEW s \in Sessions, Release(s) PROVE AccountInv'
  <2>1. /\ UNCHANGED <<flying, injected, lost, slow, raced, claim, receipt>>
        /\ pc[s] = "release" /\ pc' = [pc EXCEPT ![s] = IF Mine(s) THEN "drop" ELSE "idle"]
    BY <1>15 DEF Release, ClaimCall, NotWon
  <2>2. Excuses' = Excuses
    BY <2>1 DEF Excuses
  <2>3. CASE Mine(s)
    <3>1. \A t \in Sessions : pc'[t] \in Opening <=> pc[t] \in Opening
      BY Members, <2>1, <2>3 DEF Opening, Types, CallTypes
    <3>2. Open' = Open /\ OpenInv'
      BY <2>1, <3>1, OpenStays DEF AccountInv
    <3>3. Sent' = Sent
      BY <2>1, <3>2 DEF Sent
    <3>4. Pursued => Pursued'
      BY Members, <2>1, <2>3 DEF Mine, Pursued, Pursuing, Opening, Types, CallTypes
    <3> QED BY <1>0, <2>1, <2>2, <3>2, <3>3, <3>4 DEF AccountInv, SentInv, DoomedInv
  <2>4. CASE ~Mine(s)
    <3>1. OpenInv' /\ Cardinality(Open') = Cardinality(Open) - 1
      BY <2>1, <2>4, OpenEnds DEF AccountInv, Opening
    <3>2. Sent' = Sent - 1
      BY <2>1, <3>1, Sizes DEF AccountInv, Sent, Types, CountTypes
    <3> QED BY <1>0, <2>1, <2>2, <3>1, <3>2, Sizes DEF AccountInv, SentInv, DoomedInv
  <2> QED BY <2>3, <2>4
<1>16. ASSUME NEW s \in Sessions, DropClaim(s) PROVE AccountInv'
  <2>1. /\ UNCHANGED <<flying, injected, lost, slow, raced, receipt>>
        /\ pc[s] = "drop" /\ pc' = [pc EXCEPT ![s] = "idle"]
    BY <1>16 DEF DropClaim, RemoveClaim, ClaimCall
  <2>2. OpenInv' /\ Cardinality(Open') = Cardinality(Open) - 1
    BY <2>1, OpenEnds DEF AccountInv, Opening
  <2>3. Sent' = Sent - 1 /\ Excuses' = Excuses
    BY <2>1, <2>2, Sizes DEF AccountInv, Sent, Excuses, Types, CountTypes
  <2> QED BY <1>0, <2>1, <2>2, <2>3, Sizes DEF AccountInv, SentInv, DoomedInv
<1>17. ASSUME NEW s \in Sessions, SendLands(s) PROVE AccountInv'
  <2>1. /\ UNCHANGED <<lost, slow, raced, claim, receipt>> /\ injected' = injected + 1
        /\ pc[s] = "idle" /\ pc' = [pc EXCEPT ![s] = "confirm"]
        /\ flying[s] > 0 /\ flying' = [flying EXCEPT ![s] = @ - 1]
    BY <1>17 DEF SendLands
  <2>2. OpenInv' /\ Cardinality(Open') = Cardinality(Open) - 1
    BY <2>1, OpenAnswered DEF AccountInv, Labels, Opening
  <2>3. Sent' = Sent /\ Excuses' = Excuses
    BY <2>1, <2>2, Sizes DEF AccountInv, Sent, Excuses, Types, CountTypes
  <2>4. claim.by \in Sessions \/ claim.state = "none"
    BY DEF Types, FileTypes, Claims
  <2>5. Pursued => Pursued'
    BY Members, <2>1, <2>4 DEF Pursued, Pursuing, Opening, Types, CallTypes
  <2> QED BY <1>0, <2>1, <2>2, <2>3, <2>5 DEF AccountInv, SentInv, DoomedInv
<1>18. ASSUME NEW s \in Sessions, SendBusy(s) PROVE AccountInv'
  <2>1. /\ UNCHANGED <<injected, lost, slow, raced, claim, receipt>>
        /\ pc[s] = "idle" /\ pc' = [pc EXCEPT ![s] = "release"]
        /\ flying[s] > 0 /\ flying' = [flying EXCEPT ![s] = @ - 1]
    BY <1>18 DEF SendBusy
  <2>2. OpenInv' /\ Cardinality(Open') = Cardinality(Open)
    BY <2>1, OpenRefused DEF AccountInv
  <2>3. Sent' = Sent /\ Excuses' = Excuses
    BY <2>1, <2>2, Sizes DEF AccountInv, Sent, Excuses, Types, CountTypes
  <2>4. claim.by \in Sessions \/ claim.state = "none"
    BY DEF Types, FileTypes, Claims
  <2>5. Pursued => Pursued'
    BY Members, <2>1, <2>4 DEF Pursued, Pursuing, Opening, Types, CallTypes
  <2> QED BY <1>0, <2>1, <2>2, <2>3, <2>5 DEF AccountInv, SentInv, DoomedInv
<1>19. ASSUME NEW s \in Sessions, SendFails(s) PROVE AccountInv'
  BY <1>19, FailKeeps
<1>20. ASSUME NEW s \in Sessions, QueueCommand(s) PROVE AccountInv'
  <2>1. Quiet
    BY Members, <1>20
    DEF QueueCommand, Quiet, Pursuing, Opening, Types, CallTypes
  <2> QED BY <2>1, <1>0, QuietKeeps
<1>21. ASSUME ChooseRecord PROVE AccountInv'
  <2>1. Quiet
    BY Members, <1>21
    DEF ChooseRecord, Quiet, Pursuing, Opening, Types, CallTypes
  <2> QED BY <2>1, <1>0, QuietKeeps
<1>22. ASSUME RereadOwner PROVE AccountInv'
  <2>1. Quiet
    BY Members, <1>22
    DEF RereadOwner, Quiet, Pursuing, Opening, Types, CallTypes
  <2> QED BY <2>1, <1>0, QuietKeeps
<1>23. ASSUME QueueWechat PROVE AccountInv'
  <2>1. Quiet
    BY Members, <1>23
    DEF QueueWechat, Quiet, Pursuing, Opening, Types, CallTypes
  <2> QED BY <2>1, <1>0, QuietKeeps
<1>24. ASSUME SettleRecord PROVE AccountInv'
  <2>1. Quiet
    BY Members, <1>24
    DEF SettleRecord, Quiet, Pursuing, Opening, Types, CallTypes
  <2> QED BY <2>1, <1>0, QuietKeeps
<1>25. ASSUME RejectRecord PROVE AccountInv'
  <2>1. Quiet
    BY Members, <1>25
    DEF RejectRecord, Quiet, Pursuing, Opening, Types, CallTypes
  <2> QED BY <2>1, <1>0, QuietKeeps
<1>26. ASSUME OwnerMoves PROVE AccountInv'
  <2>1. Quiet
    BY Members, <1>26
    DEF OwnerMoves, Quiet, Pursuing, Opening, Types, CallTypes
  <2> QED BY <2>1, <1>0, QuietKeeps
<1>27. ASSUME ItemGrowsOld PROVE AccountInv'
  <2>1. Quiet
    BY Members, <1>27
    DEF ItemGrowsOld, Quiet, Pursuing, Opening, Types, CallTypes
  <2> QED BY <2>1, <1>0, QuietKeeps
<1>28. ASSUME ClaimGrowsStale PROVE AccountInv'
  <2>1. /\ UNCHANGED <<flying, injected, lost, raced, receipt, pc, item, verdict>>
        /\ \A p \in Processes : pc[p] = "idle"
        /\ \/ flying[claim.by] = 0 /\ slow' = slow
           \/ flying[claim.by] > 0 /\ slow' = slow + 1
    BY <1>28 DEF ClaimGrowsStale
  <2>2. Open' = Open /\ OpenInv'
    BY <2>1, OpenStays DEF AccountInv
  <2>3. Sent' = Sent /\ Excuses' = IF flying[claim.by] = 0 THEN Excuses ELSE Excuses + 1
    BY <2>1, <2>2, OutboxAssumption DEF OutboxAssumption, Sent, Excuses, Types, CountTypes
  <2>4. claim.by \in Sessions
    BY <1>28 DEF ClaimGrowsStale, Types, FileTypes, Claims
  <2>5. flying[claim.by] = 0 => ~Pursued
    BY Members, <2>1, <2>4 DEF Pursued, Pursuing, Opening
  <2>6. SentInv'
    BY <2>1, <2>3, <2>5, Sizes DEF AccountInv, SentInv
  <2>7. Doomed => Settled
    BY <2>1 DEF Doomed, Settled, Hunting, CallInv
  <2>8. DoomedInv'
    BY <1>0, <2>1, <2>3, <2>7, Sizes DEF AccountInv, DoomedInv
  <2> QED BY <2>2, <2>6, <2>8 DEF AccountInv
<1>29. CASE UNCHANGED outboxVars
  <2>1. Quiet
    BY Members, <1>29
    DEF outboxVars, Quiet, Pursuing, Opening, Types, CallTypes
  <2> QED BY <2>1, <1>0, QuietKeeps
<1> QED BY <1>1, <1>2, <1>3, <1>4, <1>5, <1>6, <1>7, <1>8, <1>9, <1>10, <1>11, <1>12, <1>13,
      <1>14, <1>15, <1>16, <1>17, <1>18, <1>19, <1>20, <1>21, <1>22, <1>23, <1>24, <1>25, <1>26,
      <1>27, <1>28, <1>29, Members DEF OutboxNext, MarkStep, SendStep, ClaimStep, ConfirmStep,
      ReleaseStep, TickStep, BridgeStep, InputStep

-----------------------------------------------------------------------------
(* What the item says, and when two bridges race *)

\* Where "delivered" is said or about to be said, the message has arrived.
DeliveredInv ==
  /\ receipt # "none" \/ item.status = "delivered" => injected > 0
  /\ \A p \in Processes : pc[p] \in Confirming \/ verdict[p] = "delivered" => injected > 0

\* Every step keeps that.
LEMMA DeliveredStep ==
  ASSUME Types, CallInv, DeliveredInv, [OutboxNext]_outboxVars
  PROVE  DeliveredInv'
<1> USE Members DEF DeliveredInv, Types, FileTypes, CallTypes, CountTypes, Items
<1>1. ASSUME NEW p \in Processes, ReadItem(p) PROVE DeliveredInv'
  BY <1>1 DEF ReadItem
<1>2. ASSUME NEW p \in Processes, WriteItem(p) PROVE DeliveredInv'
  BY <1>2 DEF WriteItem
<1>3. ASSUME NEW p \in Processes, Crash(p) PROVE DeliveredInv'
  BY <1>3 DEF Crash
<1>4. ASSUME NEW s \in Sessions, BeginTick(s) PROVE DeliveredInv'
  BY <1>4 DEF BeginTick
<1>5. ASSUME NEW s \in Sessions, EndSweep(s) PROVE DeliveredInv'
  BY <1>5 DEF EndSweep
<1>6. ASSUME NEW s \in Sessions, Look(s) PROVE DeliveredInv'
  BY <1>6 DEF Look, Replay, NotWon, ClaimCall
<1>7. ASSUME NEW s \in Sessions, CreateClaim(s) PROVE DeliveredInv'
  BY <1>7 DEF CreateClaim, Race, Skip, ClaimCall
<1>8. ASSUME NEW s \in Sessions, FillClaim(s) PROVE DeliveredInv'
  BY <1>8 DEF FillClaim, Skip, ClaimCall
<1>9. ASSUME NEW s \in Sessions, Judge(s) PROVE DeliveredInv'
  BY <1>9 DEF Judge, Retry, Replay, Skip, NotWon, ClaimCall
<1>10. ASSUME NEW s \in Sessions, UnlinkStale(s) PROVE DeliveredInv'
  BY <1>10 DEF UnlinkStale, Race, Retry, Skip, ClaimCall
<1>11. ASSUME NEW s \in Sessions, Confirm(s) PROVE DeliveredInv'
  BY <1>11 DEF Confirm, Mine, NotWon, ClaimCall
<1>12. ASSUME NEW s \in Sessions, CreateReceipt(s) PROVE DeliveredInv'
  BY <1>12 DEF CreateReceipt, NotConfirmed, ClaimCall
<1>13. ASSUME NEW s \in Sessions, FillReceipt(s) PROVE DeliveredInv'
  BY <1>13 DEF FillReceipt, NotConfirmed, ClaimCall
<1>14. ASSUME NEW s \in Sessions, ClearClaim(s) PROVE DeliveredInv'
  BY <1>14 DEF ClearClaim, RemoveClaim, ClaimCall
<1>15. ASSUME NEW s \in Sessions, Release(s) PROVE DeliveredInv'
  BY <1>15 DEF Release, Mine, NotWon, ClaimCall
<1>16. ASSUME NEW s \in Sessions, DropClaim(s) PROVE DeliveredInv'
  BY <1>16 DEF DropClaim, RemoveClaim, ClaimCall
<1>17. ASSUME NEW s \in Sessions, SendLands(s) PROVE DeliveredInv'
  BY <1>17 DEF SendLands
<1>18. ASSUME NEW s \in Sessions, SendBusy(s) PROVE DeliveredInv'
  BY <1>18 DEF SendBusy
<1>19. ASSUME NEW s \in Sessions, SendFails(s) PROVE DeliveredInv'
  BY <1>19 DEF SendFails
<1>20. ASSUME NEW s \in Sessions, QueueCommand(s) PROVE DeliveredInv'
  BY <1>20 DEF QueueCommand
<1>21. ASSUME ChooseRecord PROVE DeliveredInv'
  BY <1>21 DEF ChooseRecord
<1>22. ASSUME RereadOwner PROVE DeliveredInv'
  BY <1>22 DEF RereadOwner
<1>23. ASSUME QueueWechat PROVE DeliveredInv'
  BY <1>23 DEF QueueWechat
<1>24. ASSUME SettleRecord PROVE DeliveredInv'
  BY <1>24 DEF SettleRecord
<1>25. ASSUME RejectRecord PROVE DeliveredInv'
  BY <1>25 DEF RejectRecord
<1>26. ASSUME OwnerMoves PROVE DeliveredInv'
  BY <1>26 DEF OwnerMoves
<1>27. ASSUME ItemGrowsOld PROVE DeliveredInv'
  BY <1>27 DEF ItemGrowsOld
<1>28. ASSUME ClaimGrowsStale PROVE DeliveredInv'
  BY <1>28 DEF ClaimGrowsStale
<1>29. CASE UNCHANGED outboxVars
  BY <1>29 DEF outboxVars
<1> QED BY <1>1, <1>2, <1>3, <1>4, <1>5, <1>6, <1>7, <1>8, <1>9, <1>10, <1>11, <1>12, <1>13,
      <1>14, <1>15, <1>16, <1>17, <1>18, <1>19, <1>20, <1>21, <1>22, <1>23, <1>24, <1>25, <1>26,
      <1>27, <1>28, <1>29 DEF OutboxNext, MarkStep, SendStep, ClaimStep, ConfirmStep,
      ReleaseStep, TickStep, BridgeStep, InputStep

\* A bridge that claims, sends, confirms or gives back, or that left a claim.
Working(t) ==
  \/ pc[t] \in Claiming \cup Confirming \cup Releasing
  \/ flying[t] > 0 \/ claim.by = t

\* As long as the item names one session, only its bridge works on it, and nothing that
\* this bridge has looked at changes before it acts.
SingleInv ==
  ~requeued =>
    /\ raced = 0
    /\ \A t \in Sessions : Working(t) => item.to = t
    /\ \A p \in Processes : pc[p] = "writeItem" => copy[p] = item.to
    /\ \A t \in Sessions : pc[t] \in {"create", "judge", "unlink"} => receipt # "written"
    /\ \A t \in Sessions : pc[t] = "unlink" => claim.state \notin {"torn", "fresh"}

\* Every step keeps that too.
LEMMA SingleStep ==
  ASSUME Types, CallInv, SingleInv, [OutboxNext]_outboxVars
  PROVE  SingleInv'
<1> USE Members DEF SingleInv, Working, CallInv, Types, FileTypes, CallTypes, CountTypes, Items,
      Claims
<1>1. ASSUME NEW p \in Processes, ReadItem(p) PROVE SingleInv'
  BY <1>1 DEF ReadItem
<1>2. ASSUME NEW p \in Processes, WriteItem(p) PROVE SingleInv'
  BY <1>2 DEF WriteItem
<1>3. ASSUME NEW p \in Processes, Crash(p) PROVE SingleInv'
  BY <1>3 DEF Crash
<1>4. ASSUME NEW s \in Sessions, BeginTick(s) PROVE SingleInv'
  BY <1>4 DEF BeginTick
<1>5. ASSUME NEW s \in Sessions, EndSweep(s) PROVE SingleInv'
  BY <1>5 DEF EndSweep
<1>6. ASSUME NEW s \in Sessions, Look(s) PROVE SingleInv'
  BY <1>6 DEF Look, Replay, NotWon, ClaimCall
<1>7. ASSUME NEW s \in Sessions, CreateClaim(s) PROVE SingleInv'
  BY <1>7 DEF CreateClaim, Race, Skip, ClaimCall
<1>8. ASSUME NEW s \in Sessions, FillClaim(s) PROVE SingleInv'
  BY <1>8 DEF FillClaim, Skip, ClaimCall
<1>9. ASSUME NEW s \in Sessions, Judge(s) PROVE SingleInv'
  BY <1>9 DEF Judge, Retry, Replay, Skip, NotWon, ClaimCall
<1>10. ASSUME NEW s \in Sessions, UnlinkStale(s) PROVE SingleInv'
  BY <1>10 DEF UnlinkStale, Race, Retry, Skip, ClaimCall
<1>11. ASSUME NEW s \in Sessions, Confirm(s) PROVE SingleInv'
  BY <1>11 DEF Confirm, Mine, NotWon, ClaimCall
<1>12. ASSUME NEW s \in Sessions, CreateReceipt(s) PROVE SingleInv'
  BY <1>12 DEF CreateReceipt, NotConfirmed, ClaimCall
<1>13. ASSUME NEW s \in Sessions, FillReceipt(s) PROVE SingleInv'
  BY <1>13 DEF FillReceipt, NotConfirmed, ClaimCall
<1>14. ASSUME NEW s \in Sessions, ClearClaim(s) PROVE SingleInv'
  BY <1>14 DEF ClearClaim, RemoveClaim, ClaimCall
<1>15. ASSUME NEW s \in Sessions, Release(s) PROVE SingleInv'
  BY <1>15 DEF Release, Mine, NotWon, ClaimCall
<1>16. ASSUME NEW s \in Sessions, DropClaim(s) PROVE SingleInv'
  BY <1>16 DEF DropClaim, RemoveClaim, ClaimCall
<1>17. ASSUME NEW s \in Sessions, SendLands(s) PROVE SingleInv'
  BY <1>17 DEF SendLands
<1>18. ASSUME NEW s \in Sessions, SendBusy(s) PROVE SingleInv'
  BY <1>18 DEF SendBusy
<1>19. ASSUME NEW s \in Sessions, SendFails(s) PROVE SingleInv'
  BY <1>19 DEF SendFails
<1>20. ASSUME NEW s \in Sessions, QueueCommand(s) PROVE SingleInv'
  BY <1>20 DEF QueueCommand
<1>21. ASSUME ChooseRecord PROVE SingleInv'
  BY <1>21 DEF ChooseRecord
<1>22. ASSUME RereadOwner PROVE SingleInv'
  BY <1>22 DEF RereadOwner
<1>23. ASSUME QueueWechat PROVE SingleInv'
  <2>1. ~requeued' => ~requeued /\ (item' = item \/ item.to \in {Nobody, before.session})
    BY Zenon, <1>23 DEF QueueWechat
  <2>2. /\ UNCHANGED <<claim, receipt, flying, copy, raced>>
        /\ item' = item \/ item'.to = before.session
        /\ pc[Host] = "queue" /\ pc' \in {[pc EXCEPT ![Host] = l] : l \in {"settle", "failed"}}
    BY <1>23 DEF QueueWechat
  <2>3. \A p \in Processes : p # Host => pc'[p] = pc[p]
    BY <2>2
  <2>4. pc'[Host] \in {"settle", "failed"}
    BY <2>2
  <2> SUFFICES ASSUME ~requeued' PROVE SingleInv'
    BY DEF SingleInv
  <2> QED BY <2>1, <2>2, <2>3, <2>4
<1>24. ASSUME SettleRecord PROVE SingleInv'
  BY <1>24 DEF SettleRecord
<1>25. ASSUME RejectRecord PROVE SingleInv'
  BY <1>25 DEF RejectRecord
<1>26. ASSUME OwnerMoves PROVE SingleInv'
  BY <1>26 DEF OwnerMoves
<1>27. ASSUME ItemGrowsOld PROVE SingleInv'
  BY <1>27 DEF ItemGrowsOld
<1>28. ASSUME ClaimGrowsStale PROVE SingleInv'
  BY <1>28 DEF ClaimGrowsStale
<1>29. CASE UNCHANGED outboxVars
  BY <1>29 DEF outboxVars
<1> QED BY <1>1, <1>2, <1>3, <1>4, <1>5, <1>6, <1>7, <1>8, <1>9, <1>10, <1>11, <1>12, <1>13,
      <1>14, <1>15, <1>16, <1>17, <1>18, <1>19, <1>20, <1>21, <1>22, <1>23, <1>24, <1>25, <1>26,
      <1>27, <1>28, <1>29 DEF OutboxNext, MarkStep, SendStep, ClaimStep, ConfirmStep,
      ReleaseStep, TickStep, BridgeStep, InputStep

-----------------------------------------------------------------------------
(* The invariant and what follows from it *)

OutboxInv == AccountInv /\ DeliveredInv /\ SingleInv

\* It holds before anything is queued ...
LEMMA InvInit ==
  ASSUME OutboxInit
  PROVE  OutboxInv
<1> USE OutboxAssumption, Members DEF OutboxInit, OutboxAssumption
<1>1. Open = {}
  BY DEF Open, Opening
<1>2. OpenInv /\ Cardinality(Open) = 0
  BY <1>1, FS_EmptySet DEF OpenInv
<1>3. Sent = 0 /\ Excuses = 0
  BY <1>2 DEF Sent, Excuses
<1>4. SentInv
  BY <1>3 DEF SentInv
<1>5. ~Doomed
  BY DEF Doomed
<1>6. SingleInv
  BY DEF SingleInv, Working
<1> QED BY <1>2, <1>4, <1>5, <1>6 DEF OutboxInv, AccountInv, DoomedInv, DeliveredInv

\* ... and every run keeps it.
LEMMA InvHolds == OutboxSpec => []OutboxInv
<1>1. OutboxInit => OutboxInv
  BY InvInit
<1>2. Types /\ CallInv /\ OutboxInv /\ [OutboxNext]_outboxVars => OutboxInv'
  BY AccountStep, DeliveredStep, SingleStep DEF OutboxInv
<1> QED BY <1>1, <1>2, OutboxTypes, PTL DEF OutboxSpec

\* The types of the files, the calls and the counters.
THEOREM OutboxTypeOK == OutboxSpec => []TypeOK
<1>1. Types => TypeOK
  BY DEF TypeOK, Types, FileTypes, CallTypes, CountTypes
<1> QED BY <1>1, OutboxTypes, PTL

\* The message arrives once, and once more for each arrival that a crash or a failed
\* write left without a receipt, each claim that a send outlived and each race of two
\* bridges in claimInjection; there is none while the item names one session.
THEOREM OutboxDuplicatesAccounted == OutboxSpec => []DuplicatesAccounted
<1>1. Types /\ OutboxInv => DuplicatesAccounted
  <2> SUFFICES ASSUME Types, OutboxInv PROVE DuplicatesAccounted
    OBVIOUS
  <2>1. injected <= Sent /\ Sent \in Nat /\ Excuses \in Nat /\ Sent <= 1 + Excuses
    BY Sizes DEF OutboxInv, AccountInv, SentInv
  <2>2. injected <= 1 + Excuses
    BY <2>1 DEF Types, CountTypes
  <2>3. raced > 0 => requeued
    BY DEF OutboxInv, SingleInv, Types, CountTypes
  <2> QED BY Zenon, <2>2, <2>3 DEF DuplicatesAccounted
<1> QED BY <1>1, OutboxTypes, InvHolds, PTL

\* What markOutboxItem writes into the item is true of the message.
THEOREM OutboxStatusIsTrue == OutboxSpec => []StatusIsTrue
<1>1. Types /\ OutboxInv => StatusIsTrue
  <2> SUFFICES ASSUME Types, OutboxInv PROVE StatusIsTrue
    OBVIOUS
  <2>1. injected <= Sent /\ Sent \in Nat /\ Excuses \in Nat
    BY Sizes DEF OutboxInv, AccountInv
  <2>2. item.status = "failed" => Sent <= Excuses
    BY DEF OutboxInv, AccountInv, DoomedInv, Doomed
  <2>3. item.status = "delivered" => injected > 0
    BY DEF OutboxInv, DeliveredInv
  <2> QED BY <2>1, <2>2, <2>3 DEF StatusIsTrue, Types, CountTypes
<1> QED BY <1>1, OutboxTypes, InvHolds, PTL
=============================================================================
