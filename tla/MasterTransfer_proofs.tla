----------------------- MODULE MasterTransfer_proofs ------------------------
(***************************************************************************)
(* What a transfer promises, for every set of sessions, every number of    *)
(* transfers and every bound: its types, that its records are true, and    *)
(* that its window stands for what is under way.                           *)
(***************************************************************************)
EXTENDS MasterTransfer, TLAPS

USE DEF Idle, Begin, End, Goto, Recording, Unwritten, Unattached, Unopened, Untold, Unlived

-----------------------------------------------------------------------------
(* Types *)

\* A record with another status, and another successor, is a record.
LEMMA RecordEdits ==
  ASSUME NEW r \in Records, NEW status \in Statuses, NEW to \in Owners
  PROVE  /\ [r EXCEPT !.status = status] \in Records
         /\ [r EXCEPT !.status = status, !.to = to] \in Records
  BY DEF Records

\* WriteAttached gives its record another status and another successor.
LEMMA AttachedUpdate ==
  ASSUME TypeOK, NEW s \in Sessions, WriteAttached(s)
  PROVE  /\ call[s].transfer \in Transfers /\ call[s].seen \in Owners
         /\ record' = [record EXCEPT ![call[s].transfer] =
                          [@ EXCEPT !.status = "attached", !.to = call[s].seen]]
<1>1. call[s].transfer \in Transfers /\ call[s].seen \in Owners
  BY DEF TypeOK, CallsOK, Calls, WriteAttached
<1>2. record' = [record EXCEPT ![call[s].transfer] =
                  [@ EXCEPT !.status = "attached", !.to = call[s].seen]]
  BY Zenon, <1>1 DEF TypeOK, FilesOK, WriteAttached
<1> QED BY <1>1, <1>2

\* The files keep their types.
LEMMA FilesStep ==
  ASSUME TypeOK, [TransferNext]_transferVars
  PROVE  FilesOK'
<1> USE TransferAssumption DEF TypeOK, FilesOK, CallsOK, Owners, NoOwner, Handoffs, Windows,
      NoWindow, Calls, TransferAssumption
<1>1. ASSUME NEW s \in Sessions, BeginTransfer(s) PROVE FilesOK'
  BY <1>1 DEF BeginTransfer
<1>2. ASSUME NEW s \in Sessions, BeginDetach(s) PROVE FilesOK'
  BY <1>2 DEF BeginDetach
<1>3. ASSUME NEW s \in Sessions, DetachRead(s) PROVE FilesOK'
  BY <1>3 DEF DetachRead
<1>4. ASSUME NEW s \in Sessions, WriteToken(s) PROVE FilesOK'
  BY <1>4 DEF WriteToken
<1>5. ASSUME NEW s \in Sessions, WriteRecord(s) PROVE FilesOK'
  <2>1. call[s].transfer \in Transfers /\ call[s].seen \in Owners
    BY <1>5 DEF WriteRecord
  <2>2. [status |-> "initiated", from |-> call[s].seen, to |-> NoOwner] \in Records
    BY <2>1 DEF Records, Statuses
  <2> QED BY <1>5, <2>1, <2>2 DEF WriteRecord
<1>6. ASSUME NEW s \in Sessions, Spawn(s) PROVE FilesOK'
  BY <1>6 DEF Spawn
<1>7. ASSUME NEW s \in Sessions, SpawnFails(s) PROVE FilesOK'
  BY <1>7 DEF SpawnFails
<1>8. ASSUME NEW s \in Sessions, WriteSpawned(s) PROVE FilesOK'
  <2> DEFINE t == call[s].transfer
  <2>1. t \in Transfers /\ record' = [record EXCEPT ![t] = [@ EXCEPT !.status = "spawned"]]
    BY <1>8 DEF WriteSpawned, SetStatus
  <2>2. [record[t] EXCEPT !.status = "spawned"] \in Records
    BY <2>1, RecordEdits DEF Statuses
  <2> QED BY <1>8, <2>1, <2>2 DEF WriteSpawned
<1>9. ASSUME NEW s \in Sessions, OpenWindow(s) PROVE FilesOK'
  BY <1>9 DEF OpenWindow
<1>10. ASSUME NEW s \in Sessions, FailClear(s) PROVE FilesOK'
  BY <1>10 DEF FailClear, ClearWindow
<1>11. ASSUME NEW s \in Sessions, WriteFailed(s) PROVE FilesOK'
  <2> DEFINE t == call[s].transfer
  <2>1. t \in Transfers /\ record' = [record EXCEPT ![t] = [@ EXCEPT !.status = "failed"]]
    BY <1>11 DEF WriteFailed, SetStatus
  <2>2. [record[t] EXCEPT !.status = "failed"] \in Records
    BY <2>1, RecordEdits DEF Statuses
  <2> QED BY <1>11, <2>1, <2>2 DEF WriteFailed
<1>12. ASSUME NEW s \in Sessions, AttachWithToken(s) PROVE FilesOK'
  BY <1>12 DEF AttachWithToken, Grant
<1>13. ASSUME NEW s \in Sessions, ForceLook(s) PROVE FilesOK'
  BY <1>13 DEF ForceLook, LeaseFree
<1>14. ASSUME NEW s \in Sessions, TakeoverLook(s) PROVE FilesOK'
  BY <1>14 DEF TakeoverLook
<1>15. ASSUME NEW s \in Sessions, WriteForced(s) PROVE FilesOK'
  BY <1>15 DEF WriteForced, Grant, Looking
<1>16. ASSUME NEW s \in Sessions, Confirm(s) PROVE FilesOK'
  BY <1>16 DEF Confirm, BeginConfirm
<1>17. ASSUME NEW s \in Sessions, WriteAttached(s) PROVE FilesOK'
  <2> DEFINE t == call[s].transfer
  <2>1. /\ t \in Transfers /\ call[s].seen \in Owners
        /\ record' = [record EXCEPT ![t] = [@ EXCEPT !.status = "attached",
          !.to = call[s].seen]]
    BY <1>17, AttachedUpdate
  <2>2. [record[t] EXCEPT !.status = "attached", !.to = call[s].seen] \in Records
    BY <2>1, RecordEdits DEF Statuses
  <2> QED BY <1>17, <2>1, <2>2 DEF WriteAttached
<1>18. ASSUME NEW s \in Sessions, WriteCompleted(s) PROVE FilesOK'
  <2> DEFINE t == call[s].transfer
  <2>1. t \in Transfers /\ record' = [record EXCEPT ![t] = [@ EXCEPT !.status = "completed"]]
    BY <1>18 DEF WriteCompleted, SetStatus
  <2>2. [record[t] EXCEPT !.status = "completed"] \in Records
    BY <2>1, RecordEdits DEF Statuses
  <2> QED BY <1>18, <2>1, <2>2 DEF WriteCompleted
<1>19. ASSUME NEW s \in Sessions, CloseWindow(s) PROVE FilesOK'
  BY <1>19 DEF CloseWindow, ClearWindow
<1>20. ASSUME NEW s \in Sessions, Crash(s) PROVE FilesOK'
  BY <1>20 DEF Crash
<1>21. ASSUME NEW s \in Sessions, Restart(s) PROVE FilesOK'
  BY <1>21 DEF Restart
<1>22. CASE TokenExpires
  BY <1>22 DEF TokenExpires
<1>23. CASE WindowExpires
  BY <1>23 DEF WindowExpires
<1>24. CASE UNCHANGED transferVars
  BY <1>24 DEF transferVars, files, history, bounds
<1> QED
  BY <1>1, <1>2, <1>3, <1>4, <1>5, <1>6, <1>7, <1>8, <1>9, <1>10, <1>11, <1>12, <1>13, <1>14,
    <1>15, <1>16, <1>17, <1>18, <1>19, <1>20, <1>21, <1>22, <1>23, <1>24
  DEF TransferNext, CallStep, TransferStep, ConfirmStep

\* A call with another attachment read is a call.
LEMMA CallEdits ==
  ASSUME NEW c \in Calls, NEW owner \in Owners
  PROVE  /\ NoCall \in Calls
         /\ [NoCall EXCEPT !.seen = owner] \in Calls /\ [c EXCEPT !.held = owner] \in Calls
<1>1. NoCall \in Calls
  BY TransferAssumption DEF TransferAssumption, NoCall, Calls, NoOwner, Owners
<1>2. ASSUME NEW d \in Calls
      PROVE  [d EXCEPT !.seen = owner] \in Calls /\ [d EXCEPT !.held = owner] \in Calls
  BY DEF Calls
<1> QED BY <1>1, <1>2

\* A live session whose next step and call are replaced by a step and a call that fit
\* together leaves the calls well typed.
LEMMA CallMoves ==
  ASSUME CallsOK, NEW s \in Sessions, life[s] = "up", UNCHANGED life,
         NEW label \in Labels, NEW c \in Calls,
         label \notin {"idle", "detach", "token", "force",
           "takeover"} => c.transfer \in Transfers,
         label = "force" => LeaseFree,
         pc' = [pc EXCEPT ![s] = label], call' = [call EXCEPT ![s] = c]
  PROVE  CallsOK'
<1>1. pc' \in [Sessions -> Labels] /\ call' \in [Sessions -> Calls]
  BY DEF CallsOK
<1>2. ASSUME NEW q \in Sessions
      PROVE  /\ pc'[q] # "idle" => life'[q] = "up"
             /\ pc'[q] \notin {"idle", "detach", "token", "force", "takeover"}
                  => call'[q].transfer \in Transfers
  <2>1. CASE q = s
    BY <2>1 DEF CallsOK
  <2>2. CASE q # s
    BY <2>2 DEF CallsOK
  <2> QED BY <2>1, <2>2
<1>3. ASSUME NEW p \in Sessions, NEW q \in Sessions, pc'[p] = "force", pc'[q] = "force"
      PROVE  p = q
  BY <1>3 DEF CallsOK, LeaseFree
<1> QED
  BY <1>1, <1>2, <1>3 DEF CallsOK

\* The calls keep their types.
LEMMA CallsStep ==
  ASSUME TypeOK, [TransferNext]_transferVars
  PROVE  CallsOK'
<1> USE TransferAssumption DEF TypeOK, FilesOK, CallsOK, BoundsOK, Transfers, Owners, NoOwner,
      Records, Calls, NoCall, Labels, TransferAssumption
<1>1. ASSUME NEW s \in Sessions, BeginTransfer(s) PROVE CallsOK'
  <2>1. [transfer |-> begun + 1, seen |-> attachment, held |-> NoOwner] \in Calls
    BY <1>1 DEF BeginTransfer
  <2>2. /\ life[s] = "up" /\ UNCHANGED life
        /\ pc' = [pc EXCEPT ![s] = "detach"]
        /\ call' = [call EXCEPT ![s] =
                      [transfer |-> begun + 1, seen |-> attachment, held |-> NoOwner]]
    BY <1>1 DEF BeginTransfer
  <2> QED BY <2>1, <2>2, CallMoves DEF Labels
<1>2. ASSUME NEW s \in Sessions, BeginDetach(s) PROVE CallsOK'
  <2>1. NoCall \in Calls
    BY <1>2 DEF BeginDetach
  <2>2. /\ life[s] = "up" /\ UNCHANGED life
        /\ pc' = [pc EXCEPT ![s] = "detach"] /\ call' = [call EXCEPT ![s] = NoCall]
    BY <1>2 DEF BeginDetach
  <2> QED BY <2>1, <2>2, CallMoves DEF Labels
<1>3. ASSUME NEW s \in Sessions, DetachRead(s) PROVE CallsOK'
  <2>1. NoCall \in Calls /\ [call[s] EXCEPT !.held = attachment] \in Calls
    <3>1. attachment \in Owners /\ call[s] \in Calls
      BY <1>3
    <3> HIDE DEF Owners, Calls, NoCall
    <3> QED BY <3>1, CallEdits
  <2>2. life[s] = "up" /\ UNCHANGED life
    BY <1>3 DEF DetachRead
  <2>3. CASE /\ pc' = [pc EXCEPT ![s] = "token"]
             /\ call' = [call EXCEPT ![s] = [call[s] EXCEPT !.held = attachment]]
    BY <2>1, <2>2, <2>3, CallMoves DEF Labels
  <2>4. CASE pc' = [pc EXCEPT ![s] = "idle"] /\ call' = [call EXCEPT ![s] = NoCall]
    BY <2>1, <2>2, <2>4, CallMoves DEF Labels
  <2> QED BY <1>3, <2>3, <2>4 DEF DetachRead
<1>4. ASSUME NEW s \in Sessions, WriteToken(s) PROVE CallsOK'
  <2>1. NoCall \in Calls /\ call[s] \in Calls
    BY <1>4 DEF WriteToken
  <2>2. life[s] = "up" /\ UNCHANGED life
    BY <1>4 DEF WriteToken
  <2>3. CASE call[s].transfer = 0
    <3>1. pc' = [pc EXCEPT ![s] = "idle"] /\ call' = [call EXCEPT ![s] = NoCall]
      BY <1>4, <2>3 DEF WriteToken
    <3> QED BY <2>1, <2>2, <3>1, CallMoves DEF Labels
  <2>4. CASE call[s].transfer # 0
    <3>1. pc' = [pc EXCEPT ![s] = "record"] /\ call' = [call EXCEPT ![s] = call[s]]
      BY <1>4, <2>4 DEF WriteToken
    <3>2. call[s].transfer \in Transfers
      BY <2>1, <2>4
    <3> QED BY <2>1, <2>2, <3>1, <3>2, CallMoves DEF Labels
  <2> QED BY <2>3, <2>4
<1>5. ASSUME NEW s \in Sessions, WriteRecord(s) PROVE CallsOK'
  <2>1. call[s] \in Calls /\ call[s].transfer \in Transfers
    BY <1>5 DEF WriteRecord
  <2>2. /\ life[s] = "up" /\ UNCHANGED life
        /\ pc' = [pc EXCEPT ![s] = "spawn"] /\ call' = [call EXCEPT ![s] = call[s]]
    BY <1>5 DEF WriteRecord
  <2> QED BY <2>1, <2>2, CallMoves DEF Labels
<1>6. ASSUME NEW s \in Sessions, Spawn(s) PROVE CallsOK'
  BY <1>6 DEF Spawn
<1>7. ASSUME NEW s \in Sessions, SpawnFails(s) PROVE CallsOK'
  <2>1. call[s] \in Calls /\ call[s].transfer \in Transfers
    BY <1>7 DEF SpawnFails
  <2>2. /\ life[s] = "up" /\ UNCHANGED life
        /\ pc' = [pc EXCEPT ![s] = "clear"] /\ call' = [call EXCEPT ![s] = call[s]]
    BY <1>7 DEF SpawnFails
  <2> QED BY <2>1, <2>2, CallMoves DEF Labels
<1>8. ASSUME NEW s \in Sessions, WriteSpawned(s) PROVE CallsOK'
  <2>1. call[s] \in Calls /\ call[s].transfer \in Transfers
    BY <1>8 DEF WriteSpawned
  <2>2. /\ life[s] = "up" /\ UNCHANGED life
        /\ pc' = [pc EXCEPT ![s] = "open"] /\ call' = [call EXCEPT ![s] = call[s]]
    BY <1>8 DEF WriteSpawned
  <2> QED BY <2>1, <2>2, CallMoves DEF Labels
<1>9. ASSUME NEW s \in Sessions, OpenWindow(s) PROVE CallsOK'
  <2>1. NoCall \in Calls
    BY <1>9 DEF OpenWindow
  <2>2. /\ life[s] = "up" /\ UNCHANGED life
        /\ pc' = [pc EXCEPT ![s] = "idle"] /\ call' = [call EXCEPT ![s] = NoCall]
    BY <1>9 DEF OpenWindow
  <2> QED BY <2>1, <2>2, CallMoves DEF Labels
<1>10. ASSUME NEW s \in Sessions, FailClear(s) PROVE CallsOK'
  <2>1. call[s] \in Calls /\ call[s].transfer \in Transfers
    BY <1>10 DEF FailClear, ClearWindow
  <2>2. /\ life[s] = "up" /\ UNCHANGED life
        /\ pc' = [pc EXCEPT ![s] = "fail"] /\ call' = [call EXCEPT ![s] = call[s]]
    BY <1>10 DEF FailClear, ClearWindow
  <2> QED BY <2>1, <2>2, CallMoves DEF Labels
<1>11. ASSUME NEW s \in Sessions, WriteFailed(s) PROVE CallsOK'
  <2>1. NoCall \in Calls
    BY <1>11 DEF WriteFailed
  <2>2. /\ life[s] = "up" /\ UNCHANGED life
        /\ pc' = [pc EXCEPT ![s] = "idle"] /\ call' = [call EXCEPT ![s] = NoCall]
    BY <1>11 DEF WriteFailed
  <2> QED BY <2>1, <2>2, CallMoves DEF Labels
<1>12. ASSUME NEW s \in Sessions, AttachWithToken(s) PROVE CallsOK'
  BY <1>12 DEF AttachWithToken, Grant
<1>13. ASSUME NEW s \in Sessions, ForceLook(s) PROVE CallsOK'
  <2>1. [NoCall EXCEPT !.seen = attachment] \in Calls
    <3>1. attachment \in Owners /\ call[s] \in Calls
      BY <1>13
    <3> HIDE DEF Owners, Calls, NoCall
    <3> QED BY <3>1, CallEdits
  <2>2. /\ life[s] = "up" /\ UNCHANGED life /\ LeaseFree
        /\ pc' = [pc EXCEPT ![s] = "force"]
        /\ call' = [call EXCEPT ![s] = [NoCall EXCEPT !.seen = attachment]]
    BY <1>13 DEF ForceLook, LeaseFree
  <2> QED BY <2>1, <2>2, CallMoves DEF Labels
<1>14. ASSUME NEW s \in Sessions, TakeoverLook(s) PROVE CallsOK'
  <2>1. [NoCall EXCEPT !.seen = attachment] \in Calls
    <3>1. attachment \in Owners /\ call[s] \in Calls
      BY <1>14
    <3> HIDE DEF Owners, Calls, NoCall
    <3> QED BY <3>1, CallEdits
  <2>2. /\ life[s] = "up" /\ UNCHANGED life
        /\ pc' = [pc EXCEPT ![s] = "takeover"]
        /\ call' = [call EXCEPT ![s] = [NoCall EXCEPT !.seen = attachment]]
    BY <1>14 DEF TakeoverLook
  <2> QED BY <2>1, <2>2, CallMoves DEF Labels
<1>15. ASSUME NEW s \in Sessions, WriteForced(s) PROVE CallsOK'
  <2>1. NoCall \in Calls
    BY <1>15 DEF WriteForced, Looking
  <2>2. /\ life[s] = "up" /\ UNCHANGED life
        /\ pc' = [pc EXCEPT ![s] = "idle"] /\ call' = [call EXCEPT ![s] = NoCall]
    BY <1>15 DEF WriteForced, Looking
  <2> QED BY <2>1, <2>2, CallMoves DEF Labels
<1>16. ASSUME NEW s \in Sessions, Confirm(s) PROVE CallsOK'
  <2>1. PICK t \in Transfers : BeginConfirm(s, t)
    BY <1>16 DEF Confirm
  <2>2. [transfer |-> t, seen |-> attachment, held |-> NoOwner] \in Calls
    BY <2>1
  <2>3. /\ life[s] = "up" /\ UNCHANGED life
        /\ pc' = [pc EXCEPT ![s] = "attached"]
        /\ call' = [call EXCEPT ![s] = [transfer |-> t, seen |-> attachment, held |-> NoOwner]]
    BY <2>1 DEF BeginConfirm
  <2> QED BY <2>2, <2>3, CallMoves DEF Labels
<1>17. ASSUME NEW s \in Sessions, WriteAttached(s) PROVE CallsOK'
  <2>1. call[s] \in Calls /\ call[s].transfer \in Transfers
    BY <1>17 DEF WriteAttached
  <2>2. /\ life[s] = "up" /\ UNCHANGED life
        /\ pc' = [pc EXCEPT ![s] = "completed"] /\ call' = [call EXCEPT ![s] = call[s]]
    BY <1>17 DEF WriteAttached
  <2> QED BY <2>1, <2>2, CallMoves DEF Labels
<1>18. ASSUME NEW s \in Sessions, WriteCompleted(s) PROVE CallsOK'
  <2>1. call[s] \in Calls /\ call[s].transfer \in Transfers
    BY <1>18 DEF WriteCompleted
  <2>2. /\ life[s] = "up" /\ UNCHANGED life
        /\ pc' = [pc EXCEPT ![s] = "close"] /\ call' = [call EXCEPT ![s] = call[s]]
    BY <1>18 DEF WriteCompleted
  <2> QED BY <2>1, <2>2, CallMoves DEF Labels
<1>19. ASSUME NEW s \in Sessions, CloseWindow(s) PROVE CallsOK'
  <2>1. NoCall \in Calls
    BY <1>19 DEF CloseWindow, ClearWindow
  <2>2. /\ life[s] = "up" /\ UNCHANGED life
        /\ pc' = [pc EXCEPT ![s] = "idle"] /\ call' = [call EXCEPT ![s] = NoCall]
    BY <1>19 DEF CloseWindow, ClearWindow
  <2> QED BY <2>1, <2>2, CallMoves DEF Labels
<1>20. ASSUME NEW s \in Sessions, Crash(s) PROVE CallsOK'
  BY <1>20 DEF Crash
<1>21. ASSUME NEW s \in Sessions, Restart(s) PROVE CallsOK'
  BY <1>21 DEF Restart
<1>22. CASE TokenExpires
  BY <1>22 DEF TokenExpires
<1>23. CASE WindowExpires
  BY <1>23 DEF WindowExpires
<1>24. CASE UNCHANGED transferVars
  BY <1>24 DEF transferVars, files, history, bounds
<1> QED
  BY <1>1, <1>2, <1>3, <1>4, <1>5, <1>6, <1>7, <1>8, <1>9, <1>10, <1>11, <1>12, <1>13, <1>14,
    <1>15, <1>16, <1>17, <1>18, <1>19, <1>20, <1>21, <1>22, <1>23, <1>24
  DEF TransferNext, CallStep, TransferStep, ConfirmStep

\* The histories keep their types.
LEMMA HistoryStep ==
  ASSUME TypeOK, [TransferNext]_transferVars
  PROVE  HistoryOK'
<1> USE TransferAssumption DEF TypeOK, FilesOK, CallsOK, HistoryOK, Transfers, Owners, Calls,
      Windows, NoWindow, Generations, TransferAssumption
<1>1. ASSUME NEW s \in Sessions, BeginTransfer(s) PROVE HistoryOK'
  BY <1>1 DEF BeginTransfer
<1>2. ASSUME NEW s \in Sessions, BeginDetach(s) PROVE HistoryOK'
  BY <1>2 DEF BeginDetach
<1>3. ASSUME NEW s \in Sessions, DetachRead(s) PROVE HistoryOK'
  BY <1>3 DEF DetachRead
<1>4. ASSUME NEW s \in Sessions, WriteToken(s) PROVE HistoryOK'
  BY <1>4 DEF WriteToken
<1>5. ASSUME NEW s \in Sessions, WriteRecord(s) PROVE HistoryOK'
  BY <1>5 DEF WriteRecord
<1>6. ASSUME NEW s \in Sessions, Spawn(s) PROVE HistoryOK'
  BY <1>6 DEF Spawn
<1>7. ASSUME NEW s \in Sessions, SpawnFails(s) PROVE HistoryOK'
  BY <1>7 DEF SpawnFails
<1>8. ASSUME NEW s \in Sessions, WriteSpawned(s) PROVE HistoryOK'
  <2>1. call[s].transfer \in Transfers
    BY <1>8 DEF WriteSpawned
  <2> QED BY <1>8, <2>1 DEF WriteSpawned
<1>9. ASSUME NEW s \in Sessions, OpenWindow(s) PROVE HistoryOK'
  <2>1. call[s].transfer \in Transfers
    BY <1>9 DEF OpenWindow
  <2>2. bared' \subseteq Transfers /\ late' \subseteq Transfers
    BY <1>9, <2>1 DEF OpenWindow
  <2> QED BY <1>9, <2>2 DEF OpenWindow
<1>10. ASSUME NEW s \in Sessions, FailClear(s) PROVE HistoryOK'
  BY <1>10 DEF FailClear, ClearWindow
<1>11. ASSUME NEW s \in Sessions, WriteFailed(s) PROVE HistoryOK'
  BY <1>11 DEF WriteFailed, SetStatus
<1>12. ASSUME NEW s \in Sessions, AttachWithToken(s) PROVE HistoryOK'
  BY <1>12 DEF AttachWithToken, Grant
<1>13. ASSUME NEW s \in Sessions, ForceLook(s) PROVE HistoryOK'
  BY <1>13 DEF ForceLook, LeaseFree
<1>14. ASSUME NEW s \in Sessions, TakeoverLook(s) PROVE HistoryOK'
  BY <1>14 DEF TakeoverLook
<1>15. ASSUME NEW s \in Sessions, WriteForced(s) PROVE HistoryOK'
  <2>1. preempted' \subseteq Transfers
    BY <1>15 DEF WriteForced
  <2>2. CASE Grant(s)
    BY <2>2, <2>1, <1>15 DEF WriteForced, Grant
  <2>3. CASE UNCHANGED granted
    BY <2>3, <2>1, <1>15 DEF WriteForced
  <2> QED BY <1>15, <2>2, <2>3 DEF WriteForced
<1>16. ASSUME NEW s \in Sessions, Confirm(s) PROVE HistoryOK'
  BY <1>16 DEF Confirm, BeginConfirm
<1>17. ASSUME NEW s \in Sessions, WriteAttached(s) PROVE HistoryOK'
  BY <1>17 DEF WriteAttached
<1>18. ASSUME NEW s \in Sessions, WriteCompleted(s) PROVE HistoryOK'
  BY <1>18 DEF WriteCompleted, SetStatus
<1>19. ASSUME NEW s \in Sessions, CloseWindow(s) PROVE HistoryOK'
  BY <1>19 DEF CloseWindow, ClearWindow
<1>20. ASSUME NEW s \in Sessions, Crash(s) PROVE HistoryOK'
  BY <1>20 DEF Crash
<1>21. ASSUME NEW s \in Sessions, Restart(s) PROVE HistoryOK'
  BY <1>21 DEF Restart
<1>22. CASE TokenExpires
  BY <1>22 DEF TokenExpires
<1>23. CASE WindowExpires
  BY <1>23 DEF WindowExpires
<1>24. CASE UNCHANGED transferVars
  BY <1>24 DEF transferVars, files, history, bounds
<1> QED
  BY <1>1, <1>2, <1>3, <1>4, <1>5, <1>6, <1>7, <1>8, <1>9, <1>10, <1>11, <1>12, <1>13, <1>14,
    <1>15, <1>16, <1>17, <1>18, <1>19, <1>20, <1>21, <1>22, <1>23, <1>24
  DEF TransferNext, CallStep, TransferStep, ConfirmStep

\* The counters keep their types.
LEMMA BoundsStep ==
  ASSUME TypeOK, [TransferNext]_transferVars
  PROVE  BoundsOK'
<1> USE TransferAssumption DEF TypeOK, BoundsOK, TransferAssumption
<1>1. ASSUME NEW s \in Sessions, BeginTransfer(s) PROVE BoundsOK'
  BY <1>1 DEF BeginTransfer
<1>2. ASSUME NEW s \in Sessions, BeginDetach(s) PROVE BoundsOK'
  BY <1>2 DEF BeginDetach
<1>3. ASSUME NEW s \in Sessions, DetachRead(s) PROVE BoundsOK'
  BY <1>3 DEF DetachRead
<1>4. ASSUME NEW s \in Sessions, WriteToken(s) PROVE BoundsOK'
  BY <1>4 DEF WriteToken
<1>5. ASSUME NEW s \in Sessions, WriteRecord(s) PROVE BoundsOK'
  BY <1>5 DEF WriteRecord
<1>6. ASSUME NEW s \in Sessions, Spawn(s) PROVE BoundsOK'
  BY <1>6 DEF Spawn
<1>7. ASSUME NEW s \in Sessions, SpawnFails(s) PROVE BoundsOK'
  BY <1>7 DEF SpawnFails
<1>8. ASSUME NEW s \in Sessions, WriteSpawned(s) PROVE BoundsOK'
  BY <1>8 DEF WriteSpawned, SetStatus
<1>9. ASSUME NEW s \in Sessions, OpenWindow(s) PROVE BoundsOK'
  BY <1>9 DEF OpenWindow
<1>10. ASSUME NEW s \in Sessions, FailClear(s) PROVE BoundsOK'
  BY <1>10 DEF FailClear, ClearWindow
<1>11. ASSUME NEW s \in Sessions, WriteFailed(s) PROVE BoundsOK'
  BY <1>11 DEF WriteFailed, SetStatus
<1>12. ASSUME NEW s \in Sessions, AttachWithToken(s) PROVE BoundsOK'
  BY <1>12 DEF AttachWithToken, Grant
<1>13. ASSUME NEW s \in Sessions, ForceLook(s) PROVE BoundsOK'
  BY <1>13 DEF ForceLook, LeaseFree
<1>14. ASSUME NEW s \in Sessions, TakeoverLook(s) PROVE BoundsOK'
  BY <1>14 DEF TakeoverLook
<1>15. ASSUME NEW s \in Sessions, WriteForced(s) PROVE BoundsOK'
  BY <1>15 DEF WriteForced, Grant, Looking
<1>16. ASSUME NEW s \in Sessions, Confirm(s) PROVE BoundsOK'
  BY <1>16 DEF Confirm, BeginConfirm
<1>17. ASSUME NEW s \in Sessions, WriteAttached(s) PROVE BoundsOK'
  BY <1>17 DEF WriteAttached
<1>18. ASSUME NEW s \in Sessions, WriteCompleted(s) PROVE BoundsOK'
  BY <1>18 DEF WriteCompleted, SetStatus
<1>19. ASSUME NEW s \in Sessions, CloseWindow(s) PROVE BoundsOK'
  BY <1>19 DEF CloseWindow, ClearWindow
<1>20. ASSUME NEW s \in Sessions, Crash(s) PROVE BoundsOK'
  BY <1>20 DEF Crash
<1>21. ASSUME NEW s \in Sessions, Restart(s) PROVE BoundsOK'
  BY <1>21 DEF Restart
<1>22. CASE TokenExpires
  BY <1>22 DEF TokenExpires
<1>23. CASE WindowExpires
  BY <1>23 DEF WindowExpires
<1>24. CASE UNCHANGED transferVars
  BY <1>24 DEF transferVars, files, history, bounds
<1> QED
  BY <1>1, <1>2, <1>3, <1>4, <1>5, <1>6, <1>7, <1>8, <1>9, <1>10, <1>11, <1>12, <1>13, <1>14,
    <1>15, <1>16, <1>17, <1>18, <1>19, <1>20, <1>21, <1>22, <1>23, <1>24
  DEF TransferNext, CallStep, TransferStep, ConfirmStep

\* The files and the calls of every state of a transfer are well typed.
THEOREM TransferTypeOK == TransferSpec => []TypeOK
<1>1. ASSUME TransferInit PROVE TypeOK
  <2> USE <1>1, TransferAssumption DEF TransferInit, TransferAssumption, Owners, NoOwner
  <2>1. attachment \in Owners
    OBVIOUS
  <2>2. handoff \in Handoffs
    BY DEF Handoffs
  <2>3. window \in Windows
    BY DEF Windows, NoWindow
  <2>4. NoRecord \in Records
    BY DEF NoRecord, Records, Statuses
  <2>5. record \in [Transfers -> Records]
    BY <2>4
  <2>6. NoCall \in Calls
    BY DEF NoCall, Calls
  <2>7. call \in [Sessions -> Calls]
    BY <2>6
  <2>8. CallsOK
    BY <2>7 DEF CallsOK, Labels
  <2>9. granted \in [Generations -> Sessions \cup {Nobody}]
    BY DEF Generations
  <2>10. HistoryOK
    BY <2>9 DEF HistoryOK
  <2>11. BoundsOK
    BY DEF BoundsOK
  <2> QED BY <2>1, <2>2, <2>3, <2>5, <2>8, <2>10, <2>11 DEF TypeOK, FilesOK
<1>2. ASSUME TypeOK, [TransferNext]_transferVars PROVE TypeOK'
  BY <1>2, FilesStep, CallsStep, HistoryStep, BoundsStep DEF TypeOK
<1> QED BY <1>1, <1>2, PTL DEF TransferSpec

-----------------------------------------------------------------------------
(* The window *)

\* What is under way and has not been bared has a window that blocks, and nobody has
\* looked past it.
Protected ==
  \A t \in Transfers :
    UnderWay(t) /\ t \notin bared => WindowBlocks /\ \A q \in Sessions : ~Looking(q)

WindowInv == Protected /\ PreemptedThroughGap

\* Nobody gets past a window that protects.
LEMMA WindowStep ==
  ASSUME TypeOK, WindowInv, [TransferNext]_transferVars
  PROVE  WindowInv'
<1> USE TransferAssumption DEF TypeOK, FilesOK, CallsOK, HistoryOK, WindowInv, Protected,
      PreemptedThroughGap, UnderWay, WindowBlocks, Looking
<1>1. ASSUME NEW s \in Sessions, BeginTransfer(s) PROVE WindowInv'
  BY <1>1 DEF BeginTransfer
<1>2. ASSUME NEW s \in Sessions, BeginDetach(s) PROVE WindowInv'
  BY <1>2 DEF BeginDetach
<1>3. ASSUME NEW s \in Sessions, DetachRead(s) PROVE WindowInv'
  BY <1>3 DEF DetachRead
<1>4. ASSUME NEW s \in Sessions, WriteToken(s) PROVE WindowInv'
  BY <1>4 DEF WriteToken
<1>5. ASSUME NEW s \in Sessions, WriteRecord(s) PROVE WindowInv'
  BY <1>5 DEF WriteRecord
<1>6. ASSUME NEW s \in Sessions, Spawn(s) PROVE WindowInv'
  BY <1>6 DEF Spawn
<1>7. ASSUME NEW s \in Sessions, SpawnFails(s) PROVE WindowInv'
  BY <1>7 DEF SpawnFails
<1>8. ASSUME NEW s \in Sessions, WriteSpawned(s) PROVE WindowInv'
  <2> DEFINE u == call[s].transfer
  <2>1. /\ u \in Transfers
        /\ record' = [record EXCEPT ![u] = [@ EXCEPT !.status = "spawned"]]
    BY <1>8 DEF WriteSpawned, SetStatus
  <2>2. \A t \in Transfers : record'[t].status = IF t = u THEN "spawned" ELSE record[t].status
    BY <2>1 DEF Records
  <2> QED BY <1>8, <2>1, <2>2 DEF WriteSpawned
<1>9. ASSUME NEW s \in Sessions, OpenWindow(s) PROVE WindowInv'
  <2> DEFINE u == call[s].transfer
  <2>1. u \in Transfers /\ UNCHANGED record
    BY <1>9 DEF OpenWindow
  <2>2. WindowBlocks'
    BY <1>9, <2>1 DEF OpenWindow, Transfers
  <2>3. pc' = [pc EXCEPT ![s] = "idle"] /\ UNCHANGED preempted
    BY <1>9 DEF OpenWindow
  <2>4. CASE \E q \in Sessions : Looking(q)
    <3>1. UNCHANGED bared
      BY <1>9, <2>4 DEF OpenWindow
    <3>2. \A t \in Transfers : UnderWay(t) => t \in bared
      BY <2>4
    <3> QED BY <2>1, <2>3, <3>1, <3>2
  <2>5. CASE \A q \in Sessions : ~Looking(q)
    <3>1. \A q \in Sessions : ~Looking(q)'
      BY <2>3, <2>5
    <3> QED BY <2>1, <2>2, <2>3, <3>1
  <2> QED BY <2>4, <2>5
<1>10. ASSUME NEW s \in Sessions, FailClear(s) PROVE WindowInv'
  BY <1>10 DEF FailClear, ClearWindow
<1>11. ASSUME NEW s \in Sessions, WriteFailed(s) PROVE WindowInv'
  <2> DEFINE u == call[s].transfer
  <2>1. /\ u \in Transfers
        /\ record' = [record EXCEPT ![u] = [@ EXCEPT !.status = "failed"]]
    BY <1>11 DEF WriteFailed, SetStatus
  <2>2. \A t \in Transfers : record'[t].status = IF t = u THEN "failed" ELSE record[t].status
    BY <2>1 DEF Records
  <2> QED BY <1>11, <2>1, <2>2 DEF WriteFailed
<1>12. ASSUME NEW s \in Sessions, AttachWithToken(s) PROVE WindowInv'
  BY <1>12 DEF AttachWithToken, Grant
<1>13. ASSUME NEW s \in Sessions, ForceLook(s) PROVE WindowInv'
  BY <1>13 DEF ForceLook, LeaseFree
<1>14. ASSUME NEW s \in Sessions, TakeoverLook(s) PROVE WindowInv'
  BY <1>14 DEF TakeoverLook
<1>15. ASSUME NEW s \in Sessions, WriteForced(s) PROVE WindowInv'
  BY <1>15 DEF WriteForced, Grant, Looking
<1>16. ASSUME NEW s \in Sessions, Confirm(s) PROVE WindowInv'
  BY <1>16 DEF Confirm, BeginConfirm
<1>17. ASSUME NEW s \in Sessions, WriteAttached(s) PROVE WindowInv'
  <2> DEFINE u == call[s].transfer
  <2>1. /\ u \in Transfers
        /\ record' = [record EXCEPT ![u] = [@ EXCEPT !.status = "attached",
          !.to = call[s].seen]]
    BY <1>17, AttachedUpdate
  <2>2. \A t \in Transfers : record'[t].status = IF t = u THEN "attached" ELSE record[t].status
    BY <2>1 DEF Records
  <2> QED BY <1>17, <2>1, <2>2 DEF WriteAttached
<1>18. ASSUME NEW s \in Sessions, WriteCompleted(s) PROVE WindowInv'
  <2> DEFINE u == call[s].transfer
  <2>1. /\ u \in Transfers
        /\ record' = [record EXCEPT ![u] = [@ EXCEPT !.status = "completed"]]
    BY <1>18 DEF WriteCompleted, SetStatus
  <2>2. \A t \in Transfers : record'[t].status = IF t = u THEN "completed" ELSE record[t].status
    BY <2>1 DEF Records
  <2> QED BY <1>18, <2>1, <2>2 DEF WriteCompleted
<1>19. ASSUME NEW s \in Sessions, CloseWindow(s) PROVE WindowInv'
  BY <1>19 DEF CloseWindow, ClearWindow
<1>20. ASSUME NEW s \in Sessions, Crash(s) PROVE WindowInv'
  BY <1>20 DEF Crash
<1>21. ASSUME NEW s \in Sessions, Restart(s) PROVE WindowInv'
  BY <1>21 DEF Restart
<1>22. CASE TokenExpires
  BY <1>22 DEF TokenExpires
<1>23. CASE WindowExpires
  BY <1>23 DEF WindowExpires
<1>24. CASE UNCHANGED transferVars
  BY <1>24 DEF transferVars, files, history, bounds
<1> QED
  BY <1>1, <1>2, <1>3, <1>4, <1>5, <1>6, <1>7, <1>8, <1>9, <1>10, <1>11, <1>12, <1>13, <1>14,
    <1>15, <1>16, <1>17, <1>18, <1>19, <1>20, <1>21, <1>22, <1>23, <1>24
  DEF TransferNext, CallStep, TransferStep, ConfirmStep

\* A window that is left behind was late, or its closing crashed.
LEMMA ClosingStep ==
  ASSUME TypeOK, WindowClosesWithTransfer, [TransferNext]_transferVars
  PROVE  WindowClosesWithTransfer'
<1> USE TransferAssumption DEF TypeOK, FilesOK, CallsOK, HistoryOK, BoundsOK,
      WindowClosesWithTransfer, UnderWay, NoWindow, Transfers
<1>1. ASSUME NEW s \in Sessions, BeginTransfer(s) PROVE WindowClosesWithTransfer'
  BY <1>1 DEF BeginTransfer
<1>2. ASSUME NEW s \in Sessions, BeginDetach(s) PROVE WindowClosesWithTransfer'
  BY <1>2 DEF BeginDetach
<1>3. ASSUME NEW s \in Sessions, DetachRead(s) PROVE WindowClosesWithTransfer'
  BY <1>3 DEF DetachRead
<1>4. ASSUME NEW s \in Sessions, WriteToken(s) PROVE WindowClosesWithTransfer'
  BY <1>4 DEF WriteToken
<1>5. ASSUME NEW s \in Sessions, WriteRecord(s) PROVE WindowClosesWithTransfer'
  BY <1>5 DEF WriteRecord
<1>6. ASSUME NEW s \in Sessions, Spawn(s) PROVE WindowClosesWithTransfer'
  BY <1>6 DEF Spawn
<1>7. ASSUME NEW s \in Sessions, SpawnFails(s) PROVE WindowClosesWithTransfer'
  BY <1>7 DEF SpawnFails
<1>8. ASSUME NEW s \in Sessions, WriteSpawned(s) PROVE WindowClosesWithTransfer'
  <2> DEFINE u == call[s].transfer
  <2>1. /\ u \in Transfers
        /\ record' = [record EXCEPT ![u] = [@ EXCEPT !.status = "spawned"]]
    BY <1>8 DEF WriteSpawned, SetStatus
  <2>2. \A t \in Transfers : record'[t].status = IF t = u THEN "spawned" ELSE record[t].status
    BY <2>1 DEF Records
  <2> QED BY <1>8, <2>1, <2>2 DEF WriteSpawned
<1>9. ASSUME NEW s \in Sessions, OpenWindow(s) PROVE WindowClosesWithTransfer'
  BY <1>9 DEF OpenWindow
<1>10. ASSUME NEW s \in Sessions, FailClear(s) PROVE WindowClosesWithTransfer'
  BY <1>10 DEF FailClear, ClearWindow
<1>11. ASSUME NEW s \in Sessions, WriteFailed(s) PROVE WindowClosesWithTransfer'
  <2> DEFINE u == call[s].transfer
  <2>1. /\ u \in Transfers
        /\ record' = [record EXCEPT ![u] = [@ EXCEPT !.status = "failed"]]
    BY <1>11 DEF WriteFailed, SetStatus
  <2>2. \A t \in Transfers : record'[t].status = IF t = u THEN "failed" ELSE record[t].status
    BY <2>1 DEF Records
  <2> QED BY <1>11, <2>1, <2>2 DEF WriteFailed
<1>12. ASSUME NEW s \in Sessions, AttachWithToken(s) PROVE WindowClosesWithTransfer'
  BY <1>12 DEF AttachWithToken, Grant
<1>13. ASSUME NEW s \in Sessions, ForceLook(s) PROVE WindowClosesWithTransfer'
  BY <1>13 DEF ForceLook, LeaseFree
<1>14. ASSUME NEW s \in Sessions, TakeoverLook(s) PROVE WindowClosesWithTransfer'
  BY <1>14 DEF TakeoverLook
<1>15. ASSUME NEW s \in Sessions, WriteForced(s) PROVE WindowClosesWithTransfer'
  BY <1>15 DEF WriteForced, Grant, Looking
<1>16. ASSUME NEW s \in Sessions, Confirm(s) PROVE WindowClosesWithTransfer'
  BY <1>16 DEF Confirm, BeginConfirm
<1>17. ASSUME NEW s \in Sessions, WriteAttached(s) PROVE WindowClosesWithTransfer'
  <2> DEFINE u == call[s].transfer
  <2>1. /\ u \in Transfers
        /\ record' = [record EXCEPT ![u] = [@ EXCEPT !.status = "attached",
          !.to = call[s].seen]]
    BY <1>17, AttachedUpdate
  <2>2. \A t \in Transfers : record'[t].status = IF t = u THEN "attached" ELSE record[t].status
    BY <2>1 DEF Records
  <2> QED BY <1>17, <2>1, <2>2 DEF WriteAttached
<1>18. ASSUME NEW s \in Sessions, WriteCompleted(s) PROVE WindowClosesWithTransfer'
  <2> DEFINE u == call[s].transfer
  <2>1. /\ u \in Transfers
        /\ record' = [record EXCEPT ![u] = [@ EXCEPT !.status = "completed"]]
    BY <1>18 DEF WriteCompleted, SetStatus
  <2>2. \A t \in Transfers : record'[t].status = IF t = u THEN "completed" ELSE record[t].status
    BY <2>1 DEF Records
  <2> QED BY <1>18, <2>1, <2>2 DEF WriteCompleted
<1>19. ASSUME NEW s \in Sessions, CloseWindow(s) PROVE WindowClosesWithTransfer'
  BY <1>19 DEF CloseWindow, ClearWindow
<1>20. ASSUME NEW s \in Sessions, Crash(s) PROVE WindowClosesWithTransfer'
  BY <1>20 DEF Crash
<1>21. ASSUME NEW s \in Sessions, Restart(s) PROVE WindowClosesWithTransfer'
  BY <1>21 DEF Restart
<1>22. CASE TokenExpires
  BY <1>22 DEF TokenExpires
<1>23. CASE WindowExpires
  BY <1>23 DEF WindowExpires
<1>24. CASE UNCHANGED transferVars
  BY <1>24 DEF transferVars, files, history, bounds
<1> QED
  BY <1>1, <1>2, <1>3, <1>4, <1>5, <1>6, <1>7, <1>8, <1>9, <1>10, <1>11, <1>12, <1>13, <1>14,
    <1>15, <1>16, <1>17, <1>18, <1>19, <1>20, <1>21, <1>22, <1>23, <1>24
  DEF TransferNext, CallStep, TransferStep, ConfirmStep

\* The transfer window stands for the transfer that is under way.
THEOREM TransferWindowAccounted == TransferSpec => []WindowAccounted
<1>1. TransferInit => WindowInv /\ WindowClosesWithTransfer
  BY DEF TransferInit, WindowInv, Protected, PreemptedThroughGap, WindowClosesWithTransfer,
    UnderWay, NoRecord
<1>2. WindowInv /\ WindowClosesWithTransfer /\ TypeOK /\ [TransferNext]_transferVars
        => WindowInv' /\ WindowClosesWithTransfer'
  BY WindowStep, ClosingStep
<1>3. WindowInv /\ WindowClosesWithTransfer => WindowAccounted
  BY DEF WindowInv, WindowAccounted
<1> QED BY <1>1, <1>2, <1>3, TransferTypeOK, PTL DEF TransferSpec

-----------------------------------------------------------------------------
(* The records *)

\* Before its transfer is recorded; after, and before its successor is recorded; of
\* these, while there is no successor.
Unrecorded == {"detach", "token", "record"}
Unborn == {"spawn", "clear", "fail"}
Recorded == Unborn \cup {"spawned"}
Starting == Unrecorded \cup Recorded

\* The attachment is the last one granted.
GrantTrue ==
  /\ attachment.session \in Sessions /\ attachment.generation \in Generations
  /\ granted[attachment.generation] = attachment.session

\* A record that names its successor names a grant; without one there is no tab, and
\* what has not begun is not recorded.
RecordHolds(t) ==
  /\ record[t].status \in {"attached", "completed"} =>
       /\ record[t].to = [session |-> SuccessorOf[t],
                          generation |-> record[t].from.generation + 1]
       /\ record[t].to.generation \in 1 .. attachment.generation
       /\ granted[record[t].to.generation] = SuccessorOf[t]
  /\ record[t].status \in {"none", "failed"} => life[SuccessorOf[t]] = "unborn"
  /\ t > begun => record[t].status = "none"

\* What a call will write to its record fits what the record says.
CallHolds(s) ==
  LET t == call[s].transfer IN
  /\ t <= begun
  /\ pc[s] \in Unrecorded /\ t # 0 => record[t].status = "none"
  /\ pc[s] \in Recorded => record[t].status = "initiated"
  /\ pc[s] \in Unborn => life[SuccessorOf[t]] = "unborn"
  /\ pc[s] = "attached" =>
       /\ SuccessorOf[t] = s /\ record[t].status = "spawned"
       /\ call[s].seen = [session |-> s, generation |-> record[t].from.generation + 1]
       /\ call[s].seen.generation \in 1 .. attachment.generation
       /\ granted[call[s].seen.generation] = s
  /\ pc[s] = "completed" => SuccessorOf[t] = s /\ record[t].status = "attached"

\* A transfer is carried out by one call.
OneStarter ==
  \A s, q \in Sessions :
    pc[s] \in Starting /\ pc[q] \in Starting
      /\ call[s].transfer # 0 /\ call[s].transfer = call[q].transfer => s = q

RecordInv ==
  /\ GrantTrue /\ OneStarter
  /\ \A t \in Transfers : RecordHolds(t)
  /\ \A q \in Sessions : CallHolds(q)

\* What the writes of a record change.
LEMMA StatusWritten ==
  ASSUME TypeOK, NEW s \in Sessions, NEW status, SetStatus(s, status),
         pc[s] \in {"spawned", "fail", "completed"}
  PROVE  /\ call[s].transfer \in Transfers
         /\ record'[call[s].transfer].status = status
         /\ record'[call[s].transfer].from = record[call[s].transfer].from
         /\ record'[call[s].transfer].to = record[call[s].transfer].to
         /\ \A t \in Transfers : t # call[s].transfer => record'[t] = record[t]
  BY DEF TypeOK, FilesOK, CallsOK, SetStatus, Records

LEMMA AttachedWritten ==
  ASSUME TypeOK, NEW s \in Sessions, WriteAttached(s)
  PROVE  /\ call[s].transfer \in Transfers
         /\ record'[call[s].transfer].status = "attached"
         /\ record'[call[s].transfer].from = record[call[s].transfer].from
         /\ record'[call[s].transfer].to = call[s].seen
         /\ \A t \in Transfers : t # call[s].transfer => record'[t] = record[t]
<1> DEFINE u == call[s].transfer
<1>1. /\ u \in Transfers
      /\ record' = [record EXCEPT ![u] = [@ EXCEPT !.status = "attached", !.to = call[s].seen]]
  BY AttachedUpdate
<1> QED BY <1>1 DEF TypeOK, FilesOK, Records

LEMMA InitiatedWritten ==
  ASSUME TypeOK, NEW s \in Sessions, WriteRecord(s)
  PROVE  /\ call[s].transfer \in Transfers
         /\ record'[call[s].transfer].status = "initiated"
         /\ record'[call[s].transfer].from = call[s].seen
         /\ \A t \in Transfers : t # call[s].transfer => record'[t] = record[t]
<1>1. call[s].transfer \in Transfers
  BY DEF TypeOK, FilesOK, CallsOK, WriteRecord
<1> QED BY <1>1 DEF TypeOK, FilesOK, WriteRecord

\* Nobody is a starter who was none.
LEMMA StarterStays ==
  ASSUME OneStarter,
         \A q \in Sessions : pc'[q] \in Starting /\ call'[q].transfer # 0 =>
           pc[q] \in Starting /\ call'[q].transfer = call[q].transfer
  PROVE  OneStarter'
  BY DEF OneStarter

\* A call holds if nothing it reads has changed.
LEMMA CallStays ==
  ASSUME TypeOK, NEW q \in Sessions, CallHolds(q),
         pc'[q] = pc[q], call'[q] = call[q], UNCHANGED <<attachment, granted, begun>>,
         pc[q] # "idle" /\ call[q].transfer \in Transfers =>
           /\ record'[call[q].transfer].status = record[call[q].transfer].status
           /\ record'[call[q].transfer].from = record[call[q].transfer].from
           /\ pc[q] \in Unborn =>
                life'[SuccessorOf[call[q].transfer]] = life[SuccessorOf[call[q].transfer]]
  PROVE  CallHolds(q)'
<1>1. call[q].transfer # 0 => call[q].transfer \in Transfers
  BY TransferAssumption DEF TransferAssumption, TypeOK, CallsOK, Calls, Transfers
<1>2. CASE pc[q] = "idle" \/ call[q].transfer \notin Transfers
  BY <1>1, <1>2 DEF TypeOK, CallsOK, CallHolds, Unrecorded, Unborn, Recorded
<1>3. CASE pc[q] # "idle" /\ call[q].transfer \in Transfers
  BY <1>3 DEF CallHolds
<1> QED BY <1>2, <1>3

\* A record that is left alone holds if its successor's life is left alone.
LEMMA RecordStays ==
  ASSUME NEW t \in Transfers, RecordHolds(t), record'[t] = record[t],
         UNCHANGED <<attachment, granted, begun>>,
         life'[SuccessorOf[t]] = life[SuccessorOf[t]]
  PROVE  RecordHolds(t)'
  BY DEF RecordHolds

\* A call that writes its record has it to itself.
LEMMA WriteHolds ==
  ASSUME TypeOK, RecordInv, NEW s \in Sessions, NEW u \in Transfers, u = call[s].transfer,
         pc[s] \in {"record", "spawned", "fail", "attached", "completed"},
         UNCHANGED <<attachment, granted, begun, life>>,
         \A t \in Transfers : t # u => record'[t] = record[t],
         \A q \in Sessions : q # s => pc'[q] = pc[q] /\ call'[q] = call[q],
         RecordHolds(u)', CallHolds(s)'
  PROVE  (\A t \in Transfers : RecordHolds(t))' /\ (\A q \in Sessions : CallHolds(q))'
<1>1. ASSUME NEW t \in Transfers PROVE RecordHolds(t)'
  <2>1. CASE t = u
    BY <2>1
  <2>2. CASE t # u
    BY <2>2, RecordStays DEF RecordInv
  <2> QED BY <2>1, <2>2
<1>2. ASSUME NEW q \in Sessions PROVE CallHolds(q)'
  <2>1. CASE q = s
    BY <2>1
  <2>2. CASE q # s /\ call[q].transfer # u
    BY <2>2, CallStays DEF RecordInv
  <2>3. CASE q # s /\ call[q].transfer = u
    <3>1. CallHolds(q) /\ CallHolds(s) /\ u # 0
      BY TransferAssumption DEF RecordInv, TransferAssumption, Transfers
    <3>2. pc[q] \notin Starting
      BY <2>3, <3>1 DEF RecordInv, OneStarter, CallHolds, Starting, Recorded, Unborn, Unrecorded
    <3>3. pc[q] \notin {"attached", "completed"}
      BY <2>3, <3>1 DEF CallHolds, Recorded, Unborn, Unrecorded
    <3> QED BY <2>3, <3>1, <3>2, <3>3 DEF CallHolds, Starting, Recorded
  <2> QED BY <2>1, <2>2, <2>3
<1> QED BY <1>1, <1>2

\* What each of these writes leaves holds.
LEMMA WritersHold ==
  ASSUME TypeOK, RecordInv, NEW s \in Sessions,
         \/ WriteRecord(s) \/ WriteSpawned(s) \/ WriteFailed(s)
         \/ WriteAttached(s) \/ WriteCompleted(s)
  PROVE  (\A t \in Transfers : RecordHolds(t))' /\ (\A q \in Sessions : CallHolds(q))'
<1>u. PICK u : u = call[s].transfer
  OBVIOUS
<1>0. CallHolds(s) /\ (u \in Transfers => RecordHolds(u) /\ u # 0) /\ begun \in Nat /\ u \in Nat
  BY <1>u, TransferAssumption DEF RecordInv, TypeOK, BoundsOK, CallsOK, Calls, Transfers,
    TransferAssumption
<1>1. CASE WriteRecord(s)
  <2>1. /\ u \in Transfers /\ record'[u].status = "initiated"
        /\ record'[u].from = call[s].seen
        /\ \A t \in Transfers : t # u => record'[t] = record[t]
    BY <1>u, <1>1, InitiatedWritten DEF WriteRecord
  <2>2. /\ pc[s] = "record" /\ pc'[s] = "spawn"
        /\ call'[s] = call[s]
        /\ UNCHANGED <<attachment, granted, begun, life>>
        /\ \A q \in Sessions : q # s => pc'[q] = pc[q] /\ call'[q] = call[q]
    BY <1>1 DEF WriteRecord, TypeOK, CallsOK
  <2>3. RecordHolds(u)'
    BY <2>1, <2>2, <1>0, <1>u DEF RecordHolds, CallHolds, Recorded, Unborn, Unrecorded
  <2>4. CallHolds(s)'
    BY <2>1, <2>2, <1>0, <1>u DEF CallHolds, RecordHolds, Recorded, Unborn, Unrecorded, NoCall
  <2> QED BY <2>1, <2>2, <2>3, <2>4, <1>u, WriteHolds
<1>2. CASE WriteSpawned(s)
  <2>1. /\ u \in Transfers /\ record'[u].status = "spawned"
        /\ record'[u].from = record[u].from /\ record'[u].to = record[u].to
        /\ \A t \in Transfers : t # u => record'[t] = record[t]
    BY <1>u, <1>2, StatusWritten DEF WriteSpawned
  <2>2. /\ pc[s] = "spawned" /\ pc'[s] = "open"
        /\ call'[s] = call[s]
        /\ UNCHANGED <<attachment, granted, begun, life>>
        /\ \A q \in Sessions : q # s => pc'[q] = pc[q] /\ call'[q] = call[q]
    BY <1>2 DEF WriteSpawned, TypeOK, CallsOK
  <2>3. RecordHolds(u)'
    BY <2>1, <2>2, <1>0, <1>u DEF RecordHolds, CallHolds, Recorded, Unborn, Unrecorded
  <2>4. CallHolds(s)'
    BY <2>1, <2>2, <1>0, <1>u DEF CallHolds, RecordHolds, Recorded, Unborn, Unrecorded, NoCall
  <2> QED BY <2>1, <2>2, <2>3, <2>4, <1>u, WriteHolds
<1>3. CASE WriteFailed(s)
  <2>1. /\ u \in Transfers /\ record'[u].status = "failed"
        /\ record'[u].from = record[u].from /\ record'[u].to = record[u].to
        /\ \A t \in Transfers : t # u => record'[t] = record[t]
    BY <1>u, <1>3, StatusWritten DEF WriteFailed
  <2>2. /\ pc[s] = "fail" /\ pc'[s] = "idle"
        /\ call'[s] = NoCall
        /\ UNCHANGED <<attachment, granted, begun, life>>
        /\ \A q \in Sessions : q # s => pc'[q] = pc[q] /\ call'[q] = call[q]
    BY <1>3 DEF WriteFailed, TypeOK, CallsOK
  <2>3. RecordHolds(u)'
    BY <2>1, <2>2, <1>0, <1>u DEF RecordHolds, CallHolds, Recorded, Unborn, Unrecorded
  <2>4. CallHolds(s)'
    BY <2>1, <2>2, <1>0, <1>u DEF CallHolds, RecordHolds, Recorded, Unborn, Unrecorded, NoCall
  <2> QED BY <2>1, <2>2, <2>3, <2>4, <1>u, WriteHolds
<1>4. CASE WriteAttached(s)
  <2>1. /\ u \in Transfers /\ record'[u].status = "attached"
        /\ record'[u].from = record[u].from /\ record'[u].to = call[s].seen
        /\ \A t \in Transfers : t # u => record'[t] = record[t]
    BY <1>u, <1>4, AttachedWritten DEF WriteAttached
  <2>2. /\ pc[s] = "attached" /\ pc'[s] = "completed"
        /\ call'[s] = call[s]
        /\ UNCHANGED <<attachment, granted, begun, life>>
        /\ \A q \in Sessions : q # s => pc'[q] = pc[q] /\ call'[q] = call[q]
    BY <1>4 DEF WriteAttached, TypeOK, CallsOK
  <2>3. RecordHolds(u)'
    <3>1. /\ SuccessorOf[u] = s /\ u <= begun
          /\ record'[u].to = [session |-> SuccessorOf[u],
            generation |-> record'[u].from.generation + 1]
          /\ record'[u].to.generation \in 1 .. attachment.generation
          /\ granted[record'[u].to.generation] = SuccessorOf[u]
      BY <2>1, <2>2, <1>0, <1>u DEF CallHolds
    <3> QED BY <2>1, <2>2, <1>0, <1>u, <3>1 DEF RecordHolds
  <2>4. CallHolds(s)'
    BY <2>1, <2>2, <1>0, <1>u DEF CallHolds, RecordHolds, Recorded, Unborn, Unrecorded, NoCall
  <2> QED BY <2>1, <2>2, <2>3, <2>4, <1>u, WriteHolds
<1>5. CASE WriteCompleted(s)
  <2>1. /\ u \in Transfers /\ record'[u].status = "completed"
        /\ record'[u].from = record[u].from /\ record'[u].to = record[u].to
        /\ \A t \in Transfers : t # u => record'[t] = record[t]
    BY <1>u, <1>5, StatusWritten DEF WriteCompleted
  <2>2. /\ pc[s] = "completed" /\ pc'[s] = "close"
        /\ call'[s] = call[s]
        /\ UNCHANGED <<attachment, granted, begun, life>>
        /\ \A q \in Sessions : q # s => pc'[q] = pc[q] /\ call'[q] = call[q]
    BY <1>5 DEF WriteCompleted, TypeOK, CallsOK
  <2>3. RecordHolds(u)'
    BY <2>1, <2>2, <1>0, <1>u DEF RecordHolds, CallHolds, Recorded, Unborn, Unrecorded
  <2>4. CallHolds(s)'
    BY <2>1, <2>2, <1>0, <1>u DEF CallHolds, RecordHolds, Recorded, Unborn, Unrecorded, NoCall
  <2> QED BY <2>1, <2>2, <2>3, <2>4, <1>u, WriteHolds
<1> QED BY <1>1, <1>2, <1>3, <1>4, <1>5

\* An attachment is granted before it is there.
LEMMA GrantStep ==
  ASSUME TypeOK, RecordInv, [TransferNext]_transferVars
  PROVE  GrantTrue'
<1> USE TransferAssumption DEF TypeOK, FilesOK, CallsOK, HistoryOK, BoundsOK, RecordInv,
      GrantTrue, Owners, Generations
<1>1. ASSUME NEW s \in Sessions, BeginTransfer(s) PROVE GrantTrue'
  BY <1>1 DEF BeginTransfer
<1>2. ASSUME NEW s \in Sessions, BeginDetach(s) PROVE GrantTrue'
  BY <1>2 DEF BeginDetach
<1>3. ASSUME NEW s \in Sessions, DetachRead(s) PROVE GrantTrue'
  BY <1>3 DEF DetachRead
<1>4. ASSUME NEW s \in Sessions, WriteToken(s) PROVE GrantTrue'
  BY <1>4 DEF WriteToken
<1>5. ASSUME NEW s \in Sessions, WriteRecord(s) PROVE GrantTrue'
  BY <1>5 DEF WriteRecord
<1>6. ASSUME NEW s \in Sessions, Spawn(s) PROVE GrantTrue'
  BY <1>6 DEF Spawn
<1>7. ASSUME NEW s \in Sessions, SpawnFails(s) PROVE GrantTrue'
  BY <1>7 DEF SpawnFails
<1>8. ASSUME NEW s \in Sessions, WriteSpawned(s) PROVE GrantTrue'
  BY <1>8 DEF WriteSpawned, SetStatus
<1>9. ASSUME NEW s \in Sessions, OpenWindow(s) PROVE GrantTrue'
  BY <1>9 DEF OpenWindow
<1>10. ASSUME NEW s \in Sessions, FailClear(s) PROVE GrantTrue'
  BY <1>10 DEF FailClear, ClearWindow
<1>11. ASSUME NEW s \in Sessions, WriteFailed(s) PROVE GrantTrue'
  BY <1>11 DEF WriteFailed, SetStatus
<1>12. ASSUME NEW s \in Sessions, AttachWithToken(s) PROVE GrantTrue'
  BY <1>12 DEF AttachWithToken, Grant
<1>13. ASSUME NEW s \in Sessions, ForceLook(s) PROVE GrantTrue'
  BY <1>13 DEF ForceLook, LeaseFree
<1>14. ASSUME NEW s \in Sessions, TakeoverLook(s) PROVE GrantTrue'
  BY <1>14 DEF TakeoverLook
<1>15. ASSUME NEW s \in Sessions, WriteForced(s) PROVE GrantTrue'
  BY <1>15 DEF WriteForced, Grant, Looking
<1>16. ASSUME NEW s \in Sessions, Confirm(s) PROVE GrantTrue'
  BY <1>16 DEF Confirm, BeginConfirm
<1>17. ASSUME NEW s \in Sessions, WriteAttached(s) PROVE GrantTrue'
  BY <1>17 DEF WriteAttached
<1>18. ASSUME NEW s \in Sessions, WriteCompleted(s) PROVE GrantTrue'
  BY <1>18 DEF WriteCompleted, SetStatus
<1>19. ASSUME NEW s \in Sessions, CloseWindow(s) PROVE GrantTrue'
  BY <1>19 DEF CloseWindow, ClearWindow
<1>20. ASSUME NEW s \in Sessions, Crash(s) PROVE GrantTrue'
  BY <1>20 DEF Crash
<1>21. ASSUME NEW s \in Sessions, Restart(s) PROVE GrantTrue'
  BY <1>21 DEF Restart
<1>22. CASE TokenExpires
  BY <1>22 DEF TokenExpires
<1>23. CASE WindowExpires
  BY <1>23 DEF WindowExpires
<1>24. CASE UNCHANGED transferVars
  BY <1>24 DEF transferVars, files, history, bounds
<1> QED
  BY <1>1, <1>2, <1>3, <1>4, <1>5, <1>6, <1>7, <1>8, <1>9, <1>10, <1>11, <1>12, <1>13, <1>14,
    <1>15, <1>16, <1>17, <1>18, <1>19, <1>20, <1>21, <1>22, <1>23, <1>24
  DEF TransferNext, CallStep, TransferStep, ConfirmStep

\* Nobody takes up the transfer of another call.
LEMMA StarterStep ==
  ASSUME TypeOK, RecordInv, [TransferNext]_transferVars
  PROVE  OneStarter'
<1> USE TransferAssumption DEF TypeOK, FilesOK, CallsOK, HistoryOK, BoundsOK, RecordInv,
      OneStarter, CallHolds, Transfers, NoCall, Calls, Unrecorded, Unborn, Recorded, Starting
<1>1. ASSUME NEW s \in Sessions, BeginTransfer(s) PROVE OneStarter'
  <2>1. ASSUME NEW q \in Sessions, pc'[q] \in Starting, call'[q].transfer # 0
        PROVE  IF q = s THEN call'[q].transfer = begun + 1
               ELSE /\ pc[q] \in Starting /\ call'[q].transfer = call[q].transfer
                    /\ call[q].transfer <= begun
    BY <1>1, <2>1 DEF BeginTransfer
  <2> SUFFICES ASSUME NEW p \in Sessions, NEW q \in Sessions,
                      pc'[p] \in Starting, pc'[q] \in Starting,
                      call'[p].transfer # 0, call'[p].transfer = call'[q].transfer
               PROVE  p = q
    BY DEF OneStarter
  <2>2. CASE p # s /\ q # s
    BY <2>1, <2>2
  <2>3. CASE p = s \/ q = s
    BY <2>1, <2>3
  <2> QED BY <2>2, <2>3
<1>2. ASSUME NEW s \in Sessions, BeginDetach(s) PROVE OneStarter'
  BY <1>2 DEF BeginDetach
<1>3. ASSUME NEW s \in Sessions, DetachRead(s) PROVE OneStarter'
  <2>1. ASSUME NEW q \in Sessions, pc'[q] \in Starting, call'[q].transfer # 0
        PROVE  pc[q] \in Starting /\ call'[q].transfer = call[q].transfer
    <3>1. CASE q = s
      BY <1>3, <2>1, <3>1 DEF DetachRead
    <3>2. CASE q # s
      BY <1>3, <2>1, <3>2 DEF DetachRead
    <3> QED BY <3>1, <3>2
  <2> QED BY <2>1, StarterStays
<1>4. ASSUME NEW s \in Sessions, WriteToken(s) PROVE OneStarter'
  BY <1>4 DEF WriteToken
<1>5. ASSUME NEW s \in Sessions, WriteRecord(s) PROVE OneStarter'
  BY <1>5 DEF WriteRecord
<1>6. ASSUME NEW s \in Sessions, Spawn(s) PROVE OneStarter'
  BY <1>6 DEF Spawn
<1>7. ASSUME NEW s \in Sessions, SpawnFails(s) PROVE OneStarter'
  BY <1>7 DEF SpawnFails
<1>8. ASSUME NEW s \in Sessions, WriteSpawned(s) PROVE OneStarter'
  BY <1>8 DEF WriteSpawned, SetStatus
<1>9. ASSUME NEW s \in Sessions, OpenWindow(s) PROVE OneStarter'
  BY <1>9 DEF OpenWindow
<1>10. ASSUME NEW s \in Sessions, FailClear(s) PROVE OneStarter'
  <2>1. ASSUME NEW q \in Sessions, pc'[q] \in Starting, call'[q].transfer # 0
        PROVE  pc[q] \in Starting /\ call'[q].transfer = call[q].transfer
    <3>1. CASE q = s
      BY <1>10, <2>1, <3>1 DEF FailClear, ClearWindow
    <3>2. CASE q # s
      BY <1>10, <2>1, <3>2 DEF FailClear, ClearWindow
    <3> QED BY <3>1, <3>2
  <2> QED BY <2>1, StarterStays
<1>11. ASSUME NEW s \in Sessions, WriteFailed(s) PROVE OneStarter'
  BY <1>11 DEF WriteFailed, SetStatus
<1>12. ASSUME NEW s \in Sessions, AttachWithToken(s) PROVE OneStarter'
  BY <1>12 DEF AttachWithToken, Grant
<1>13. ASSUME NEW s \in Sessions, ForceLook(s) PROVE OneStarter'
  BY <1>13 DEF ForceLook, LeaseFree
<1>14. ASSUME NEW s \in Sessions, TakeoverLook(s) PROVE OneStarter'
  BY <1>14 DEF TakeoverLook
<1>15. ASSUME NEW s \in Sessions, WriteForced(s) PROVE OneStarter'
  BY <1>15 DEF WriteForced, Grant, Looking
<1>16. ASSUME NEW s \in Sessions, Confirm(s) PROVE OneStarter'
  BY <1>16 DEF Confirm, BeginConfirm
<1>17. ASSUME NEW s \in Sessions, WriteAttached(s) PROVE OneStarter'
  BY <1>17 DEF WriteAttached
<1>18. ASSUME NEW s \in Sessions, WriteCompleted(s) PROVE OneStarter'
  BY <1>18 DEF WriteCompleted, SetStatus
<1>19. ASSUME NEW s \in Sessions, CloseWindow(s) PROVE OneStarter'
  <2>1. ASSUME NEW q \in Sessions, pc'[q] \in Starting, call'[q].transfer # 0
        PROVE  pc[q] \in Starting /\ call'[q].transfer = call[q].transfer
    <3>1. CASE q = s
      BY <1>19, <2>1, <3>1 DEF CloseWindow, ClearWindow
    <3>2. CASE q # s
      BY <1>19, <2>1, <3>2 DEF CloseWindow, ClearWindow
    <3> QED BY <3>1, <3>2
  <2> QED BY <2>1, StarterStays
<1>20. ASSUME NEW s \in Sessions, Crash(s) PROVE OneStarter'
  BY <1>20 DEF Crash
<1>21. ASSUME NEW s \in Sessions, Restart(s) PROVE OneStarter'
  BY <1>21 DEF Restart
<1>22. CASE TokenExpires
  BY <1>22 DEF TokenExpires
<1>23. CASE WindowExpires
  BY <1>23 DEF WindowExpires
<1>24. CASE UNCHANGED transferVars
  BY <1>24 DEF transferVars, files, history, bounds
<1> QED
  BY <1>1, <1>2, <1>3, <1>4, <1>5, <1>6, <1>7, <1>8, <1>9, <1>10, <1>11, <1>12, <1>13, <1>14,
    <1>15, <1>16, <1>17, <1>18, <1>19, <1>20, <1>21, <1>22, <1>23, <1>24
  DEF TransferNext, CallStep, TransferStep, ConfirmStep

\* What is written to a record holds, and stays true.
LEMMA RecordsStep ==
  ASSUME TypeOK, RecordInv, [TransferNext]_transferVars
  PROVE  (\A t \in Transfers : RecordHolds(t))'
<1> USE TransferAssumption DEF TypeOK, FilesOK, CallsOK, HistoryOK, BoundsOK, RecordInv,
      GrantTrue, RecordHolds, CallHolds, UnderWay, Owners, Generations, Transfers, NoRecord,
      Unrecorded, Unborn, Recorded, Starting
<1>1. ASSUME NEW s \in Sessions, BeginTransfer(s) PROVE (\A t \in Transfers : RecordHolds(t))'
  BY <1>1 DEF BeginTransfer
<1>2. ASSUME NEW s \in Sessions, BeginDetach(s) PROVE (\A t \in Transfers : RecordHolds(t))'
  BY <1>2 DEF BeginDetach
<1>3. ASSUME NEW s \in Sessions, DetachRead(s) PROVE (\A t \in Transfers : RecordHolds(t))'
  BY <1>3 DEF DetachRead
<1>4. ASSUME NEW s \in Sessions, WriteToken(s) PROVE (\A t \in Transfers : RecordHolds(t))'
  BY <1>4 DEF WriteToken
<1>5. ASSUME NEW s \in Sessions, WriteRecord(s) PROVE (\A t \in Transfers : RecordHolds(t))'
  BY <1>5, WritersHold
<1>6. ASSUME NEW s \in Sessions, Spawn(s) PROVE (\A t \in Transfers : RecordHolds(t))'
  <2> DEFINE u == call[s].transfer
  <2> TAKE t \in Transfers
  <2>1. /\ u \in Transfers /\ SuccessorOf[u] \in Sessions /\ record[u].status = "initiated"
        /\ life' = [life EXCEPT ![SuccessorOf[u]] = "up"]
        /\ UNCHANGED <<attachment, granted, begun, record>>
    <3>1. u \in Transfers /\ pc[s] = "spawn"
      BY <1>6 DEF Spawn
    <3>2. record[u].status = "initiated"
      BY <3>1
    <3> QED BY <1>6, <3>1, <3>2 DEF Spawn
  <2>2. CASE t = u
    BY <2>1, <2>2
  <2>3. CASE t # u
    BY <2>1, <2>3, RecordStays
  <2> QED BY <2>2, <2>3
<1>7. ASSUME NEW s \in Sessions, SpawnFails(s) PROVE (\A t \in Transfers : RecordHolds(t))'
  BY <1>7 DEF SpawnFails
<1>8. ASSUME NEW s \in Sessions, WriteSpawned(s) PROVE (\A t \in Transfers : RecordHolds(t))'
  BY <1>8, WritersHold
<1>9. ASSUME NEW s \in Sessions, OpenWindow(s) PROVE (\A t \in Transfers : RecordHolds(t))'
  BY <1>9 DEF OpenWindow
<1>10. ASSUME NEW s \in Sessions, FailClear(s) PROVE (\A t \in Transfers : RecordHolds(t))'
  BY <1>10 DEF FailClear, ClearWindow
<1>11. ASSUME NEW s \in Sessions, WriteFailed(s) PROVE (\A t \in Transfers : RecordHolds(t))'
  BY <1>11, WritersHold
<1>12. ASSUME NEW s \in Sessions,
      AttachWithToken(s) PROVE (\A t \in Transfers : RecordHolds(t))'
  BY <1>12 DEF AttachWithToken, Grant
<1>13. ASSUME NEW s \in Sessions, ForceLook(s) PROVE (\A t \in Transfers : RecordHolds(t))'
  BY <1>13 DEF ForceLook, LeaseFree
<1>14. ASSUME NEW s \in Sessions, TakeoverLook(s) PROVE (\A t \in Transfers : RecordHolds(t))'
  BY <1>14 DEF TakeoverLook
<1>15. ASSUME NEW s \in Sessions, WriteForced(s) PROVE (\A t \in Transfers : RecordHolds(t))'
  BY <1>15 DEF WriteForced, Grant, Looking
<1>16. ASSUME NEW s \in Sessions, Confirm(s) PROVE (\A t \in Transfers : RecordHolds(t))'
  BY <1>16 DEF Confirm, BeginConfirm
<1>17. ASSUME NEW s \in Sessions, WriteAttached(s) PROVE (\A t \in Transfers : RecordHolds(t))'
  BY <1>17, WritersHold
<1>18. ASSUME NEW s \in Sessions, WriteCompleted(s) PROVE (\A t \in Transfers : RecordHolds(t))'
  BY <1>18, WritersHold
<1>19. ASSUME NEW s \in Sessions, CloseWindow(s) PROVE (\A t \in Transfers : RecordHolds(t))'
  BY <1>19 DEF CloseWindow, ClearWindow
<1>20. ASSUME NEW s \in Sessions, Crash(s) PROVE (\A t \in Transfers : RecordHolds(t))'
  BY <1>20 DEF Crash
<1>21. ASSUME NEW s \in Sessions, Restart(s) PROVE (\A t \in Transfers : RecordHolds(t))'
  BY <1>21 DEF Restart
<1>22. CASE TokenExpires
  BY <1>22 DEF TokenExpires
<1>23. CASE WindowExpires
  BY <1>23 DEF WindowExpires
<1>24. CASE UNCHANGED transferVars
  BY <1>24 DEF transferVars, files, history, bounds
<1> QED
  BY <1>1, <1>2, <1>3, <1>4, <1>5, <1>6, <1>7, <1>8, <1>9, <1>10, <1>11, <1>12, <1>13, <1>14,
    <1>15, <1>16, <1>17, <1>18, <1>19, <1>20, <1>21, <1>22, <1>23, <1>24
  DEF TransferNext, CallStep, TransferStep, ConfirmStep

\* What a call will write holds until it is written.
LEMMA CallsHoldStep ==
  ASSUME TypeOK, RecordInv, [TransferNext]_transferVars
  PROVE  (\A q \in Sessions : CallHolds(q))'
<1> USE TransferAssumption DEF TypeOK, FilesOK, CallsOK, HistoryOK, BoundsOK, RecordInv,
      GrantTrue, OneStarter, RecordHolds, CallHolds, UnderWay, Owners, Generations, Transfers,
      NoCall, Calls, Unrecorded, Unborn, Recorded, Starting
<1>1. ASSUME NEW s \in Sessions, BeginTransfer(s) PROVE (\A q \in Sessions : CallHolds(q))'
  <2> HIDE DEF TypeOK, FilesOK, CallsOK, HistoryOK, BoundsOK, RecordInv, GrantTrue, OneStarter,
      RecordHolds, CallHolds, Owners, Generations, Transfers, Calls, NoCall, Starting,
      Recorded, Unborn, Unrecorded
  <2> TAKE q \in Sessions
  <2>1. /\ begun \in Nat /\ begun + 1 \in Transfers /\ begun' = begun + 1
        /\ UNCHANGED <<record, life, attachment, granted>>
    BY <1>1 DEF BeginTransfer, TypeOK, BoundsOK, Transfers
  <2>2. CASE q = s
    <3>1. pc'[q] = "detach" /\ call'[q].transfer = begun + 1
      BY <1>1, <2>2 DEF BeginTransfer, TypeOK, CallsOK
    <3>2. RecordHolds(begun + 1) /\ begun + 1 > begun
      BY <2>1 DEF RecordInv
    <3>3. record[begun + 1].status = "none"
      BY <3>2 DEF RecordHolds
    <3> QED BY <2>1, <2>2, <3>1, <3>3 DEF CallHolds, Unrecorded, Unborn, Recorded
  <2>3. CASE q # s
    <3>1. pc'[q] = pc[q] /\ call'[q] = call[q] /\ call[q].transfer \in Nat
      BY <1>1, <2>3 DEF BeginTransfer, TypeOK, CallsOK, Calls
    <3>2. CallHolds(q)
      BY DEF RecordInv
    <3> QED BY <2>1, <3>1, <3>2 DEF CallHolds
  <2> QED BY <2>2, <2>3
<1>2. ASSUME NEW s \in Sessions, BeginDetach(s) PROVE (\A q \in Sessions : CallHolds(q))'
  BY <1>2 DEF BeginDetach
<1>3. ASSUME NEW s \in Sessions, DetachRead(s) PROVE (\A q \in Sessions : CallHolds(q))'
  <2> HIDE DEF TypeOK, FilesOK, CallsOK, HistoryOK, BoundsOK, RecordInv, GrantTrue, OneStarter,
      RecordHolds, CallHolds, Owners, Generations, Transfers, Calls, NoCall, Starting,
      Recorded, Unborn, Unrecorded
  <2> TAKE q \in Sessions
  <2>1. CallHolds(q) /\ UNCHANGED <<attachment, granted, begun, record, life>>
    BY <1>3 DEF DetachRead, RecordInv
  <2>2. CASE q = s
    <3>1. \/ pc'[s] = "token" /\ call'[s].transfer = call[s].transfer
          \/ pc'[s] = "idle" /\ call'[s].transfer = 0
      BY <1>3 DEF DetachRead, TypeOK, CallsOK, Calls, NoCall
    <3>2. pc[s] = "detach" /\ begun \in Nat
      BY <1>3 DEF DetachRead, TypeOK, BoundsOK
    <3> QED BY <2>1, <2>2, <3>1, <3>2 DEF CallHolds, Unrecorded, Unborn, Recorded
  <2>3. CASE q # s
    <3>1. pc'[q] = pc[q] /\ call'[q] = call[q]
      BY <1>3, <2>3 DEF DetachRead, TypeOK, CallsOK
    <3> QED BY <2>1, <3>1, CallStays
  <2> QED BY <2>2, <2>3
<1>4. ASSUME NEW s \in Sessions, WriteToken(s) PROVE (\A q \in Sessions : CallHolds(q))'
  <2> HIDE DEF TypeOK, FilesOK, CallsOK, HistoryOK, BoundsOK, RecordInv, GrantTrue, OneStarter,
      RecordHolds, CallHolds, Owners, Generations, Transfers, Calls, NoCall, Starting,
      Recorded, Unborn, Unrecorded
  <2> TAKE q \in Sessions
  <2>1. CallHolds(q) /\ UNCHANGED <<attachment, granted, begun, record, life>>
    BY <1>4 DEF WriteToken, RecordInv
  <2>2. CASE q = s
    <3>1. \/ pc'[s] = "record" /\ call'[s].transfer = call[s].transfer
          \/ pc'[s] = "idle" /\ call'[s].transfer = 0
      BY <1>4 DEF WriteToken, TypeOK, CallsOK, NoCall
    <3>2. pc[s] = "token" /\ begun \in Nat
      BY <1>4 DEF WriteToken, TypeOK, BoundsOK
    <3> QED BY <2>1, <2>2, <3>1, <3>2 DEF CallHolds, Unrecorded, Unborn, Recorded
  <2>3. CASE q # s
    <3>1. pc'[q] = pc[q] /\ call'[q] = call[q]
      BY <1>4, <2>3 DEF WriteToken, TypeOK, CallsOK
    <3> QED BY <2>1, <3>1, CallStays
  <2> QED BY <2>2, <2>3
<1>5. ASSUME NEW s \in Sessions, WriteRecord(s) PROVE (\A q \in Sessions : CallHolds(q))'
  BY <1>5, WritersHold
<1>6. ASSUME NEW s \in Sessions, Spawn(s) PROVE (\A q \in Sessions : CallHolds(q))'
  <2> HIDE DEF TypeOK, FilesOK, CallsOK, HistoryOK, BoundsOK, RecordInv, GrantTrue, OneStarter,
      RecordHolds, CallHolds, Owners, Generations, Transfers, Calls, NoCall, Starting,
      Recorded, Unborn, Unrecorded
  <2> DEFINE u == call[s].transfer
  <2> TAKE q \in Sessions
  <2>1. /\ u \in Transfers /\ SuccessorOf[u] \in Sessions /\ pc[s] = "spawn"
        /\ life' = [life EXCEPT ![SuccessorOf[u]] = "up"]
        /\ UNCHANGED <<attachment, granted, begun, record, call>>
    BY <1>6 DEF Spawn, TypeOK, CallsOK
  <2>2. CallHolds(q) /\ CallHolds(s)
    BY DEF RecordInv
  <2>3. CASE q = s
    <3>1. pc'[s] = "spawned"
      BY <1>6 DEF Spawn, TypeOK, CallsOK
    <3> QED BY <2>1, <2>2, <2>3, <3>1 DEF CallHolds, Unrecorded, Unborn, Recorded
  <2>4. CASE q # s
    <3>1. pc'[q] = pc[q] /\ call'[q] = call[q]
      BY <1>6, <2>1, <2>4 DEF Spawn, TypeOK, CallsOK
    <3>2. ASSUME pc[q] \in Unborn, call[q].transfer \in Transfers
          PROVE  life'[SuccessorOf[call[q].transfer]] = life[SuccessorOf[call[q].transfer]]
      <4>1. u # 0
        BY <2>1 DEF Transfers
      <4>2. call[q].transfer # u
        BY <2>1, <2>4, <3>2, <4>1 DEF RecordInv, OneStarter, Starting, Recorded, Unborn
      <4>3. SuccessorOf[call[q].transfer] # SuccessorOf[u]
        BY <2>1, <3>2, <4>2
      <4> QED BY <2>1, <3>2, <4>3 DEF TypeOK, CallsOK
    <3> QED BY <2>1, <2>2, <3>1, <3>2, CallStays
  <2> QED BY <2>3, <2>4
<1>7. ASSUME NEW s \in Sessions, SpawnFails(s) PROVE (\A q \in Sessions : CallHolds(q))'
  BY <1>7 DEF SpawnFails
<1>8. ASSUME NEW s \in Sessions, WriteSpawned(s) PROVE (\A q \in Sessions : CallHolds(q))'
  BY <1>8, WritersHold
<1>9. ASSUME NEW s \in Sessions, OpenWindow(s) PROVE (\A q \in Sessions : CallHolds(q))'
  BY <1>9 DEF OpenWindow
<1>10. ASSUME NEW s \in Sessions, FailClear(s) PROVE (\A q \in Sessions : CallHolds(q))'
  BY <1>10 DEF FailClear, ClearWindow
<1>11. ASSUME NEW s \in Sessions, WriteFailed(s) PROVE (\A q \in Sessions : CallHolds(q))'
  BY <1>11, WritersHold
<1>12. ASSUME NEW s \in Sessions, AttachWithToken(s) PROVE (\A q \in Sessions : CallHolds(q))'
  <2> HIDE DEF TypeOK, FilesOK, CallsOK, HistoryOK, BoundsOK, RecordInv, GrantTrue, OneStarter,
      RecordHolds, CallHolds, Owners, Generations, Transfers, Calls, NoCall, Starting,
      Recorded, Unborn, Unrecorded
  <2> TAKE q \in Sessions
  <2>1. CallHolds(q) /\ UNCHANGED <<begun, record, life, pc, call>>
    BY <1>12 DEF AttachWithToken, RecordInv
  <2>2. /\ attachment.generation \in Nat /\ attachment'.generation = attachment.generation + 1
        /\ \A g \in 1 .. attachment.generation : granted'[g] = granted[g]
    BY <1>12 DEF AttachWithToken, Grant, TypeOK, FilesOK, HistoryOK, Owners, Generations
  <2>3. \A g \in 1 .. attachment.generation : g \in 1 .. attachment'.generation
    BY <2>2
  <2> QED BY <2>1, <2>2, <2>3 DEF CallHolds
<1>13. ASSUME NEW s \in Sessions, ForceLook(s) PROVE (\A q \in Sessions : CallHolds(q))'
  BY <1>13 DEF ForceLook, LeaseFree
<1>14. ASSUME NEW s \in Sessions, TakeoverLook(s) PROVE (\A q \in Sessions : CallHolds(q))'
  BY <1>14 DEF TakeoverLook
<1>15. ASSUME NEW s \in Sessions, WriteForced(s) PROVE (\A q \in Sessions : CallHolds(q))'
  BY <1>15 DEF WriteForced, Grant, Looking
<1>16. ASSUME NEW s \in Sessions, Confirm(s) PROVE (\A q \in Sessions : CallHolds(q))'
  <2> HIDE DEF TypeOK, FilesOK, CallsOK, HistoryOK, BoundsOK, RecordInv, GrantTrue, OneStarter,
      RecordHolds, CallHolds, Owners, Generations, Transfers, Calls, NoCall, Starting,
      Recorded, Unborn, Unrecorded
  <2>1. PICK t \in Transfers : BeginConfirm(s, t)
    BY <1>16 DEF Confirm
  <2>2. /\ UNCHANGED <<record, begun, attachment, granted, life>>
        /\ SuccessorOf[t] = s /\ record[t].status = "spawned"
        /\ attachment = [session |-> s, generation |-> record[t].from.generation + 1]
    BY <2>1 DEF BeginConfirm, UnderWay
  <2> TAKE q \in Sessions
  <2>3. CASE q = s
    <3>1. pc'[q] = "attached" /\ call'[q].transfer = t /\ call'[q].seen = attachment
      BY <2>1, <2>3 DEF BeginConfirm, TypeOK, CallsOK
    <3>2. /\ t <= begun /\ granted[attachment.generation] = attachment.session
          /\ attachment.generation \in 1 .. attachment.generation
      BY <2>2 DEF RecordInv, RecordHolds, GrantTrue, TypeOK, BoundsOK, Transfers, Generations
    <3> QED BY <2>2, <2>3, <3>1, <3>2 DEF CallHolds, Unrecorded, Unborn, Recorded
  <2>4. CASE q # s
    <3>1. pc'[q] = pc[q] /\ call'[q] = call[q] /\ CallHolds(q)
      BY <2>1, <2>4 DEF BeginConfirm, TypeOK, CallsOK, RecordInv
    <3> QED BY <2>2, <3>1, CallStays
  <2> QED BY <2>3, <2>4
<1>17. ASSUME NEW s \in Sessions, WriteAttached(s) PROVE (\A q \in Sessions : CallHolds(q))'
  BY <1>17, WritersHold
<1>18. ASSUME NEW s \in Sessions, WriteCompleted(s) PROVE (\A q \in Sessions : CallHolds(q))'
  BY <1>18, WritersHold
<1>19. ASSUME NEW s \in Sessions, CloseWindow(s) PROVE (\A q \in Sessions : CallHolds(q))'
  <2> HIDE DEF TypeOK, FilesOK, CallsOK, HistoryOK, BoundsOK, RecordInv, GrantTrue, OneStarter,
      RecordHolds, CallHolds, Owners, Generations, Transfers, Calls, NoCall, Starting,
      Recorded, Unborn, Unrecorded
  <2> TAKE q \in Sessions
  <2>1. CallHolds(q) /\ UNCHANGED <<attachment, granted, begun, record, life>>
    BY <1>19 DEF CloseWindow, ClearWindow, RecordInv
  <2>2. CASE q = s
    <3>1. pc'[s] = "idle" /\ call'[s].transfer = 0 /\ begun \in Nat
      BY <1>19 DEF CloseWindow, ClearWindow, TypeOK, CallsOK, BoundsOK, NoCall
    <3> QED BY <2>1, <2>2, <3>1 DEF CallHolds, Unrecorded, Unborn, Recorded
  <2>3. CASE q # s
    <3>1. pc'[q] = pc[q] /\ call'[q] = call[q]
      BY <1>19, <2>3 DEF CloseWindow, ClearWindow, TypeOK, CallsOK
    <3> QED BY <2>1, <3>1, CallStays
  <2> QED BY <2>2, <2>3
<1>20. ASSUME NEW s \in Sessions, Crash(s) PROVE (\A q \in Sessions : CallHolds(q))'
  BY <1>20 DEF Crash
<1>21. ASSUME NEW s \in Sessions, Restart(s) PROVE (\A q \in Sessions : CallHolds(q))'
  BY <1>21 DEF Restart
<1>22. CASE TokenExpires
  BY <1>22 DEF TokenExpires
<1>23. CASE WindowExpires
  BY <1>23 DEF WindowExpires
<1>24. CASE UNCHANGED transferVars
  BY <1>24 DEF transferVars, files, history, bounds
<1> QED
  BY <1>1, <1>2, <1>3, <1>4, <1>5, <1>6, <1>7, <1>8, <1>9, <1>10, <1>11, <1>12, <1>13, <1>14,
    <1>15, <1>16, <1>17, <1>18, <1>19, <1>20, <1>21, <1>22, <1>23, <1>24
  DEF TransferNext, CallStep, TransferStep, ConfirmStep

\* A record names the session that was granted the generation it claims.
THEOREM TransferRecordTrue == TransferSpec => []RecordTrue
<1>1. TransferInit => RecordInv
  <2> SUFFICES ASSUME TransferInit PROVE RecordInv
    OBVIOUS
  <2>1. GrantTrue
    BY TransferAssumption DEF TransferAssumption, TransferInit, GrantTrue, Generations
  <2>2. OneStarter /\ \A s \in Sessions : CallHolds(s)
    BY DEF TransferInit, OneStarter, CallHolds, NoCall, Unrecorded, Unborn, Recorded, Starting
  <2>3. \A t \in Transfers : RecordHolds(t)
    BY TransferAssumption DEF TransferAssumption, TransferInit, RecordHolds, NoRecord, Newcomers
  <2> QED BY <2>1, <2>2, <2>3 DEF RecordInv
<1>2. RecordInv /\ TypeOK /\ [TransferNext]_transferVars => RecordInv'
  BY GrantStep, StarterStep, RecordsStep, CallsHoldStep DEF RecordInv
<1>3. RecordInv => RecordTrue
  BY DEF RecordInv, RecordHolds, RecordTrue
<1> QED BY <1>1, <1>2, <1>3, TransferTypeOK, PTL DEF TransferSpec

=============================================================================
