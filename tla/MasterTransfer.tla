--------------------------- MODULE MasterTransfer ---------------------------
(***************************************************************************)
(* runtime/master-transfer.ts over runtime/registry.ts: the owner issues a *)
(* handoff token, records the transfer, spawns a successor and opens the   *)
(* transfer window; the successor attaches with the token and confirms.    *)
(* Meanwhile a person may issue another token or force an attach, and a    *)
(* session may take the place of an owner whose process has gone.          *)
(*                                                                         *)
(* Each session is a process, which runs one call at a time; processes     *)
(* interleave at every read and write of the token, the transfer's record, *)
(* the window and the attachment.  An attach with a token is one step: it  *)
(* is a compare-and-swap under the registry's lease, see MasterRegistry.   *)
(* Nothing renews an owner's heartbeat but an attach, so a forced attach   *)
(* never finds it too young here.                                          *)
(***************************************************************************)
EXTENDS Naturals, FiniteSets

CONSTANTS
  Sessions, FirstOwner, Nobody,
  MaxTransfers, SuccessorOf,  \* the session that each transfer spawns
  MaxGeneration, MaxMishaps, MaxTokens  \* bounds on what is explored

Transfers == 1 .. MaxTransfers
Generations == 1 .. MaxGeneration
Newcomers == {SuccessorOf[t] : t \in Transfers}

ASSUME TransferAssumption ==
  /\ Nobody \notin Sessions /\ FirstOwner \in Sessions
  /\ MaxTransfers \in Nat /\ SuccessorOf \in [Transfers -> Sessions \ {FirstOwner}]
  /\ \A t, u \in Transfers : SuccessorOf[t] = SuccessorOf[u] => t = u
  /\ MaxGeneration \in Nat \ {0} /\ MaxMishaps \in Nat /\ MaxTokens \in Nat

VARIABLES
  attachment,  \* registry/attachments
  handoff,     \* registry/handoff, the last token: token t is transfer t's, 0 a person's
  window,      \* registry/transfer-window: the transfer it names, 0 if there is no file
  record,      \* state/master-transfers/<id>.json
  life,        \* is each session's process "unborn", "up" or "down"?
  pc, call,    \* each session's next step; its transfer, the attachments it has read
  granted,     \* history: the session that each generation was granted to
  outdated,    \* history: transfers whose token was replaced or expired unspent
  bared,       \* history: transfers under way that no window protects
  preempted,   \* history: transfers taken by force although a window protected them
  late,        \* history: transfers whose window was opened after they were confirmed
  begun, crashes, failures, tokens

files == <<attachment, handoff, window, record>>
history == <<granted, outdated, bared, preempted, late>>
bounds == <<begun, crashes, failures, tokens>>
transferVars == <<files, life, pc, call, history, bounds>>

Owners == [session : Sessions \cup {Nobody}, generation : 0 .. MaxGeneration]
NoOwner == [session |-> Nobody, generation |-> 0]
Handoffs == [token : 0 .. MaxTransfers, by : Owners, expired : BOOLEAN]
Windows == [transfer : 0 .. MaxTransfers, expired : BOOLEAN]
NoWindow == [transfer |-> 0, expired |-> FALSE]
Statuses == {"none", "initiated", "spawned", "attached", "completed", "failed"}
Records == [status : Statuses, from : Owners, to : Owners]
NoRecord == [status |-> "none", from |-> NoOwner, to |-> NoOwner]
\* The transfer of a call; the attachment it began with, and the one its token is for.
Calls == [transfer : 0 .. MaxTransfers, seen : Owners, held : Owners]
NoCall == [transfer |-> 0, seen |-> NoOwner, held |-> NoOwner]
Labels == {"idle", "detach", "token", "record", "spawn", "spawned", "open", "clear",
           "fail", "attached", "completed", "close", "force", "takeover"}

FilesOK ==
  /\ attachment \in Owners /\ handoff \in Handoffs /\ window \in Windows
  /\ record \in [Transfers -> Records]

\* Only a live session is within a call, and once it has a token its transfer is known;
\* one session at most holds the registry's lease for a forced attach.
CallsOK ==
  /\ life \in [Sessions -> {"unborn", "up", "down"}]
  /\ pc \in [Sessions -> Labels] /\ call \in [Sessions -> Calls]
  /\ \A s \in Sessions :
       /\ pc[s] # "idle" => life[s] = "up"
       /\ pc[s] \notin {"idle", "detach", "token", "force", "takeover"}
            => call[s].transfer \in Transfers
  /\ \A s, q \in Sessions : pc[s] = "force" /\ pc[q] = "force" => s = q

HistoryOK ==
  /\ granted \in [Generations -> Sessions \cup {Nobody}]
  /\ outdated \subseteq Transfers /\ bared \subseteq Transfers
  /\ preempted \subseteq Transfers /\ late \subseteq Transfers

BoundsOK ==
  /\ begun \in 0 .. MaxTransfers /\ tokens \in 0 .. MaxTokens
  /\ crashes \in Nat /\ failures \in Nat /\ crashes + failures <= MaxMishaps

\* The files, the calls, the histories and the bounds have their types.
TypeOK == FilesOK /\ CallsOK /\ HistoryOK /\ BoundsOK

TransferInit ==
  /\ attachment = [session |-> FirstOwner, generation |-> 1]
  /\ handoff = [token |-> 0, by |-> NoOwner, expired |-> TRUE]
  /\ window = NoWindow
  /\ record = [t \in Transfers |-> NoRecord]
  /\ life = [s \in Sessions |-> IF s \in Newcomers THEN "unborn" ELSE "up"]
  /\ pc = [s \in Sessions |-> "idle"] /\ call = [s \in Sessions |-> NoCall]
  /\ granted = [g \in Generations |-> IF g = 1 THEN FirstOwner ELSE Nobody]
  /\ outdated = {} /\ bared = {} /\ preempted = {} /\ late = {}
  /\ begun = 0 /\ crashes = 0 /\ failures = 0 /\ tokens = 0
-----------------------------------------------------------------------------
Goto(s, label) == pc' = [pc EXCEPT ![s] = label]
End(s) == Goto(s, "idle") /\ call' = [call EXCEPT ![s] = NoCall]
Idle(s) == life[s] = "up" /\ pc[s] = "idle"
Begin(s, label, c) == Idle(s) /\ Goto(s, label) /\ call' = [call EXCEPT ![s] = c]

UnderWay(t) == record[t].status = "spawned"
SetStatus(s, status) == record' = [record EXCEPT ![call[s].transfer].status = status]
Looking(s) == pc[s] \in {"force", "takeover"}

Unattached == UNCHANGED <<attachment, granted, preempted>>
Unopened == UNCHANGED <<window, bared, late>>
Untold == UNCHANGED <<handoff, outdated, tokens>>
Unlived == UNCHANGED <<life, crashes, failures, begun>>

\* A step that changes the record, and one that changes no file.
Recording == Unattached /\ Unopened /\ Untold /\ Unlived
Unwritten == UNCHANGED record /\ Unattached /\ Unopened /\ UNCHANGED <<handoff, outdated>>
-----------------------------------------------------------------------------
(* transferMaster *)

\* The owner begins: the attachment it reads now is the one it will record.
BeginTransfer(s) ==
  /\ attachment.session = s /\ begun < MaxTransfers
  /\ begun' = begun + 1
  /\ Begin(s, "detach", [transfer |-> begun + 1, seen |-> attachment, held |-> NoOwner])
  /\ Unwritten /\ UNCHANGED <<life, crashes, failures, tokens>>

\* master-detach: a person has a token issued without a transfer.
BeginDetach(s) ==
  /\ tokens < MaxTokens
  /\ tokens' = tokens + 1
  /\ Begin(s, "detach", NoCall)
  /\ Unwritten /\ Unlived

\* detachMaster reads the attachment again; a session that owns it no more is refused.
DetachRead(s) ==
  /\ pc[s] = "detach"
  /\ \/ attachment.session = s /\ Goto(s, "token")
        /\ call' = [call EXCEPT ![s].held = attachment]
     \/ attachment.session # s /\ End(s)
  /\ Unwritten /\ Unlived /\ UNCHANGED tokens

\* The new token takes the place of the last one, spent or not.
WriteToken(s) ==
  /\ pc[s] = "token"
  /\ handoff' = [token |-> call[s].transfer, by |-> call[s].held, expired |-> FALSE]
  /\ outdated' = outdated \cup {t \in Transfers :
                   t = handoff.token /\ record[t].status \in {"none", "initiated", "spawned"}
                   /\ attachment.session # SuccessorOf[t]}
  /\ IF call[s].transfer = 0 THEN End(s) ELSE Goto(s, "record") /\ UNCHANGED call
  /\ UNCHANGED <<record, tokens>> /\ Unattached /\ Unopened /\ Unlived

WriteRecord(s) ==
  /\ pc[s] = "record"
  /\ record' = [record EXCEPT ![call[s].transfer] =
                 [status |-> "initiated", from |-> call[s].seen, to |-> NoOwner]]
  /\ Goto(s, "spawn")
  /\ UNCHANGED call /\ Recording

Spawn(s) ==
  /\ pc[s] = "spawn"
  /\ life' = [life EXCEPT ![SuccessorOf[call[s].transfer]] = "up"]
  /\ Goto(s, "spawned")
  /\ UNCHANGED <<call, crashes, failures, begun, tokens>> /\ Unwritten

SpawnFails(s) ==
  /\ pc[s] = "spawn" /\ crashes + failures < MaxMishaps
  /\ failures' = failures + 1
  /\ Goto(s, "clear")
  /\ UNCHANGED <<call, life, crashes, begun, tokens>> /\ Unwritten

\* Mutant of WriteSpawned: the record is not written again once the tab is there.
WriteSpawnedForgotten(s) ==
  /\ pc[s] = "spawned"
  /\ Goto(s, "open")
  /\ UNCHANGED <<record, call, window, late>> /\ bared' = bared \cup {call[s].transfer}
  /\ Unattached /\ Untold /\ Unlived

\* The successor may be confirmed from now on, and has no window yet.
WriteSpawned(s) ==
  /\ pc[s] = "spawned"
  /\ SetStatus(s, "spawned")
  /\ bared' = bared \cup {call[s].transfer}
  /\ Goto(s, "open")
  /\ UNCHANGED <<call, window, late>> /\ Unattached /\ Untold /\ Unlived

\* setTransferWindow, whatever the record says by now.  Whoever has looked for a
\* window already has missed it.
OpenWindow(s) ==
  LET t == call[s].transfer IN
  /\ pc[s] = "open"
  /\ window' = [transfer |-> t, expired |-> FALSE]
  /\ bared' = IF \E q \in Sessions : Looking(q) THEN bared ELSE bared \ {t}
  /\ late' = IF UnderWay(t) THEN late ELSE late \cup {t}
  /\ End(s)
  /\ UNCHANGED record /\ Unattached /\ Untold /\ Unlived

\* clearTransferWindow removes the file of whichever transfer opened it last.
ClearWindow(s, from, to) ==
  /\ pc[s] = from
  /\ window' = NoWindow
  /\ bared' = IF window = NoWindow THEN bared ELSE bared \cup {t \in Transfers : UnderWay(t)}
  /\ IF to = "idle" THEN End(s) ELSE Goto(s, to) /\ UNCHANGED call
  /\ UNCHANGED <<record, late>> /\ Unattached /\ Untold /\ Unlived

FailClear(s) == ClearWindow(s, "clear", "fail")

WriteFailed(s) ==
  /\ pc[s] = "fail"
  /\ SetStatus(s, "failed")
  /\ End(s)
  /\ Recording
-----------------------------------------------------------------------------
(* Attaching *)

\* The attachment moves to s and the next generation.
Grant(s) ==
  /\ attachment.generation < MaxGeneration
  /\ attachment' = [session |-> s, generation |-> attachment.generation + 1]
  /\ granted' = [granted EXCEPT ![attachment.generation + 1] = s]

\* Mutant of LeaseFree: the attachment is written without the registry's lease.
LeaseIgnored == TRUE

LeaseFree == \A q \in Sessions : pc[q] # "force"

\* The token must be the last one issued, by the owner there is, and not expired.
\* Transfer t's is known to its successor only; anybody may be given a person's.
AttachWithToken(s) ==
  /\ Idle(s) /\ LeaseFree
  /\ handoff.token # 0 => SuccessorOf[handoff.token] = s
  /\ handoff.by = attachment /\ ~handoff.expired
  /\ Grant(s)
  /\ UNCHANGED <<preempted, record, pc, call>> /\ Unopened /\ Untold /\ Unlived

WindowBlocks == window.transfer # 0 /\ ~window.expired

\* Mutant of ForceLook: the window is not looked for.
ForceLookBlindly(s) ==
  /\ LeaseFree /\ attachment.generation < MaxGeneration
  /\ Begin(s, "force", [NoCall EXCEPT !.seen = attachment])
  /\ Unwritten /\ Unlived /\ UNCHANGED tokens

\* attachMaster with forceStale: under the lease, the window is looked for ...
ForceLook(s) ==
  /\ LeaseFree /\ attachment.generation < MaxGeneration
  /\ ~WindowBlocks
  /\ Begin(s, "force", [NoCall EXCEPT !.seen = attachment])
  /\ Unwritten /\ Unlived /\ UNCHANGED tokens

\* takeoverStaleScopeOwner: the owner's process is gone; the window is looked for
\* before the lease is taken ...
TakeoverLook(s) ==
  /\ attachment.session # s /\ life[attachment.session] = "down"
  /\ attachment.generation < MaxGeneration
  /\ ~WindowBlocks
  /\ Begin(s, "takeover", [NoCall EXCEPT !.seen = attachment])
  /\ Unwritten /\ Unlived /\ UNCHANGED tokens

\* ... and the attachment is written, if it is still the one that was read: the lease
\* sees to that for an attach, a take-over takes it now and compares, or is refused.
WriteForced(s) ==
  /\ Looking(s)
  /\ \/ /\ call[s].seen = attachment /\ (pc[s] = "force" \/ LeaseFree)
        /\ Grant(s)
        /\ preempted' = preempted \cup {t \in Transfers :
             UnderWay(t) /\ record[t].from = attachment /\ SuccessorOf[t] # s
             /\ t \notin bared}
     \/ (call[s].seen # attachment \/ ~LeaseFree) /\ pc[s] = "takeover" /\ Unattached
  /\ End(s)
  /\ UNCHANGED record /\ Unopened /\ Untold /\ Unlived
-----------------------------------------------------------------------------
(* confirmTransferAttach *)

\* Mutant of BeginConfirm: the generation is not compared.
BeginConfirmAnyGeneration(s, t) ==
  /\ SuccessorOf[t] = s /\ UnderWay(t)
  /\ attachment.session = s
  /\ Begin(s, "attached", [transfer |-> t, seen |-> attachment, held |-> NoOwner])
  /\ Unwritten /\ Unlived /\ UNCHANGED tokens

\* The record, then the attachment, are read; nobody else writes this record now.
BeginConfirm(s, t) ==
  /\ SuccessorOf[t] = s /\ UnderWay(t)
  /\ attachment = [session |-> s, generation |-> record[t].from.generation + 1]
  /\ Begin(s, "attached", [transfer |-> t, seen |-> attachment, held |-> NoOwner])
  /\ Unwritten /\ Unlived /\ UNCHANGED tokens

WriteAttached(s) ==
  /\ pc[s] = "attached"
  /\ record' = [record EXCEPT ![call[s].transfer].status = "attached",
                              ![call[s].transfer].to = call[s].seen]
  /\ Goto(s, "completed")
  /\ UNCHANGED call /\ Recording

WriteCompleted(s) ==
  /\ pc[s] = "completed"
  /\ SetStatus(s, "completed")
  /\ Goto(s, "close")
  /\ UNCHANGED call /\ Recording

CloseWindow(s) == ClearWindow(s, "close", "idle")
-----------------------------------------------------------------------------
(* Time and crashes *)

TokenExpires ==
  /\ ~handoff.expired
  /\ handoff' = [handoff EXCEPT !.expired = TRUE]
  /\ outdated' = outdated \cup ({handoff.token} \cap Transfers)
  /\ UNCHANGED <<record, pc, call, tokens>> /\ Unattached /\ Unopened /\ Unlived

WindowExpires ==
  /\ window.transfer # 0 /\ ~window.expired
  /\ window' = [window EXCEPT !.expired = TRUE]
  /\ bared' = bared \cup {t \in Transfers : UnderWay(t)}
  /\ UNCHANGED <<record, pc, call, late>> /\ Unattached /\ Untold /\ Unlived

Crash(s) ==
  /\ life[s] = "up" /\ crashes + failures < MaxMishaps
  /\ crashes' = crashes + 1
  /\ life' = [life EXCEPT ![s] = "down"]
  /\ End(s)
  /\ UNCHANGED <<failures, begun, tokens>> /\ Unwritten

\* The session is resumed: it keeps its identity and forgets its calls.
Restart(s) ==
  /\ life[s] = "down"
  /\ life' = [life EXCEPT ![s] = "up"]
  /\ UNCHANGED <<pc, call, failures, crashes, begun, tokens>> /\ Unwritten
-----------------------------------------------------------------------------
TransferStep(s) ==
  \/ DetachRead(s) \/ WriteToken(s) \/ WriteRecord(s) \/ Spawn(s) \/ SpawnFails(s)
  \/ WriteSpawned(s) \/ OpenWindow(s) \/ FailClear(s) \/ WriteFailed(s)

ConfirmStep(s) == WriteAttached(s) \/ WriteCompleted(s) \/ CloseWindow(s)
CallStep(s) == TransferStep(s) \/ WriteForced(s) \/ ConfirmStep(s)
Confirm(s) == \E t \in Transfers : BeginConfirm(s, t)

TransferNext ==
  \/ \E s \in Sessions :
       \/ BeginTransfer(s) \/ BeginDetach(s) \/ ForceLook(s) \/ TakeoverLook(s)
       \/ AttachWithToken(s) \/ Confirm(s) \/ CallStep(s)
       \/ Crash(s) \/ Restart(s)
  \/ TokenExpires \/ WindowExpires

TransferSpec == TransferInit /\ [][TransferNext]_transferVars

\* Calls run on, and a successor does what its prompt tells it, again if refused.
TransferFairness ==
  /\ \A s \in Sessions : WF_transferVars(CallStep(s))
  /\ \A s \in Newcomers : SF_transferVars(AttachWithToken(s)) /\ SF_transferVars(Confirm(s))

FairTransferSpec == TransferSpec /\ TransferFairness
-----------------------------------------------------------------------------
(* Properties *)

\* A record that says attached or completed names the session its transfer spawned as
\* the owner of the generation after the one that was handed over - two transfers never
\* both claim one generation; one that says failed has no successor at large.
RecordTrue ==
  \A t \in Transfers :
    /\ record[t].status \in {"attached", "completed"} =>
         /\ record[t].to = [session |-> SuccessorOf[t],
                            generation |-> record[t].from.generation + 1]
         /\ granted[record[t].to.generation] = SuccessorOf[t]
    /\ record[t].status = "failed" => life[SuccessorOf[t]] = "unborn"

\* Nobody takes by force what is being transferred, but through a gap in its window:
\* it was not open yet when they looked, it has expired, or another transfer's failure
\* or confirmation removed it.
PreemptedThroughGap == preempted = {}

\* A window outlives its transfer only if it was opened too late or its closing crashed.
WindowClosesWithTransfer ==
  \A t \in Transfers :
    window.transfer = t /\ record[t].status = "completed" =>
      \/ t \in late \/ crashes > 0
      \/ \E s \in Sessions : pc[s] = "close" /\ call[s].transfer = t

\* The transfer window stands for the transfer that is under way.
WindowAccounted == PreemptedThroughGap /\ WindowClosesWithTransfer

\* A crash, a newer token, its expiry or another succession came in between.
Hindered(t) ==
  \/ crashes > 0 \/ t \in outdated
  \/ record[t].from.generation < MaxGeneration
       => granted[record[t].from.generation + 1] \notin {Nobody, SuccessorOf[t]}
  \/ attachment.generation > record[t].from.generation + 1

\* A transfer that was recorded ends: it fails, or its successor takes over and confirms.
TransferEnds ==
  \A t \in Transfers :
    record[t].status = "initiated" ~>
      record[t].status \in {"completed", "failed"} \/ Hindered(t)
=============================================================================
