---------------------------- MODULE SessionOutbox ----------------------------
(***************************************************************************)
(* runtime/message-outbox.ts, outbox-bridge.ts, runtime-host/wechat-input: *)
(* one message for a session is queued as one file - by the executor of    *)
(* session.message, or by the host for a WeChat message to the master's    *)
(* owner - and the bridge of the session that it names sends it.  Items    *)
(* share nothing, so one item is the whole model.                          *)
(*                                                                         *)
(* Every session and the host are one process each, which runs one call at *)
(* a time; processes interleave at every read and write of the item and at *)
(* every file operation of runtime/receipts.ts, as in InjectionClaim.  The *)
(* bridge does not await its sends: it may claim the item again, once its  *)
(* claim is stale, with a send still unanswered.  Ages are flags: the item *)
(* outlives its 24 h, a claim its 10 min.                                  *)
(***************************************************************************)
EXTENDS Naturals

CONSTANTS
  Sessions, Host, Nobody,
  MaxAttempts,  \* rounds of claimInjection's loop
  MaxMoves, MaxFailures, MaxRefusals, MaxSlow, \* bounds on what is explored
  MaxInjected   \* arrivals past this many are not explored

Processes == Sessions \cup {Host}
Final == {"delivered", "failed", "expired"}

ASSUME OutboxAssumption ==
  /\ Host \notin Sessions /\ Nobody \notin Processes
  /\ MaxMoves \in Nat /\ MaxFailures \in Nat /\ MaxRefusals \in Nat
  /\ MaxSlow \in Nat /\ MaxInjected \in Nat
  /\ MaxAttempts \in Nat \ {0}

VARIABLES
  item,      \* message-outbox/<id>.json
  claim,     \* receipts/outbox:<id>.claiming.json
  receipt,   \* receipts/outbox:<id>.json
  record,    \* receive/inbox/<msgId>.json, "none" if the message is a command's
  owner,     \* the master's attachment
  flying,    \* sends each bridge has not heard of yet
  pc,        \* next step of each process
  attempts,  \* rounds its claimInjection has spent
  copy, verdict, \* the address a mark has read with the item, the status it will write
  before,    \* the owner that the host's input read first
  injected,  \* history: how often the message reached a conversation
  lost,      \* history: arrivals that a crash or a failed write left without a receipt
  slow,      \* history: claims that grew stale under a send
  raced,     \* history: claims won after the receipt, or removed when not stale
  requeued,  \* history: the item was written over, for another session
  moves, refusals,
  failures   \* crashes, and file operations that failed

files == <<item, claim, receipt, record, owner>>
calls == <<flying, pc, attempts, copy, verdict, before>>
bounds == <<moves, refusals, failures>>
outboxVars == <<files, calls, injected, lost, slow, raced, requeued, bounds>>

Items == [status : {"absent", "pending"} \cup Final, to : Sessions \cup {Nobody}, old : BOOLEAN]
Absent == [status |-> "absent", to |-> Nobody, old |-> FALSE]
Queued(s) == [status |-> "pending", to |-> s, old |-> FALSE]
Claims == [by : Sessions \cup {Nobody}, state : {"none", "torn", "fresh", "stale"}]
NoClaim == [by |-> Nobody, state |-> "none"]
Owners == [session : Sessions, generation : 1 .. MaxMoves + 1]
NoOwner == [session |-> Nobody, generation |-> 0]

Marking == {"readItem", "writeItem"}
Claiming == {"look", "create", "fill", "judge", "unlink"}
Confirming == {"confirm", "record", "fillReceipt", "clear"}
Releasing == {"release", "drop"}
Queueing == {"reread", "queue", "settle", "failed"}
Labels == {"idle", "list"} \cup Marking \cup Claiming \cup Confirming \cup Releasing \cup Queueing

TypeOK ==
  /\ item \in Items
  /\ claim \in Claims /\ (claim.by = Nobody => claim = NoClaim)
  /\ receipt \in {"none", "torn", "written"}
  /\ record \in {"none", "pending", "injected", "rejected"}
  /\ owner \in Owners /\ before \in Owners \cup {NoOwner}
  /\ flying \in [Sessions -> Nat]
  /\ pc \in [Processes -> Labels]
  /\ attempts \in [Processes -> 0 .. MaxAttempts - 1]
  /\ copy \in [Processes -> Sessions \cup {Nobody}]
  /\ verdict \in [Processes -> Final]
  /\ injected \in Nat /\ lost \in Nat /\ slow \in 0 .. MaxSlow
  /\ raced \in Nat /\ requeued \in BOOLEAN
  /\ moves \in 0 .. MaxMoves /\ refusals \in 0 .. MaxRefusals
  /\ failures \in 0 .. MaxFailures

OutboxInit ==
  /\ item = Absent /\ claim = NoClaim /\ receipt = "none"
  /\ record \in {"none", "pending"}
  /\ \E s \in Sessions : owner = [session |-> s, generation |-> 1]
  /\ before = NoOwner
  /\ flying = [s \in Sessions |-> 0]
  /\ pc = [p \in Processes |-> "idle"]
  /\ attempts = [p \in Processes |-> 0]
  /\ copy = [p \in Processes |-> Nobody]
  /\ verdict = [p \in Processes |-> "expired"]
  /\ injected = 0 /\ lost = 0 /\ slow = 0 /\ raced = 0 /\ requeued = FALSE
  /\ moves = 0 /\ refusals = 0 /\ failures = 0

-----------------------------------------------------------------------------
(* Marking the item *)

Goto(p, label) == pc' = [pc EXCEPT ![p] = label]

Unmoved == UNCHANGED <<owner, before, moves>>
Uncounted == UNCHANGED <<injected, lost, slow, raced, requeued, refusals>>

Fault ==
  /\ failures < MaxFailures
  /\ failures' = failures + 1

\* markOutboxItem(status) is called.
BeginMark(p, status) ==
  /\ Goto(p, "readItem")
  /\ verdict' = [verdict EXCEPT ![p] = status]

\* ... and returns, to the tick whose sweep it was or to the event loop.
EndMark(p) ==
  /\ Goto(p, IF verdict[p] = "expired" /\ p \in Sessions THEN "list" ELSE "idle")
  /\ copy' = [copy EXCEPT ![p] = Nobody]
  /\ verdict' = [verdict EXCEPT ![p] = "expired"]

\* markOutboxItem: only a pending item is marked ...
ReadItem(p) ==
  /\ pc[p] = "readItem"
  /\ \/ /\ item.status = "pending"
        /\ copy' = [copy EXCEPT ![p] = item.to]
        /\ Goto(p, "writeItem")
        /\ UNCHANGED verdict
     \/ item.status # "pending" /\ EndMark(p)
  /\ UNCHANGED <<files, flying, attempts, before, moves, failures>> /\ Uncounted

\* ... and the whole item is written back as it was read, or the write fails.
WriteItem(p) ==
  /\ pc[p] = "writeItem"
  /\ \/ /\ item' = [status |-> verdict[p], to |-> copy[p], old |-> FALSE]
        /\ UNCHANGED failures
     \/ Fault /\ UNCHANGED item
  /\ EndMark(p)
  /\ UNCHANGED <<claim, receipt, record, flying, attempts>> /\ Unmoved /\ Uncounted

Overdue == item.status = "pending" /\ item.old

-----------------------------------------------------------------------------
(* The bridge of a session *)

\* consumeOutboxOnceInner: the pending items of this session, once the sweep is over.
ListMine(s) ==
  Goto(s, IF item.status = "pending" /\ item.to = s THEN "look" ELSE "idle")

\* consumeOutboxOnce: a tick first sweeps what is overdue, whoever it is for.
BeginTick(s) ==
  /\ pc[s] = "idle"
  /\ \/ Overdue /\ BeginMark(s, "expired")
     \/ ~Overdue /\ ListMine(s) /\ UNCHANGED verdict
  /\ UNCHANGED <<files, flying, attempts, copy, before, moves, failures>> /\ Uncounted

EndSweep(s) ==
  /\ pc[s] = "list"
  /\ ListMine(s)
  /\ UNCHANGED <<files, flying, attempts, copy, verdict, before, moves, failures>> /\ Uncounted

\* claimInjection returns: the item's receipt is replayed ...
Replay(s) ==
  /\ BeginMark(s, "delivered")
  /\ attempts' = [attempts EXCEPT ![s] = 0]

\* ... or the item is left for a later tick.
Skip(s) ==
  /\ Goto(s, "idle")
  /\ attempts' = [attempts EXCEPT ![s] = 0]
  /\ UNCHANGED verdict

\* Another round of its loop, if there is one.
Retry(s) ==
  \/ attempts[s] + 1 >= MaxAttempts /\ Skip(s)
  \/ /\ attempts[s] + 1 < MaxAttempts
     /\ attempts' = [attempts EXCEPT ![s] = @ + 1]
     /\ Goto(s, "create")
     /\ UNCHANGED verdict

\* What a call on the claim and the receipt does not touch.
ClaimCall == UNCHANGED <<item, record, copy>> /\ Unmoved
NotWon == UNCHANGED <<injected, lost, slow, raced, requeued, refusals, failures>>

\* Mutant of Look: an earlier receipt is not looked for.
LookBlindly(s) ==
  /\ pc[s] = "look"
  /\ Goto(s, "create")
  /\ UNCHANGED <<claim, receipt, flying, attempts, verdict>> /\ ClaimCall /\ NotWon

\* claimInjection of the listed item: a receipt ends the matter.
Look(s) ==
  /\ pc[s] = "look"
  /\ \/ receipt = "written" /\ Replay(s)
     \/ receipt # "written" /\ Goto(s, "create") /\ UNCHANGED <<attempts, verdict>>
  /\ UNCHANGED <<claim, receipt, flying>> /\ ClaimCall /\ NotWon

Race(late) == raced' = IF late THEN raced + 1 ELSE raced

\* The exclusive create, which another bridge's receipt may have preceded by now ...
CreateClaim(s) ==
  /\ pc[s] = "create"
  /\ \/ /\ claim = NoClaim
        /\ claim' = [by |-> s, state |-> "torn"]
        /\ Race(receipt = "written")
        /\ Goto(s, "fill")
        /\ UNCHANGED <<attempts, verdict, failures>>
     \/ /\ claim # NoClaim
        /\ Goto(s, "judge")
        /\ UNCHANGED <<claim, raced, attempts, verdict, failures>>
     \/ Fault /\ Skip(s) /\ UNCHANGED <<claim, raced>>
  /\ UNCHANGED <<receipt, flying, injected, lost, slow, requeued, refusals>> /\ ClaimCall

\* Mutant of FillClaim: the content does not say whose claim it is.
FillClaimAnonymously(s) ==
  /\ pc[s] = "fill"
  /\ claim' = [by |-> Nobody, state |-> "fresh"]
  /\ flying' = [flying EXCEPT ![s] = @ + 1]
  /\ Skip(s)
  /\ UNCHANGED receipt /\ ClaimCall /\ NotWon

\* ... and the content; then the send begins, and the tick does not wait for it.
FillClaim(s) ==
  /\ pc[s] = "fill"
  /\ \/ /\ claim' = IF claim = [by |-> s, state |-> "torn"]
                    THEN [claim EXCEPT !.state = "fresh"]
                    ELSE claim
        /\ flying' = [flying EXCEPT ![s] = @ + 1]
        /\ UNCHANGED failures
     \/ Fault /\ UNCHANGED <<claim, flying>>
  /\ Skip(s)
  /\ UNCHANGED receipt /\ ClaimCall /\ Uncounted

\* Mutant of Judge: a claim never counts as stale.
JudgeAsFresh(s) ==
  /\ pc[s] = "judge"
  /\ \/ receipt = "written" /\ Replay(s)
     \/ receipt # "written" /\ Skip(s)
  /\ UNCHANGED <<claim, receipt, flying>> /\ ClaimCall /\ NotWon

\* The other's claim is read, the receipt looked for once more, and the claim reread;
\* one step here, since a claim grows neither older nor stale within a call.
Judge(s) ==
  /\ pc[s] = "judge"
  /\ \/ claim.state \in {"none", "torn"} /\ Retry(s)
     \/ claim.state \in {"fresh", "stale"} /\ receipt = "written" /\ Replay(s)
     \/ claim.state = "fresh" /\ receipt # "written" /\ Skip(s)
     \/ /\ claim.state = "stale" /\ receipt # "written"
        /\ Goto(s, "unlink")
        /\ UNCHANGED <<attempts, verdict>>
  /\ UNCHANGED <<claim, receipt, flying>> /\ ClaimCall /\ NotWon

\* Unlink whatever the path names now, then try to create.
UnlinkStale(s) ==
  /\ pc[s] = "unlink"
  /\ \/ claim' = NoClaim /\ Race(claim.state \in {"torn", "fresh"}) /\ UNCHANGED failures
     \/ Fault /\ UNCHANGED <<claim, raced>>
  /\ Retry(s)
  /\ UNCHANGED <<receipt, flying, injected, lost, slow, requeued, refusals>> /\ ClaimCall

\* A send of s is answered, between two calls.
Answered(s) ==
  /\ pc[s] = "idle" /\ flying[s] > 0
  /\ flying' = [flying EXCEPT ![s] = @ - 1]
  /\ UNCHANGED <<files, attempts, copy, before>>
  /\ UNCHANGED <<lost, slow, raced, requeued, moves, failures>>

\* The message is in the conversation ...
SendLands(s) ==
  /\ Answered(s)
  /\ injected < MaxInjected
  /\ injected' = injected + 1
  /\ Goto(s, "confirm")
  /\ UNCHANGED <<verdict, refusals>>

\* Mutant of SendBusy: a refusal by a busy agent is taken for an arrival.
SendBusyConfirms(s) ==
  /\ Answered(s)
  /\ refusals < MaxRefusals
  /\ refusals' = refusals + 1
  /\ Goto(s, "confirm")
  /\ UNCHANGED <<verdict, injected>>

\* ... or the agent was busy, and the claim is given back for the next tick ...
SendBusy(s) ==
  /\ Answered(s)
  /\ refusals < MaxRefusals
  /\ refusals' = refusals + 1
  /\ Goto(s, "release")
  /\ UNCHANGED <<verdict, injected>>

\* ... or the send failed: the item is marked, the claim is left.
SendFails(s) ==
  /\ Answered(s)
  /\ refusals < MaxRefusals
  /\ refusals' = refusals + 1
  /\ BeginMark(s, "failed")
  /\ UNCHANGED injected

Mine(s) == claim.by = s /\ claim.state \in {"fresh", "stale"}

\* confirmInjection: the claim has to name this bridge ...
Confirm(s) ==
  /\ pc[s] = "confirm"
  /\ Goto(s, IF Mine(s) THEN "record" ELSE "idle")
  /\ UNCHANGED <<claim, receipt, flying, attempts, verdict>> /\ ClaimCall /\ NotWon

\* The receipt did not land: the item stays pending, to be replayed or sent again.
NotConfirmed(s) ==
  /\ Goto(s, "idle")
  /\ lost' = lost + 1
  /\ UNCHANGED receipt

\* ... then the receipt is created exclusively ...
CreateReceipt(s) ==
  /\ pc[s] = "record"
  /\ \/ /\ receipt = "none"
        /\ receipt' = "torn"
        /\ Goto(s, "fillReceipt")
        /\ UNCHANGED <<lost, failures>>
     \/ receipt = "torn" /\ NotConfirmed(s) /\ UNCHANGED failures
     \/ receipt = "written" /\ Goto(s, "idle") /\ UNCHANGED <<receipt, lost, failures>>
     \/ Fault /\ NotConfirmed(s)
  /\ UNCHANGED <<claim, flying, attempts, verdict>> /\ ClaimCall
  /\ UNCHANGED <<injected, slow, raced, requeued, refusals>>

\* ... and filled ...
FillReceipt(s) ==
  /\ pc[s] = "fillReceipt"
  /\ \/ receipt' = "written" /\ Goto(s, "clear") /\ UNCHANGED <<lost, failures>>
     \/ Fault /\ NotConfirmed(s)
  /\ UNCHANGED <<claim, flying, attempts, verdict>> /\ ClaimCall
  /\ UNCHANGED <<injected, slow, raced, requeued, refusals>>

\* The claim is removed, or the unlink fails without a word.
RemoveClaim ==
  \/ claim' = NoClaim /\ UNCHANGED failures
  \/ Fault /\ UNCHANGED claim

\* ... and the claim is removed: confirmed, and the item is marked.
ClearClaim(s) ==
  /\ pc[s] = "clear"
  /\ RemoveClaim
  /\ BeginMark(s, "delivered")
  /\ UNCHANGED <<receipt, flying, attempts>> /\ ClaimCall /\ Uncounted

\* releaseInjectionClaim: read, compare, unlink.
Release(s) ==
  /\ pc[s] = "release"
  /\ Goto(s, IF Mine(s) THEN "drop" ELSE "idle")
  /\ UNCHANGED <<claim, receipt, flying, attempts, verdict>> /\ ClaimCall /\ NotWon

DropClaim(s) ==
  /\ pc[s] = "drop"
  /\ RemoveClaim
  /\ Goto(s, "idle")
  /\ UNCHANGED <<receipt, flying, attempts, verdict>> /\ ClaimCall /\ Uncounted

-----------------------------------------------------------------------------
(* Those who queue *)

\* runSessionMessage: a claimed command key writes its item once.
QueueCommand(s) ==
  /\ record = "none" /\ item = Absent
  /\ item' = Queued(s)
  /\ UNCHANGED <<claim, receipt, record, owner, calls, moves, failures>> /\ Uncounted

\* tryInjectPending: a sender who is not allowed is refused, else the owner is read ...
ChooseRecord ==
  /\ pc[Host] = "idle" /\ record = "pending"
  /\ \/ record' = "rejected" /\ UNCHANGED <<pc, before>>
     \/ before' = owner /\ Goto(Host, "reread") /\ UNCHANGED record
  /\ UNCHANGED <<item, claim, receipt, owner, flying, attempts, copy, verdict, moves, failures>>
  /\ Uncounted

EndRound == Goto(Host, "idle") /\ before' = NoOwner

\* ... and once more; another owner, or another generation, ends the round.
RereadOwner ==
  /\ pc[Host] = "reread"
  /\ \/ owner = before /\ Goto(Host, "queue") /\ UNCHANGED before
     \/ owner # before /\ EndRound
  /\ UNCHANGED <<files, flying, attempts, copy, verdict, moves, failures>> /\ Uncounted

\* The item is written, over an earlier one of the same message if there is one ...
QueueWechat ==
  /\ pc[Host] = "queue"
  /\ \/ /\ item' = Queued(before.session)
        /\ requeued' = (requeued \/ item.to \notin {Nobody, before.session})
        /\ Goto(Host, "settle")
        /\ UNCHANGED failures
     \/ Fault /\ Goto(Host, "failed") /\ UNCHANGED <<item, requeued>>
  /\ UNCHANGED <<claim, receipt, record, flying, attempts, copy, verdict>> /\ Unmoved
  /\ UNCHANGED <<injected, lost, slow, raced, refusals>>

\* ... then the record says so ...
SettleRecord ==
  /\ pc[Host] = "settle"
  /\ \/ record' = "injected" /\ EndRound /\ UNCHANGED failures
     \/ Fault /\ Goto(Host, "failed") /\ UNCHANGED <<record, before>>
  /\ UNCHANGED <<item, claim, receipt, owner, flying, attempts, copy, verdict, moves>> /\ Uncounted

\* ... and after an exception of either write it says rejected, if it can.
RejectRecord ==
  /\ pc[Host] = "failed"
  /\ \/ record' = "rejected" /\ UNCHANGED failures
     \/ Fault /\ UNCHANGED record
  /\ EndRound
  /\ UNCHANGED <<item, claim, receipt, owner, flying, attempts, copy, verdict, moves>> /\ Uncounted

-----------------------------------------------------------------------------
(* The environment *)

OwnerMoves ==
  /\ moves < MaxMoves /\ record = "pending"
  /\ moves' = moves + 1
  /\ \E s \in Sessions : owner' = [session |-> s, generation |-> owner.generation + 1]
  /\ UNCHANGED <<item, claim, receipt, record, calls, failures>> /\ Uncounted

ItemGrowsOld ==
  /\ item.status = "pending" /\ ~item.old
  /\ item' = [item EXCEPT !.old = TRUE]
  /\ UNCHANGED <<claim, receipt, record, owner, calls, moves, failures>> /\ Uncounted

\* Ten minutes: no call is that long, but a send can be.
ClaimGrowsStale ==
  /\ claim.state = "fresh"
  /\ \A p \in Processes : pc[p] = "idle"
  /\ \/ flying[claim.by] = 0 /\ UNCHANGED slow
     \/ flying[claim.by] > 0 /\ slow < MaxSlow /\ slow' = slow + 1
  /\ claim' = [claim EXCEPT !.state = "stale"]
  /\ UNCHANGED <<item, receipt, record, owner, calls, injected, lost, raced, requeued, bounds>>

\* A process dies, maybe between the create of a file and its content, and is started
\* again, which an idle session does not notice; the host sweeps when it starts.
Crash(p) ==
  /\ p = Host \/ pc[p] # "idle" \/ \E s \in Sessions \cap {p} : flying[s] > 0
  /\ Fault
  /\ flying' = [s \in Sessions |-> IF s = p THEN 0 ELSE flying[s]]
  /\ lost' = IF pc[p] \in {"confirm", "record", "fillReceipt"} THEN lost + 1 ELSE lost
  /\ Goto(p, IF p = Host /\ Overdue THEN "readItem" ELSE "idle")
  /\ attempts' = [attempts EXCEPT ![p] = 0]
  /\ copy' = [copy EXCEPT ![p] = Nobody]
  /\ verdict' = [verdict EXCEPT ![p] = "expired"]
  /\ before' = IF p = Host THEN NoOwner ELSE before
  /\ UNCHANGED <<files, injected, slow, raced, requeued, moves, refusals>>

-----------------------------------------------------------------------------
MarkStep(p) == ReadItem(p) \/ WriteItem(p)
SendStep(s) == SendLands(s) \/ SendBusy(s) \/ SendFails(s)
ClaimStep(s) == Look(s) \/ CreateClaim(s) \/ FillClaim(s) \/ Judge(s) \/ UnlinkStale(s)
ConfirmStep(s) == Confirm(s) \/ CreateReceipt(s) \/ FillReceipt(s) \/ ClearClaim(s)
ReleaseStep(s) == Release(s) \/ DropClaim(s)
TickStep(s) == EndSweep(s) \/ ClaimStep(s) \/ ConfirmStep(s) \/ ReleaseStep(s)
BridgeStep(s) == BeginTick(s) \/ MarkStep(s) \/ TickStep(s)
InputStep == RereadOwner \/ QueueWechat \/ SettleRecord \/ RejectRecord

OutboxNext ==
  \/ \E s \in Sessions : BridgeStep(s) \/ SendStep(s) \/ QueueCommand(s)
  \/ MarkStep(Host) \/ ChooseRecord \/ InputStep
  \/ \E p \in Processes : Crash(p)
  \/ OwnerMoves \/ ItemGrowsOld \/ ClaimGrowsStale

OutboxSpec == OutboxInit /\ [][OutboxNext]_outboxVars

\* A crash or a failed write left a file that was created but not filled.
Wedged ==
  \/ claim.state = "torn" /\ pc[claim.by] # "fill"
  \/ receipt = "torn" /\ \A p \in Processes : pc[p] # "fillReceipt"

\* Bridges and the input poll, calls run to their end, sends are answered, ten minutes
\* pass; the 24 h have to pass only for an item that a torn file holds up.
OutboxFairness ==
  /\ \A s \in Sessions : WF_outboxVars(BridgeStep(s)) /\ SF_outboxVars(SendStep(s))
  /\ WF_outboxVars(MarkStep(Host) \/ InputStep) /\ SF_outboxVars(ChooseRecord)
  /\ SF_outboxVars(ClaimGrowsStale) /\ WF_outboxVars(Wedged /\ ItemGrowsOld)

FairOutboxSpec == OutboxSpec /\ OutboxFairness
-----------------------------------------------------------------------------
(* Properties *)

\* Arrivals that left no receipt, claims that a send outlived, and, of two bridges,
\* claims won or removed on a look that was out of date.
Excuses == lost + slow + raced

\* What the console shows is true: "delivered" is said only of a message that
\* reached a conversation, and "failed" only of one that did not - but for the
\* arrivals that left no receipt, the slow sends and the races of two bridges.
StatusIsTrue ==
  /\ item.status = "delivered" => injected > 0
  /\ item.status = "failed" => injected <= Excuses

\* The message reaches a conversation once, and once more for each arrival that a
\* crash or a failed write left without a receipt, each send that outlived its claim,
\* and each race of two bridges over claim and receipt.  They race only when the item
\* was rewritten for another session: a sweep, a lost mark or a hand-over between
\* queueing and sending gives no duplicate.
DuplicatesAccounted ==
  /\ injected <= 1 + Excuses
  /\ raced > 0 => requeued

\* A queued message comes to rest, and so does the WeChat record behind it, once
\* owners, crashes and refusals have come to an end; the message without waiting for
\* its 24 h, unless a torn claim or receipt is in the way.
OutboxSettles ==
  item.status = "pending" \/ record = "pending"
    ~> item.status # "pending" /\ record # "pending"
=============================================================================
