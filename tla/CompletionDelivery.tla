------------------------- MODULE CompletionDelivery -------------------------
(***************************************************************************)
(* How the completion of one tab run reaches the conversation.  Two        *)
(* channels carry it, both through the injection gate:                     *)
(*   eventbus  event-bus.ts, the watcher that sees the result file: it     *)
(*             puts a REPORT letter into the master's mailbox, passes the  *)
(*             gate, takes the run's .notified mark and injects;           *)
(*   mailbox   mailbox-consumer.ts, the 10 s loop of the master's owner:   *)
(*             it claims the pending letter, passes the gate, injects,     *)
(*             and acknowledges the letter.                                *)
(* The gate is injection-gate.ts over the files of InjectionClaim, with    *)
(* one receipt key for the run.  A mailbox holder awaits its send, an      *)
(* eventbus holder does not.                                               *)
(***************************************************************************)
EXTENDS InjectionClaim

CONSTANTS
  Sessions, NoSession,
  Watchers,       \* sessions whose event bus watches the result directory
  Dispatcher,     \* the session that links.jsonl names for the run, or NoSession
  SendProblems,   \* how sends may end: "busy", "failed", "busyUnseen"
  MaxMoves        \* bound on the ownership changes explored

ASSUME CompletionAssumption ==
  /\ NoSession \notin Sessions
  /\ Watchers \subseteq Sessions
  /\ Dispatcher \in Sessions \cup {NoSession}
  /\ SendProblems \subseteq {"busy", "failed", "busyUnseen"}
  /\ MaxMoves \in Nat
  /\ Holders = {"eventbus", "mailbox"} \X Sessions
  /\ Processes = Sessions
  /\ ProcessOf = [h \in Holders |-> h[2]]

VARIABLES
  letter,    \* the REPORT letter's file
  notified,  \* tab-runs/<run>.notified exists
  owner,     \* the session the master is attached to
  seen,      \* the watcher of the session has dealt with the result file
  consuming, \* the session has started the mailbox loop
  busPc, consumerPc,  \* where the session's two synchronous calls are
  presumed,   \* history: what the bus confirmed without an injection: a send that a
              \* busy agent rejected, or a .notified mark whose send had not been made
  moves

deliveryVars == <<letter, notified, owner, seen, consuming, busPc, consumerPc,
                  presumed, moves>>
completionVars == <<injectionVars, deliveryVars>>

Bus(s) == <<"eventbus", s>>
Consumer(s) == <<"mailbox", s>>

LetterFiles == [status : {"none", "pending", "claimed", "acked"},
                by : Sessions \cup {NoSession}, old : BOOLEAN]
NoLetter == [status |-> "none", by |-> NoSession, old |-> FALSE]
PendingLetter == [NoLetter EXCEPT !.status = "pending"]

DeliveryTypes ==
  /\ letter \in LetterFiles
  /\ letter.status = "claimed" => letter.by # NoSession
  /\ notified \in BOOLEAN
  /\ owner \in Sessions
  /\ seen \in [Sessions -> BOOLEAN]
  /\ consuming \in [Sessions -> BOOLEAN]
  /\ busPc \in [Sessions -> {"idle", "check", "write", "gate", "notify", "send", "settle"}]
  /\ consumerPc \in [Sessions -> {"idle", "claim", "write", "fence", "gate",
                                  "ack", "writeAck", "free", "writeFree"}]
  /\ presumed \subseteq {"send", "mark"}
  /\ moves \in 0 .. MaxMoves

DeliveryTypeOK == TypeOK /\ DeliveryTypes

\* A letter for the master's mailbox, unless the run is somebody else's.
WantsLetter == Dispatcher = NoSession \/ owner = Dispatcher

\* The letter may be there already: another session's event bus was first.
CompletionInit ==
  /\ InjectionInit
  /\ owner \in Sessions
  /\ letter \in {NoLetter, PendingLetter}
  /\ letter = NoLetter => Watchers # {}
  /\ letter = PendingLetter => WantsLetter
  /\ notified = FALSE
  /\ seen = [s \in Sessions |-> FALSE]
  /\ consuming = [s \in Sessions |-> owner = s]
  /\ busPc = [s \in Sessions |-> "idle"]
  /\ consumerPc = [s \in Sessions |-> "idle"]
  /\ presumed = {}
  /\ moves = 0

-----------------------------------------------------------------------------
(* One thread per session: each channel's call runs to its end, except that *)
(* the consumer's call rests while its send is awaited.                     *)

BusAt(s, label) ==
  /\ busPc[s] = label
  /\ consumerPc[s] = "idle" \/ pc[Consumer(s)] = "sending"

ConsumerAt(s, label) == consumerPc[s] = label /\ busPc[s] = "idle"

BusGoto(s, label) == busPc' = [busPc EXCEPT ![s] = label]
ConsumerGoto(s, label) == consumerPc' = [consumerPc EXCEPT ![s] = label]

-----------------------------------------------------------------------------
(* event-bus.ts, onTabResultFile *)

\* The result belongs to its dispatcher; without one, to the master's owner.
Addressed(s) == IF Dispatcher = NoSession THEN owner = s ELSE Dispatcher = s

SeeResult(s) ==
  /\ s \in Watchers
  /\ BusAt(s, "idle") /\ ~seen[s]
  /\ seen' = [seen EXCEPT ![s] = TRUE]
  /\ BusGoto(s, IF ~Addressed(s) THEN "idle" ELSE IF WantsLetter THEN "check" ELSE "gate")
  /\ UNCHANGED <<injectionVars, letter, notified, owner, consuming, consumerPc, presumed, moves>>

\* deliverLetter: winner and loser of the dedupe slot alike look for the letter
\* under the winner's id, and write it if it is not there.
CheckLetter(s) ==
  /\ BusAt(s, "check")
  /\ BusGoto(s, IF letter.status = "none" THEN "write" ELSE "gate")
  /\ UNCHANGED <<injectionVars, letter, notified, owner, seen, consuming, consumerPc>>
  /\ UNCHANGED <<presumed, moves>>

WriteLetter(s) ==
  /\ BusAt(s, "write")
  /\ letter' = PendingLetter
  /\ BusGoto(s, "gate")
  /\ UNCHANGED <<injectionVars, notified, owner, seen, consuming, consumerPc, presumed, moves>>

\* preInject: the dispatcher skips the owner check, another watcher does not.
BusGate(s) ==
  /\ BusAt(s, "gate")
  /\ \/ /\ Addressed(s)
        /\ BeginClaim(Bus(s))
        /\ BusGoto(s, "notify")
     \/ /\ ~Addressed(s)
        /\ BusGoto(s, "idle")
        /\ UNCHANGED injectionVars
  /\ UNCHANGED <<letter, notified, owner, seen, consuming, consumerPc, presumed, moves>>

\* The verdict: turned away, or the .notified mark is taken before the send.
\* A mark that is there already counts as proof of an earlier injection.
BusNotify(s) ==
  LET h == Bus(s) IN
  /\ BusAt(s, "notify")
  /\ \/ /\ pc[h] = "idle"
        /\ BusGoto(s, "idle")
        /\ UNCHANGED <<injectionVars, notified, presumed>>
     \/ /\ pc[h] = "sending" /\ ~notified
        /\ notified' = TRUE
        /\ BusGoto(s, "send")
        /\ UNCHANGED <<injectionVars, presumed>>
     \/ /\ pc[h] = "sending" /\ notified
        /\ presumed' = IF delivered = 0 THEN presumed \cup {"mark"} ELSE presumed
        /\ Goto(h, "confirm")
        /\ BusGoto(s, "settle")
        /\ UNCHANGED <<claiming, receipt, attempts, verdict, notified>> /\ Unseen
  /\ UNCHANGED <<letter, owner, seen, consuming, consumerPc, moves>>

\* sendUserMessage, not awaited: postInject follows at once, also when the agent
\* turns out to have been busy; only a synchronous throw is noticed.
BusSend(s) ==
  LET h == Bus(s) IN
  /\ BusAt(s, "send")
  /\ \/ SendSucceeds(h) /\ UNCHANGED presumed
     \/ /\ "busyUnseen" \in SendProblems /\ refusals < MaxRefusals
        /\ refusals' = refusals + 1
        /\ presumed' = presumed \cup {"send"}
        /\ Goto(h, "confirm")
        /\ UNCHANGED <<claiming, receipt, attempts, verdict, delivered, lost, stolen>>
        /\ UNCHANGED <<raced, crashes, slow, faults>>
     \/ "failed" \in SendProblems /\ SendFails(h) /\ UNCHANGED presumed
  /\ BusGoto(s, "settle")
  /\ UNCHANGED <<letter, notified, owner, seen, consuming, consumerPc, moves>>

BusDone(s) ==
  /\ BusAt(s, "settle")
  /\ pc[Bus(s)] = "idle"
  /\ BusGoto(s, "idle")
  /\ UNCHANGED <<injectionVars, letter, notified, owner, seen, consuming, consumerPc>>
  /\ UNCHANGED <<presumed, moves>>

\* The file operations of claimInjection and confirmInjection in between.
BusClaims(s) ==
  /\ BusAt(s, "notify") \/ BusAt(s, "settle")
  /\ ClaimStep(Bus(s)) \/ ConfirmStep(Bus(s))
  /\ UNCHANGED deliveryVars

-----------------------------------------------------------------------------
(* mailbox-consumer.ts, consumeMailboxOnceInner *)

\* The owner lists pending letters, and only those.
ListLetters(s) ==
  /\ ConsumerAt(s, "idle")
  /\ consuming[s] /\ owner = s
  /\ letter.status = "pending"
  /\ ConsumerGoto(s, "claim")
  /\ UNCHANGED <<injectionVars, letter, notified, owner, seen, consuming, busPc, presumed, moves>>

\* claimLetters: read ...
ReadLetter(s) ==
  /\ ConsumerAt(s, "claim")
  /\ ConsumerGoto(s, IF letter.status = "pending" \/ (letter.status = "claimed" /\ letter.old)
                     THEN "write" ELSE "idle")
  /\ UNCHANGED <<injectionVars, letter, notified, owner, seen, consuming, busPc, presumed, moves>>

\* Mutant of ClaimLetter: the claim does not say whose it is.
ClaimLetterAnonymously(s) ==
  /\ ConsumerAt(s, "write")
  /\ letter' = [status |-> "claimed", by |-> NoSession, old |-> FALSE]
  /\ ConsumerGoto(s, "fence")
  /\ UNCHANGED <<injectionVars, notified, owner, seen, consuming, busPc, presumed, moves>>

\* ... and write.
ClaimLetter(s) ==
  /\ ConsumerAt(s, "write")
  /\ letter' = [status |-> "claimed", by |-> s, old |-> FALSE]
  /\ ConsumerGoto(s, "fence")
  /\ UNCHANGED <<injectionVars, notified, owner, seen, consuming, busPc, presumed, moves>>

\* The fencing recheck, then preInject.
PassFence(s) ==
  /\ ConsumerAt(s, "fence")
  /\ \/ /\ owner = s
        /\ BeginClaim(Consumer(s))
        /\ ConsumerGoto(s, "gate")
     \/ /\ owner # s
        /\ ConsumerGoto(s, "idle")
        /\ UNCHANGED injectionVars
  /\ UNCHANGED <<letter, notified, owner, seen, consuming, busPc, presumed, moves>>

\* claimInjection, the awaited send, and what follows it on the injection's files.
ConsumerInjects(s) ==
  /\ ConsumerAt(s, "gate")
  /\ \/ ClaimStep(Consumer(s)) \/ SendSucceeds(Consumer(s))
     \/ ConfirmStep(Consumer(s)) \/ ReleaseStep(Consumer(s))
     \/ "busy" \in SendProblems /\ SendRefused(Consumer(s))
     \/ "failed" \in SendProblems /\ SendFails(Consumer(s))
  /\ UNCHANGED deliveryVars

\* Mutant of Settle: a letter turned away by a busy agent is not put back.
SettleKeepsClaim(s) ==
  LET v == verdict[Consumer(s)] IN
  /\ ConsumerAt(s, "gate")
  /\ pc[Consumer(s)] = "idle"
  /\ notified' = (notified \/ v = "sent")
  /\ ConsumerGoto(s, IF v \in {"sent", "already"} THEN "ack" ELSE "idle")
  /\ UNCHANGED <<injectionVars, letter, owner, seen, consuming, busPc, presumed, moves>>

\* Mutant of Settle: a failed send is acknowledged as well.
SettleAcksFailure(s) ==
  LET v == verdict[Consumer(s)] IN
  /\ ConsumerAt(s, "gate")
  /\ pc[Consumer(s)] = "idle"
  /\ notified' = (notified \/ v = "sent")
  /\ ConsumerGoto(s, IF v \in {"sent", "already", "failed"} THEN "ack"
                     ELSE IF v = "busy" THEN "free" ELSE "idle")
  /\ UNCHANGED <<injectionVars, letter, owner, seen, consuming, busPc, presumed, moves>>

\* The call goes on with the verdict.  After a delivery it also leaves the
\* .notified mark; claimed by another or failed, the letter stays claimed.
Settle(s) ==
  LET v == verdict[Consumer(s)] IN
  /\ ConsumerAt(s, "gate")
  /\ pc[Consumer(s)] = "idle"
  /\ notified' = (notified \/ v = "sent")
  /\ ConsumerGoto(s, IF v \in {"sent", "already"} THEN "ack"
                     ELSE IF v = "busy" THEN "free" ELSE "idle")
  /\ UNCHANGED <<injectionVars, letter, owner, seen, consuming, busPc, presumed, moves>>

\* ackLetter: whoever holds the claim, the letter is done.
ReadToAck(s) ==
  /\ ConsumerAt(s, "ack")
  /\ ConsumerGoto(s, IF letter.status = "claimed" THEN "writeAck" ELSE "idle")
  /\ UNCHANGED <<injectionVars, letter, notified, owner, seen, consuming, busPc, presumed, moves>>

AckLetter(s) ==
  /\ ConsumerAt(s, "writeAck")
  /\ letter' = [letter EXCEPT !.status = "acked"]
  /\ ConsumerGoto(s, "idle")
  /\ UNCHANGED <<injectionVars, notified, owner, seen, consuming, busPc, presumed, moves>>

\* releaseClaimed: only the claimer may put the letter back.
ReadToFree(s) ==
  /\ ConsumerAt(s, "free")
  /\ ConsumerGoto(s, IF letter.status = "claimed" /\ letter.by = s THEN "writeFree" ELSE "idle")
  /\ UNCHANGED <<injectionVars, letter, notified, owner, seen, consuming, busPc, presumed, moves>>

FreeLetter(s) ==
  /\ ConsumerAt(s, "writeFree")
  /\ letter' = PendingLetter
  /\ ConsumerGoto(s, "idle")
  /\ UNCHANGED <<injectionVars, notified, owner, seen, consuming, busPc, presumed, moves>>

-----------------------------------------------------------------------------
(* The environment *)

\* Ten minutes pass: by then every watcher has had its file event, and every
\* synchronous call has returned.
TimePasses ==
  /\ \A s \in Watchers : seen[s]
  /\ \A s \in Sessions :
       busPc[s] = "idle" /\ (consumerPc[s] = "idle" \/ pc[Consumer(s)] = "sending")
  /\ \/ ClaimGrowsStale /\ UNCHANGED letter
     \/ /\ letter.status = "claimed" /\ ~letter.old
        /\ consumerPc[letter.by] = "idle"
        /\ letter' = [letter EXCEPT !.old = TRUE]
        /\ UNCHANGED injectionVars
  /\ UNCHANGED <<notified, owner, seen, consuming, busPc, consumerPc, presumed, moves>>

\* The master is attached to another session, whose watcher then looks for
\* results that nobody has marked.  Its mailbox loop is not started.
OwnerMoves(s) ==
  /\ s # owner /\ moves < MaxMoves
  /\ BusAt(s, "idle")
  /\ owner' = s
  /\ moves' = moves + 1
  /\ seen' = [seen EXCEPT ![s] = notified]
  /\ UNCHANGED <<injectionVars, letter, notified, consuming, busPc, consumerPc, presumed>>

\* The process dies and is resumed: results that are there count as seen, and
\* registerMailboxConsumer starts the loop if the session is the owner by now.
SessionCrash(s) ==
  /\ Crash(s)
  /\ consuming' = [consuming EXCEPT ![s] = (owner = s)]
  /\ seen' = [seen EXCEPT ![s] = TRUE]
  /\ BusGoto(s, "idle")
  /\ ConsumerGoto(s, "idle")
  /\ UNCHANGED <<letter, notified, owner, presumed, moves>>

-----------------------------------------------------------------------------
BusStep(s) ==
  \/ SeeResult(s) \/ CheckLetter(s) \/ WriteLetter(s) \/ BusGate(s)
  \/ BusNotify(s) \/ BusSend(s) \/ BusDone(s) \/ BusClaims(s)

ConsumerStep(s) ==
  \/ ListLetters(s) \/ ReadLetter(s) \/ ClaimLetter(s) \/ PassFence(s)
  \/ ConsumerInjects(s) \/ Settle(s)
  \/ ReadToAck(s) \/ AckLetter(s) \/ ReadToFree(s) \/ FreeLetter(s)

CompletionNext ==
  \/ TimePasses
  \/ \E s \in Sessions :
       BusStep(s) \/ ConsumerStep(s) \/ OwnerMoves(s) \/ SessionCrash(s)

CompletionSpec == CompletionInit /\ [][CompletionNext]_completionVars

\* Calls run to their end, the interval fires, sends are answered, time passes.
CompletionFairness ==
  /\ WF_completionVars(TimePasses)
  /\ \A s \in Sessions :
       WF_completionVars(BusStep(s)) /\ WF_completionVars(ConsumerStep(s))

FairCompletionSpec == CompletionSpec /\ CompletionFairness
-----------------------------------------------------------------------------
(* Properties *)

\* A letter is acknowledged only when the completion it reports did reach the
\* conversation, on whichever channel.  The code breaks this: the event bus does
\* not await its send (README, section 4).
AckedWasDelivered == letter.status = "acked" => delivered > 0

\* A receipt is there only for a completion that did reach the conversation.  It is
\* so for a channel that awaits its send; the event bus breaks it as well.
ReceiptMeansDelivered == receipt # "none" => delivered > 0

\* A letter is acknowledged unread, or a receipt written for nothing, only after the
\* event bus has confirmed a send that a busy agent rejected, or has taken a .notified
\* mark for an injection that had failed, which it meets only after such a send or
\* once a claim was removed as stale.  Crashes, failed writes, torn files and
\* hand-overs alone do not lose a completion this way.
UnreadOnlyIfPresumed ==
  /\ presumed = {} => AckedWasDelivered /\ ReceiptMeansDelivered
  /\ "mark" \in presumed => stolen \/ "send" \in presumed

\* The completion reaches the conversation.  The code breaks this: a crashed
\* consumer's letter is never listed again (README, section 4).
CompletionArrives == <>(delivered > 0)

\* However often the agent is busy, the completion reaches the conversation, if
\* the bus swallows no refusal, no file operation fails and the session does not
\* crash half-way.
ArrivesUnlessCrash ==
  <>(delivered > 0 \/ "send" \in presumed \/ crashes > 0 \/ faults > 0)
=============================================================================
