--------------------------- MODULE InjectionClaim ---------------------------
(***************************************************************************)
(* runtime/receipts.ts: the mutex and the receipt that keep one message    *)
(* (one receipt key) from being injected into the conversation twice,      *)
(* whichever of the channels - event bus, reports, mailbox - carries it.   *)
(* The holders of this module await their send before they confirm, as the *)
(* mailbox consumer does.  The event bus does not, and also confirms on    *)
(* its .notified mark: CompletionDelivery adds that to the steps below.    *)
(*                                                                         *)
(* A holder is a channel of a session ("mailbox-consumer:<sid>").  The     *)
(* channels of one process run one synchronous call at a time; processes   *)
(* interleave at every file operation:                                     *)
(*   claiming   receipts/<key>.claiming.json, the right to inject;         *)
(*   receipt    receipts/<key>.json, the message has been injected.        *)
(* Both are created exclusively and then filled, so a crash or a failed    *)
(* write in between leaves a torn file that nobody can parse.  Any of the  *)
(* writes may fail (Fault).  The 10 min after which a claim is stale are a *)
(* flag of the file; it turns when no call holds the claim any more, or,   *)
(* MaxSlow times, while its send is still awaited.                         *)
(***************************************************************************)
EXTENDS Naturals

CONSTANTS
  Holders, NoHolder,
  Processes, ProcessOf,  \* the process each holder runs in
  MaxAttempts,           \* rounds of claimInjection's loop
  WritesTear,            \* can a crash or a failed write fall between create and fill?
  MaxCrashes, MaxRefusals, MaxSlow, MaxFaults,  \* bounds on what is explored
  MaxDelivered           \* deliveries and races are counted up to this

ASSUME InjectionAssumption ==
  /\ NoHolder \notin Holders
  /\ ProcessOf \in [Holders -> Processes]
  /\ MaxAttempts \in Nat \ {0}
  /\ WritesTear \in BOOLEAN
  /\ MaxCrashes \in Nat /\ MaxRefusals \in Nat /\ MaxSlow \in Nat /\ MaxFaults \in Nat
  /\ MaxDelivered \in Nat \ {0}

VARIABLES
  claiming, receipt,
  pc,         \* next file operation of the holder's current call
  attempts,   \* rounds the call has spent
  verdict,    \* how the holder's last call, or its last send, ended
  delivered,  \* history: how often the message reached the conversation
  lost,       \* history: deliveries whose receipt a crash or a failed write prevented
  stolen,     \* history: some claim was removed as stale
  raced,      \* history: claims won after the receipt, or removed when no longer stale
  crashes, refusals, slow, faults

injectionVars == <<claiming, receipt, pc, attempts, verdict, delivered, lost,
                   stolen, raced, crashes, refusals, slow, faults>>

Claims == [by : Holders \cup {NoHolder}, state : {"none", "torn", "fresh", "stale"}]
NoClaim == [by |-> NoHolder, state |-> "none"]

Claiming == {"create", "fill", "read", "recheckFresh", "recheckStale", "reread", "unlink"}
Confirming == {"confirm", "record", "fillReceipt", "clear"}
Releasing == {"release", "drop"}
Labels == {"idle", "sending"} \cup Claiming \cup Confirming \cup Releasing
Verdicts == {"none", "already", "other", "sent", "busy", "failed"}

\* From the successful exclusive create to the end of confirm or release.
Holding == {"fill", "sending"} \cup Confirming \cup Releasing

TypeOK ==
  /\ claiming \in Claims
  /\ receipt \in {"none", "torn", "written"}
  /\ pc \in [Holders -> Labels]
  /\ attempts \in [Holders -> 0 .. MaxAttempts - 1]
  /\ verdict \in [Holders -> Verdicts]
  /\ delivered \in Nat /\ lost \in Nat
  /\ crashes \in 0 .. MaxCrashes
  /\ refusals \in 0 .. MaxRefusals
  /\ slow \in 0 .. MaxSlow
  /\ faults \in 0 .. MaxFaults
  /\ stolen \in BOOLEAN /\ raced \in Nat

InjectionInit ==
  /\ claiming = NoClaim
  /\ receipt = "none"
  /\ pc = [h \in Holders |-> "idle"]
  /\ attempts = [h \in Holders |-> 0]
  /\ verdict = [h \in Holders |-> "none"]
  /\ delivered = 0 /\ lost = 0 /\ stolen = FALSE /\ raced = 0
  /\ crashes = 0 /\ refusals = 0 /\ slow = 0 /\ faults = 0

-----------------------------------------------------------------------------
(* Steps of a call *)

\* h is at label, and its process is not in the middle of another channel's call.
At(h, label) ==
  /\ pc[h] = label
  /\ \A k \in Holders \ {h} :
       ProcessOf[k] = ProcessOf[h] => pc[k] \in {"idle", "sending"}

Goto(h, label) == pc' = [pc EXCEPT ![h] = label]

Return(h, v) ==
  /\ Goto(h, "idle")
  /\ attempts' = [attempts EXCEPT ![h] = 0]
  /\ verdict' = [verdict EXCEPT ![h] = v]

\* The file vanished or cannot be parsed: another round, if there is one.
Retry(h) ==
  \/ /\ attempts[h] + 1 < MaxAttempts
     /\ attempts' = [attempts EXCEPT ![h] = attempts[h] + 1]
     /\ Goto(h, "create")
     /\ UNCHANGED verdict
  \/ /\ attempts[h] + 1 >= MaxAttempts
     /\ Return(h, "other")

Unseen == UNCHANGED <<delivered, lost, stolen, raced, crashes, refusals, slow, faults>>

\* The file operation fails, and with it the call.
Fault ==
  /\ faults < MaxFaults
  /\ faults' = faults + 1
  /\ UNCHANGED <<delivered, stolen, raced, crashes, refusals, slow>>

Race(late) == raced' = IF late /\ raced < MaxDelivered THEN raced + 1 ELSE raced

Readable == claiming.state \in {"fresh", "stale"}

\* Mutant of BeginClaim: an earlier receipt is not looked for.
BeginClaimBlindly(h) ==
  /\ At(h, "idle")
  /\ Goto(h, "create")
  /\ verdict' = [verdict EXCEPT ![h] = "none"]
  /\ UNCHANGED <<claiming, receipt, attempts>> /\ Unseen

\* claimInjection: a receipt ends the matter.
BeginClaim(h) ==
  /\ At(h, "idle")
  /\ \/ /\ receipt = "written"
        /\ Return(h, "already")
     \/ /\ receipt # "written"
        /\ Goto(h, "create")
        /\ verdict' = [verdict EXCEPT ![h] = "none"]
        /\ UNCHANGED attempts
  /\ UNCHANGED <<claiming, receipt>> /\ Unseen

\* Mutant of CreateClaim: the create is not exclusive.
CreateClaimOverwrites(h) ==
  /\ At(h, "create")
  /\ claiming' = [by |-> h, state |-> "torn"]
  /\ Goto(h, "fill")
  /\ UNCHANGED <<receipt, attempts, verdict>> /\ Unseen

\* claimInjection: the exclusive create, which another process's receipt may have
\* preceded by now; a create that fails otherwise counts as another's claim ...
CreateClaim(h) ==
  /\ At(h, "create")
  /\ UNCHANGED receipt
  /\ \/ /\ claiming = NoClaim
        /\ claiming' = [by |-> h, state |-> "torn"]
        /\ Goto(h, "fill")
        /\ Race(receipt = "written")
        /\ UNCHANGED <<attempts, verdict, delivered, lost, stolen, crashes, refusals, slow, faults>>
     \/ /\ claiming # NoClaim
        /\ Goto(h, "read")
        /\ UNCHANGED <<claiming, attempts, verdict>> /\ Unseen
     \/ /\ Fault /\ Return(h, "other")
        /\ UNCHANGED <<claiming, lost>>

\* ... and the content.  If the file was unlinked meanwhile nobody sees it.
FillClaim(h) ==
  /\ At(h, "fill")
  /\ UNCHANGED receipt
  /\ \/ /\ claiming' = IF claiming = [by |-> h, state |-> "torn"]
                       THEN [by |-> h, state |-> "fresh"]
                       ELSE claiming
        /\ Goto(h, "sending")
        /\ UNCHANGED <<attempts, verdict>> /\ Unseen
     \/ /\ WritesTear
        /\ Fault /\ Return(h, "other")
        /\ UNCHANGED <<claiming, lost>>

\* Mutant of ReadClaim: a claim never counts as stale.
ReadClaimAsFresh(h) ==
  /\ At(h, "read")
  /\ \/ /\ ~Readable
        /\ Retry(h)
     \/ /\ Readable
        /\ Goto(h, "recheckFresh")
        /\ UNCHANGED <<attempts, verdict>>
  /\ UNCHANGED <<claiming, receipt>> /\ Unseen

\* claimInjection: somebody else's claim, read once and judged.
ReadClaim(h) ==
  /\ At(h, "read")
  /\ \/ /\ ~Readable
        /\ Retry(h)
     \/ /\ Readable
        /\ Goto(h, IF claiming.state = "fresh" THEN "recheckFresh" ELSE "recheckStale")
        /\ UNCHANGED <<attempts, verdict>>
  /\ UNCHANGED <<claiming, receipt>> /\ Unseen

RecheckReceipt(h) ==
  /\ At(h, "recheckFresh") \/ At(h, "recheckStale")
  /\ \/ /\ receipt = "written"
        /\ Return(h, "already")
     \/ /\ receipt # "written" /\ pc[h] = "recheckFresh"
        /\ Return(h, "other")
     \/ /\ receipt # "written" /\ pc[h] = "recheckStale"
        /\ Goto(h, "reread")
        /\ UNCHANGED <<attempts, verdict>>
  /\ UNCHANGED <<claiming, receipt>> /\ Unseen

\* claimInjection: one more look at the stale claim before it is removed.
RereadClaim(h) ==
  /\ At(h, "reread")
  /\ \/ /\ ~Readable
        /\ Retry(h)
     \/ /\ claiming.state = "fresh"
        /\ Return(h, "other")
     \/ /\ claiming.state = "stale"
        /\ Goto(h, "unlink")
        /\ UNCHANGED <<attempts, verdict>>
  /\ UNCHANGED <<claiming, receipt>> /\ Unseen

\* claimInjection: unlink whatever the path names now, then try to create.
UnlinkStale(h) ==
  /\ At(h, "unlink")
  /\ Retry(h)
  /\ UNCHANGED receipt
  /\ \/ /\ claiming' = NoClaim
        /\ stolen' = TRUE
        /\ Race(claiming.state \in {"torn", "fresh"})
        /\ UNCHANGED <<delivered, lost, crashes, refusals, slow, faults>>
     \/ /\ Fault
        /\ UNCHANGED <<claiming, lost>>

\* injectFollowUpQuietly resolves: the message is in the conversation ...
SendSucceeds(h) ==
  /\ At(h, "sending")
  /\ delivered' = IF delivered < MaxDelivered THEN delivered + 1 ELSE delivered
  /\ Goto(h, "confirm")
  /\ UNCHANGED <<claiming, receipt, attempts, verdict, lost, stolen>>
  /\ UNCHANGED <<raced, crashes, refusals, slow, faults>>

\* Mutant of SendRefused: a busy agent's refusal is confirmed like a delivery.
SendRefusedConfirms(h) ==
  /\ At(h, "sending")
  /\ refusals < MaxRefusals
  /\ refusals' = refusals + 1
  /\ Goto(h, "confirm")
  /\ UNCHANGED <<claiming, receipt, attempts, verdict, delivered, lost, stolen>>
  /\ UNCHANGED <<raced, crashes, slow, faults>>

\* ... or the agent was busy (or no injector is there) and the claim is released ...
SendRefused(h) ==
  /\ At(h, "sending")
  /\ refusals < MaxRefusals
  /\ refusals' = refusals + 1
  /\ Goto(h, "release")
  /\ UNCHANGED <<claiming, receipt, attempts, verdict, delivered, lost, stolen>>
  /\ UNCHANGED <<raced, crashes, slow, faults>>

\* ... or it failed, and the claim is left to grow stale.
SendFails(h) ==
  /\ At(h, "sending")
  /\ refusals < MaxRefusals
  /\ refusals' = refusals + 1
  /\ Return(h, "failed")
  /\ UNCHANGED <<claiming, receipt, delivered, lost, stolen, raced, crashes, slow, faults>>

\* confirmInjection: only the holder that the file names may confirm.
ReadOwnClaim(h) ==
  /\ At(h, "confirm")
  /\ \/ /\ Readable /\ claiming.by = h
        /\ Goto(h, "record")
        /\ UNCHANGED <<attempts, verdict>>
     \/ /\ ~(Readable /\ claiming.by = h)
        /\ Return(h, "sent")
  /\ UNCHANGED <<claiming, receipt>> /\ Unseen

\* The receipt does not land: the claim is left to grow stale, and nobody is told.
ReceiptFails(h) ==
  /\ Fault /\ Return(h, "sent")
  /\ lost' = lost + 1
  /\ UNCHANGED receipt

\* Mutant of CreateReceipt: the claim is removed before the receipt has its content.
CreateReceiptClearsClaim(h) ==
  /\ At(h, "record")
  /\ receipt = "none"
  /\ receipt' = "torn"
  /\ claiming' = NoClaim
  /\ Goto(h, "fillReceipt")
  /\ UNCHANGED <<attempts, verdict>> /\ Unseen

\* recordNotificationReceipt: exclusive create ...
CreateReceipt(h) ==
  /\ At(h, "record")
  /\ UNCHANGED claiming
  /\ \/ /\ receipt = "none"
        /\ receipt' = "torn"
        /\ Goto(h, "fillReceipt")
        /\ UNCHANGED <<attempts, verdict>> /\ Unseen
     \/ /\ receipt # "none"
        /\ Return(h, "sent")
        /\ UNCHANGED receipt /\ Unseen
     \/ ReceiptFails(h)

\* ... and content.
FillReceipt(h) ==
  /\ At(h, "fillReceipt")
  /\ UNCHANGED claiming
  /\ \/ /\ receipt' = "written"
        /\ Goto(h, "clear")
        /\ UNCHANGED <<attempts, verdict>> /\ Unseen
     \/ WritesTear /\ ReceiptFails(h)

\* The claim is removed, or the unlink fails without a word.
RemoveClaim ==
  \/ claiming' = NoClaim /\ Unseen
  \/ Fault /\ UNCHANGED <<claiming, lost>>

\* confirmInjection: the claim is no longer needed.
ClearClaim(h) ==
  /\ At(h, "clear")
  /\ RemoveClaim
  /\ Return(h, "sent")
  /\ UNCHANGED receipt

\* releaseInjectionClaim: read, compare, unlink.
ReadReleased(h) ==
  /\ At(h, "release")
  /\ \/ /\ Readable /\ claiming.by = h
        /\ Goto(h, "drop")
        /\ UNCHANGED <<attempts, verdict>>
     \/ /\ ~(Readable /\ claiming.by = h)
        /\ Return(h, "busy")
  /\ UNCHANGED <<claiming, receipt>> /\ Unseen

DropClaim(h) ==
  /\ At(h, "drop")
  /\ RemoveClaim
  /\ Return(h, "busy")
  /\ UNCHANGED receipt

-----------------------------------------------------------------------------
(* The environment: time and crashes *)

\* Nobody takes ten minutes to confirm: that is a few synchronous file operations.
ClaimGrowsStale ==
  /\ claiming.state = "fresh"
  /\ \A h \in Holders : pc[h] \notin Confirming
  /\ \/ pc[claiming.by] \notin Holding /\ UNCHANGED slow
     \/ pc[claiming.by] = "sending" /\ slow < MaxSlow /\ slow' = slow + 1
  /\ claiming' = [claiming EXCEPT !.state = "stale"]
  /\ UNCHANGED <<receipt, pc, attempts, verdict, delivered, lost, stolen>>
  /\ UNCHANGED <<raced, crashes, refusals, faults>>

\* The process dies and is started again: its calls and sends are forgotten.
Crash(p) ==
  LET dead == {h \in Holders : ProcessOf[h] = p} IN
  /\ crashes < MaxCrashes
  /\ WritesTear \/ \A h \in dead : pc[h] \notin {"fill", "fillReceipt"}
  /\ crashes' = crashes + 1
  /\ lost' = IF \E h \in dead : pc[h] \in {"confirm", "record", "fillReceipt"}
             THEN lost + 1 ELSE lost
  /\ pc' = [h \in Holders |-> IF h \in dead THEN "idle" ELSE pc[h]]
  /\ attempts' = [h \in Holders |-> IF h \in dead THEN 0 ELSE attempts[h]]
  /\ verdict' = [h \in Holders |-> IF h \in dead THEN "none" ELSE verdict[h]]
  /\ UNCHANGED <<claiming, receipt, delivered, stolen, raced, refusals, slow, faults>>

-----------------------------------------------------------------------------
ClaimStep(h) ==
  \/ CreateClaim(h) \/ FillClaim(h) \/ ReadClaim(h)
  \/ RecheckReceipt(h) \/ RereadClaim(h) \/ UnlinkStale(h)

SendStep(h) == SendSucceeds(h) \/ SendRefused(h) \/ SendFails(h)

ConfirmStep(h) ==
  ReadOwnClaim(h) \/ CreateReceipt(h) \/ FillReceipt(h) \/ ClearClaim(h)

ReleaseStep(h) == ReadReleased(h) \/ DropClaim(h)

HolderStep(h) ==
  \/ BeginClaim(h) \/ ClaimStep(h) \/ SendStep(h)
  \/ ConfirmStep(h) \/ ReleaseStep(h)

InjectionNext ==
  \/ ClaimGrowsStale
  \/ \E p \in Processes : Crash(p)
  \/ \E h \in Holders : HolderStep(h)

InjectionSpec == InjectionInit /\ [][InjectionNext]_injectionVars

\* Callers poll, calls run to their end, a send is answered, time passes.
InjectionFairness ==
  /\ WF_injectionVars(ClaimGrowsStale)
  /\ \A h \in Holders : WF_injectionVars(HolderStep(h))

FairInjectionSpec == InjectionSpec /\ InjectionFairness
-----------------------------------------------------------------------------
(* Properties *)

\* Until some claim is taken over as stale, at most one channel of one process
\* is anywhere between winning the claim and giving it up.
ClaimIsExclusive ==
  ~stolen => \A h, k \in Holders : pc[h] \in Holding /\ pc[k] \in Holding => h = k

\* The message is injected once, and once more for each crash or failed write that
\* kept a delivery from its receipt and for each claim that outlived its ten
\* minutes: no other way to a duplicate, unless the receipt is torn.  It holds for
\* the channels of one session, and not for two processes.
InjectionsAccounted == delivered <= 1 + lost + slow

\* A crash or a failed write left a receipt that was created but not filled.
ReceiptTorn == receipt = "torn" /\ \A h \in Holders : pc[h] # "fillReceipt"

\* Between processes two races add to that account: a claim created after the look
\* for a receipt that has landed meanwhile, and a takeover that removes a claim
\* which is no longer the stale one it judged.  There is no third.
RacesAccounted == ReceiptTorn \/ delivered <= 1 + lost + slow + raced

\* A crash or a failed write left a file that was created but not filled.
Wedged ==
  \/ claiming.state = "torn" /\ pc[claiming.by] # "fill"
  \/ ReceiptTorn

\* Retried for ever, a claim that was left behind is taken over and the message
\* ends up injected with a receipt, unless a torn file is in the way.
Converges == <>(receipt = "written" \/ Wedged)
=============================================================================
