------------------------------- MODULE Timers -------------------------------
(***************************************************************************)
(* timers.ts and timers-runtime.ts: one timer, from set-timer until it is  *)
(* gone.  A timer of the root directory is consumed by the main sessions   *)
(* of its directory: by the session that set it, by the others only when   *)
(* that one's heartbeat is too old.  A timer in a tab's mailbox is         *)
(* consumed by the tab.  Main sessions may cancel either.                  *)
(*                                                                         *)
(* A session runs one call at a time - a tick or a tool, both without an   *)
(* await - and sessions interleave at each operation on the timer's file,  *)
(* its .tmp and the heartbeats.  Time is a round number; a timer repeats   *)
(* in the next round.  The result of the target's run is a flag.           *)
(***************************************************************************)
EXTENDS Naturals, FiniteSets

CONSTANTS
  Mains, Tab,
  MaxTime, OrphanAge,   \* rounds explored; rounds overdue that make an orphan
  MaxMishaps            \* crashes, late heartbeats, failed sends and writes explored

Processes == Mains \cup {Tab}
Rounds == 0 .. MaxTime + 1

ASSUME TimerAssumption ==
  /\ Tab \notin Mains /\ IsFiniteSet(Mains) /\ Mains # {}
  /\ MaxTime \in Nat /\ OrphanAge \in Nat \ {0} /\ MaxMishaps \in Nat

VARIABLES
  file,        \* timers/<id>.json or timers/mail/<tabRunId>/<id>.json
  tmp,         \* the same with .tmp: one name for all writers
  now,
  targetDone,  \* the tab's run has ended
  up, beating, \* running sessions; sessions with a young heartbeat file
  step, copy,    \* each session's next step, the record it has read or will write
  sends,       \* history: messages handed to the agent, by the round they were due
  cancelled, overlapped, \* history: a cancellation was answered; while a call held the timer
  mishaps

history == <<sends, cancelled, overlapped>>
timerVars == <<file, tmp, now, targetDone, up, beating, step, copy, history, mishaps>>

NoTimer == [status |-> "none", due |-> 0, owner |-> Tab, box |-> "root",
            guarded |-> FALSE, repeat |-> FALSE]

\* guarded: the target is a tab's run, so its end is looked at.  "gone": the file was removed.
Timers == [status : {"none", "pending", "fired", "cancelled", "skipped", "gone"},
           due : Rounds, owner : Processes, box : {"root", "mail"},
           guarded : BOOLEAN, repeat : BOOLEAN]
Labels == {"idle", "judge", "reread", "send", "write", "rename", "remove"}

TimerTypeOK ==
  /\ file \in Timers /\ tmp \in Timers /\ now \in 0 .. MaxTime /\ targetDone \in BOOLEAN
  /\ up \subseteq Processes /\ beating \subseteq Mains
  /\ step \in [Processes -> Labels] /\ copy \in [Processes -> Timers]
  /\ sends \in [Rounds -> Nat]
  /\ cancelled \in BOOLEAN /\ overlapped \in BOOLEAN
  /\ mishaps \in 0 .. MaxMishaps

TimersInit ==
  /\ file = NoTimer /\ tmp = NoTimer /\ now = 0 /\ targetDone = FALSE
  /\ up = Processes /\ beating = Mains
  /\ step = [s \in Processes |-> "idle"] /\ copy = [s \in Processes |-> NoTimer]
  /\ sends = [d \in Rounds |-> 0]
  /\ cancelled = FALSE /\ overlapped = FALSE
  /\ mishaps = 0

StepTo(s, label) == step' = [step EXCEPT ![s] = label]

Begin(s, label, r) ==
  /\ StepTo(s, label)
  /\ copy' = [copy EXCEPT ![s] = r]

End(s) == Begin(s, "idle", NoTimer)

Idle(s) == s \in up /\ step[s] = "idle"

IsPending(r) == r.status = "pending"
Terminal(r) == r.status \in {"fired", "cancelled", "skipped"}

\* collectDueTimers of the directory that s looks at.
IsDue(s, r) == IsPending(r) /\ r.due <= now /\ r.box = IF s = Tab THEN "mail" ELSE "root"

Unworldly == UNCHANGED <<now, targetDone, up>>

-----------------------------------------------------------------------------
(* The tools *)

\* set-timer: the id is new, so nobody meets the file half written.  A tab sets timers for
\* itself only; its mailbox's timers name its run when "self" was not given.  Nobody reads who
\* set a mailbox timer, so the tab stands for it.
Set(s, r) ==
  /\ Idle(s) /\ file = NoTimer
  /\ IsPending(r) /\ r.owner = (IF r.box = "mail" THEN Tab ELSE s) /\ r.due \in now .. MaxTime
  /\ s = Tab => r.box = "mail"
  /\ r.guarded => r.box = "mail"
  /\ s # Tab => r.guarded = (r.box = "mail")
  /\ file' = r
  /\ UNCHANGED <<tmp, now, targetDone, up, beating, step, copy, history, mishaps>>

\* cancel-timer: cancelTimerFile reads, and writes the record it has read.
Cancel(s) ==
  /\ Idle(s) /\ IsPending(file)
  /\ s = Tab => file.box = "mail"
  /\ Begin(s, "write", [file EXCEPT !.status = "cancelled"])
  /\ UNCHANGED <<file, tmp, now, targetDone, up, beating, history, mishaps>>

-----------------------------------------------------------------------------
(* A tick *)

Unwritten == Unworldly /\ UNCHANGED <<file, tmp, history, mishaps>>

\* The heartbeat is touched, then the directory is listed: nobody can tell them apart.  Another
\* session's timer of the root directory needs a look at that session's heartbeat.
Pump(s) ==
  /\ Idle(s)
  /\ beating' = beating \cup ({s} \cap Mains)
  /\ IF ~IsDue(s, file) THEN UNCHANGED <<step, copy>>
     ELSE Begin(s, IF file.box = "root" /\ file.owner # s THEN "judge" ELSE "reread", file)
  /\ Unwritten

\* Mutant of Judge: a session's timers are left to it, dead or alive.
JudgeNever(s) ==
  /\ step[s] = "judge" /\ End(s)
  /\ Unwritten /\ UNCHANGED beating

Judge(s) ==
  /\ step[s] = "judge"
  /\ IF copy[s].owner \in beating THEN End(s) ELSE StepTo(s, "reread") /\ UNCHANGED copy
  /\ Unwritten /\ UNCHANGED beating

\* Mutant of Reread: trusts the listing.
RereadTrusts(s) ==
  /\ step[s] = "reread"
  /\ IF copy[s].guarded /\ targetDone
     THEN Begin(s, "write", [copy[s] EXCEPT !.status = "skipped"])
     ELSE StepTo(s, "send") /\ UNCHANGED copy
  /\ Unwritten /\ UNCHANGED beating

\* Only the status is looked at again; then, for a run's timer, whether the run has ended.
Reread(s) ==
  /\ step[s] = "reread"
  /\ IF ~IsPending(file) THEN End(s)
     ELSE IF file.guarded /\ targetDone
     THEN Begin(s, "write", [file EXCEPT !.status = "skipped"])
     ELSE StepTo(s, "send") /\ UNCHANGED copy
  /\ Unwritten /\ UNCHANGED beating

\* Mutant of Fired: the delay is added to the old due time as well.
FiredTooLate(s, r) ==
  IF r.repeat THEN [r EXCEPT !.due = r.due + now + 1] ELSE [r EXCEPT !.status = "fired"]

\* What a tick of s makes of the record it has listed: a repeating timer is stamped anew.
Fired(s, r) ==
  IF r.repeat THEN [r EXCEPT !.due = now + 1, !.owner = IF s = Tab THEN @ ELSE s]
  ELSE [r EXCEPT !.status = "fired"]

\* sendUserMessage is called and not awaited: what becomes of the message is not known here.
Send(s) ==
  /\ step[s] = "send"
  /\ Begin(s, "write", Fired(s, copy[s]))
  /\ sends' = [sends EXCEPT ![copy[s].due] = @ + 1]
  /\ Unworldly /\ UNCHANGED <<file, tmp, beating, cancelled, overlapped, mishaps>>

-----------------------------------------------------------------------------
(* writeTimerAtomic, for a tick or a cancellation *)

WriteTmp(s) ==
  /\ step[s] = "write"
  /\ tmp' = copy[s] /\ StepTo(s, "rename")
  /\ Unworldly /\ UNCHANGED <<file, copy, beating, history, mishaps>>

\* Another call is past its last look at the timer, or has used the .tmp meanwhile.
Overlaps(s) == tmp # copy[s] \/ \E t \in Processes \ {s} : step[t] \in {"send", "write", "rename"}

\* What is renamed is what was written there last; with nothing there the call throws.
Rename(s) ==
  /\ step[s] = "rename" /\ End(s)
  /\ IF tmp = NoTimer THEN UNCHANGED <<file, tmp, cancelled, overlapped>>
     ELSE /\ file' = tmp /\ tmp' = NoTimer
          /\ LET answers == copy[s].status = "cancelled"
             IN /\ cancelled' = (cancelled \/ answers)
                /\ overlapped' = (overlapped \/ (answers /\ Overlaps(s)))
  /\ Unworldly /\ UNCHANGED <<beating, sends, mishaps>>

-----------------------------------------------------------------------------
(* sweepTerminalTimers, on every twelfth tick.  The main sessions sweep the tabs' mailboxes *)
(* too, and there a timer a day overdue.  That a terminal timer is a day old is left open.  *)

Removable(s, r) ==
  \/ Terminal(r) /\ (s = Tab => r.box = "mail")
  \/ IsPending(r) /\ r.box = "mail" /\ r.due + OrphanAge <= now

SweepRead(s) ==
  /\ Idle(s) /\ Removable(s, file)
  /\ StepTo(s, "remove")
  /\ Unwritten /\ UNCHANGED <<beating, copy>>

Remove(s) ==
  /\ step[s] = "remove" /\ StepTo(s, "idle")
  /\ file' = [file EXCEPT !.status = "gone"]
  /\ Unworldly /\ UNCHANGED <<tmp, beating, copy, history, mishaps>>

-----------------------------------------------------------------------------
(* The world *)

TimePasses ==
  /\ now < MaxTime /\ now' = now + 1
  /\ UNCHANGED <<file, tmp, targetDone, up, beating, step, copy, history, mishaps>>

TargetEnds ==
  /\ ~targetDone /\ targetDone' = TRUE
  /\ UNCHANGED <<file, tmp, now, up, beating, step, copy, history, mishaps>>

Mishap == mishaps < MaxMishaps /\ mishaps' = mishaps + 1

\* sendUserMessage throws, or writeFileSync or renameSync does: the tick or the tool ends.
CallFails(s) ==
  /\ Mishap /\ step[s] \in {"send", "write", "rename"} /\ End(s)
  /\ Unworldly /\ UNCHANGED <<file, tmp, beating, history>>

ProcessDies(s) ==
  /\ Mishap /\ s \in up /\ up' = up \ {s} /\ End(s)
  /\ UNCHANGED <<file, tmp, now, targetDone, beating, history>>

ProcessStarts(s) ==
  /\ s \notin up /\ up' = up \cup {s}
  /\ UNCHANGED <<file, tmp, now, targetDone, beating, step, copy, history, mishaps>>

\* Fifteen seconds without a tick: a session that is gone, or, once in a while, one that is not.
HeartbeatGoesStale(s) ==
  /\ s \in beating /\ beating' = beating \ {s}
  /\ IF s \in up THEN Mishap ELSE UNCHANGED mishaps
  /\ Unworldly /\ UNCHANGED <<file, tmp, step, copy, history>>

-----------------------------------------------------------------------------
CallStep(s) ==
  \/ Judge(s) \/ Reread(s) \/ Send(s)
  \/ WriteTmp(s) \/ Rename(s) \/ Remove(s)

TimersNext ==
  \/ \E s \in Processes :
       \/ Pump(s) \/ CallStep(s)
       \/ \E r \in Timers : Set(s, r)
       \/ Cancel(s) \/ SweepRead(s)
       \/ CallFails(s) \/ ProcessDies(s) \/ ProcessStarts(s) \/ HeartbeatGoesStale(s)
  \/ TimePasses \/ TargetEnds

TimersSpec == TimersInit /\ [][TimersNext]_timerVars

\* A tick runs on; the next follows five seconds later; clocks advance.
FairTimersSpec ==
  /\ TimersSpec
  /\ \A s \in Processes : WF_timerVars(CallStep(s)) /\ WF_timerVars(Pump(s))
  /\ \A s \in Mains : WF_timerVars(s \notin up /\ HeartbeatGoesStale(s))
  /\ WF_timerVars(TimePasses)

-----------------------------------------------------------------------------
(* What a timer promises *)

\* Each round of a timer is sent once while nothing goes wrong: no two sessions fire it.  After a
\* crash, a late heartbeat or a failed call each session of the directory may send it, and twice
\* more for each of these: an owner that is late with its heartbeat in mid-call writes its record
\* back while all the others take it for dead.
OncePerRound ==
  \A d \in Rounds :
    sends[d] <= IF mishaps = 0 THEN 1 ELSE Cardinality(Mains) * (1 + 2 * mishaps)

\* A cancellation that was answered is final, unless a call was under way between its last look
\* at the timer and its write: no tick that looks later sends, or brings the timer back.
CancelHolds == cancelled /\ ~overlapped => file.status \in {"cancelled", "gone"}

Sent == \E d \in Rounds : sends[d] > 0

\* A timer is recorded as fired only after its message was handed over.
FiredWasSent == file.status = "fired" => Sent

\* The timer's file and what the sessions sent agree: a round is sent once but for mishaps, a
\* cancelled timer stays silent, a fired one was sent.
FiresAccounted == OncePerRound /\ CancelHolds /\ FiredWasSent

Consumers == {s \in up : file.status # "none" /\ s \in IF file.box = "mail" THEN {Tab} ELSE Mains}

Settled ==
  \/ Sent \/ file.status \in {"cancelled", "skipped"}
  \/ file.box = "mail" /\ file.status = "gone"

\* A timer that was set is heard of in the end, whatever crashes, as long as some session that may
\* consume it runs again and again: its message is sent, or it was cancelled, dropped because its
\* run has ended, or removed from the mailbox of a tab that did not tick for a day.
TimerFires == []<>(Consumers # {}) => (IsPending(file) ~> Settled)
=============================================================================
