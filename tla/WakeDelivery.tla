---------------------------- MODULE WakeDelivery ----------------------------
(***************************************************************************)
(* The loops that turn letters into work: every 30 s the owner of an       *)
(* address lists its letters, claims them, spawns one tab whose prompt     *)
(* holds the claimed letters, and acknowledges them when the spawn went    *)
(* well.  Loop chooses between the two that exist:                         *)
(*   "scope"       runtime/scope.ts, the local master of a repository;     *)
(*   "workstream"  runtime/wake.ts, the sub-master of a workstream.        *)
(* They differ in the letters they look for.  The letters are files of     *)
(* runtime/mailbox.ts.                                                     *)
(*                                                                         *)
(* A tick is one synchronous call, but the owner may change, or crash, in  *)
(* the middle of it, and the next owner works on the same files.           *)
(***************************************************************************)
EXTENDS Naturals, FiniteSets

CONSTANTS
  Sessions, NoSession,
  Letters,
  Loop,
  MaxCrashes, MaxFailures, MaxMoves, MaxRests  \* bounds on what is explored

ASSUME WakeAssumption ==
  /\ NoSession \notin Sessions
  /\ Sessions # {}
  /\ IsFiniteSet(Letters)
  /\ Loop \in {"scope", "workstream"}
  /\ MaxCrashes \in Nat /\ MaxFailures \in Nat /\ MaxMoves \in Nat /\ MaxRests \in Nat

VARIABLES
  letter,     \* the letter's file
  owner,      \* the session attached to the scope; for a workstream, to the master
  ticking,    \* the session has started the interval
  resting,    \* a tab is in flight, or cooldown, debounce, cap or pause hold
  pc, listed, batch, todo,  \* the session's tick and its locals
  prompts,    \* history: in how many spawned prompts the letter was
  lost,       \* history: how often a tick left the letter claimed after prompting it
  abandoned,  \* history: letters that a tick left claimed before prompting them
  crashes, failures, moves, rests

wakeVars == <<letter, owner, ticking, resting, pc, listed, batch, todo, prompts, lost,
              abandoned, crashes, failures, moves, rests>>

LetterFiles == [status : {"none", "pending", "claimed", "acked"},
                by : Sessions \cup {NoSession}, old : BOOLEAN]
NoLetter == [status |-> "none", by |-> NoSession, old |-> FALSE]

TypeOK ==
  /\ letter \in [Letters -> LetterFiles]
  /\ \A l \in Letters : letter[l].status \in {"none", "pending"} <=> letter[l].by = NoSession
  /\ owner \in Sessions
  /\ ticking \in [Sessions -> BOOLEAN]
  /\ resting \in BOOLEAN
  /\ pc \in [Sessions -> {"idle", "read", "claim", "spawn", "state", "ack"}]
  /\ listed \in [Sessions -> SUBSET Letters]
  /\ batch \in [Sessions -> SUBSET Letters]
  /\ todo \in [Sessions -> SUBSET Letters]
  /\ prompts \in [Letters -> Nat]
  /\ lost \in [Letters -> Nat]
  /\ abandoned \subseteq Letters
  /\ crashes \in Nat /\ failures \in Nat /\ moves \in Nat /\ rests \in Nat

WakeInit ==
  /\ letter = [l \in Letters |-> NoLetter]
  /\ owner \in Sessions
  /\ ticking = [s \in Sessions |-> owner = s]
  /\ resting = FALSE
  /\ pc = [s \in Sessions |-> "idle"]
  /\ listed = [s \in Sessions |-> {}]
  /\ batch = [s \in Sessions |-> {}]
  /\ todo = [s \in Sessions |-> {}]
  /\ prompts = [l \in Letters |-> 0]
  /\ lost = [l \in Letters |-> 0]
  /\ abandoned = {}
  /\ crashes = 0 /\ failures = 0 /\ moves = 0 /\ rests = 0

-----------------------------------------------------------------------------
Pending == {l \in Letters : letter[l].status = "pending"}
StaleClaimed == {l \in Letters : letter[l].status = "claimed" /\ letter[l].old}

\* What claimLetters takes.
Claimable == Pending \cup StaleClaimed

\* Mutant of Wanted: stale claims are nobody's business.
WantedPendingOnly == Pending

\* What makes a tick go on: listScopeWakeLetters looks at both, listLetters of
\* wake.ts at pending letters only.
Wanted == IF Loop = "scope" THEN Claimable ELSE Pending

Goto(s, label) == pc' = [pc EXCEPT ![s] = label]

EndTick(s) ==
  /\ Goto(s, "idle")
  /\ listed' = [listed EXCEPT ![s] = {}]
  /\ batch' = [batch EXCEPT ![s] = {}]
  /\ todo' = [todo EXCEPT ![s] = {}]

Counters == UNCHANGED <<lost, abandoned, crashes, failures, moves, rests>>

\* A read or a write throws.
Fault ==
  /\ failures < MaxFailures
  /\ failures' = failures + 1
  /\ UNCHANGED <<crashes, moves, rests>>

\* The letters of its batch that the tick of s leaves claimed if it ends now, but
\* for those it has passed over, and what the histories say of them then.
Left(s) ==
  {l \in batch[s] : /\ letter[l].status = "claimed" /\ letter[l].by = s
                    /\ pc[s] = "ack" => l \in todo[s]}
Abandon(s) == abandoned' = abandoned \cup Left(s)
Lose(gone) == lost' = [l \in Letters |-> IF l \in gone THEN lost[l] + 1 ELSE lost[l]]

\* deliverLetter
Deliver(l) ==
  /\ letter[l].status = "none"
  /\ letter' = [letter EXCEPT ![l].status = "pending"]
  /\ UNCHANGED <<owner, ticking, resting, pc, listed, batch, todo, prompts>> /\ Counters

\* evaluateScopeWake, evaluateOne: the gates, then the list of letters.
Tick(s) ==
  /\ pc[s] = "idle"
  /\ ticking[s] /\ owner = s /\ ~resting
  /\ Wanted # {}
  /\ listed' = [listed EXCEPT ![s] = IF Loop = "scope" THEN Wanted ELSE Letters]
  /\ Goto(s, "read")
  /\ UNCHANGED <<letter, owner, ticking, resting, batch, todo, prompts>> /\ Counters

\* claimLetters reads every file again before it writes the first.
ReadLetters(s) ==
  LET taken == listed[s] \cap Claimable IN
  /\ pc[s] = "read"
  /\ \/ /\ taken # {}
        /\ batch' = [batch EXCEPT ![s] = taken]
        /\ todo' = [todo EXCEPT ![s] = taken]
        /\ Goto(s, "claim")
        /\ UNCHANGED listed
     \/ /\ taken = {}
        /\ EndTick(s)
  /\ UNCHANGED <<letter, owner, ticking, resting, prompts>> /\ Counters

\* Mutant of ClaimLetter: the claim is not written.
ClaimLetterUnwritten(s, l) ==
  /\ pc[s] = "claim"
  /\ l \in todo[s]
  /\ todo' = [todo EXCEPT ![s] = @ \ {l}]
  /\ Goto(s, IF todo[s] = {l} THEN "spawn" ELSE "claim")
  /\ UNCHANGED <<letter, owner, ticking, resting, listed, batch, prompts>> /\ Counters

\* Mutant of ClaimLetter: the claim does not say whose it is.
ClaimLetterAnonymously(s, l) ==
  /\ pc[s] = "claim"
  /\ l \in todo[s]
  /\ letter' = [letter EXCEPT ![l] = [status |-> "claimed", by |-> NoSession, old |-> FALSE]]
  /\ todo' = [todo EXCEPT ![s] = @ \ {l}]
  /\ Goto(s, IF todo[s] = {l} THEN "spawn" ELSE "claim")
  /\ UNCHANGED <<owner, ticking, resting, listed, batch, prompts>> /\ Counters

\* claimLetters writes what it has read, whatever the file says by now.
ClaimLetter(s, l) ==
  /\ pc[s] = "claim"
  /\ l \in todo[s]
  /\ letter' = [letter EXCEPT ![l] = [status |-> "claimed", by |-> s, old |-> FALSE]]
  /\ todo' = [todo EXCEPT ![s] = @ \ {l}]
  /\ Goto(s, IF todo[s] = {l} THEN "spawn" ELSE "claim")
  /\ UNCHANGED <<owner, ticking, resting, listed, batch, prompts>> /\ Counters

\* One of those writes throws: the tick ends, and what it has claimed stays so.
ClaimFails(s) ==
  /\ pc[s] = "claim"
  /\ Fault /\ EndTick(s) /\ Abandon(s)
  /\ UNCHANGED <<letter, owner, ticking, resting, prompts, lost>>

\* The tab is spawned; its prompt holds the batch.
Spawn(s) ==
  /\ pc[s] = "spawn"
  /\ prompts' = [l \in Letters |-> IF l \in batch[s] THEN prompts[l] + 1 ELSE prompts[l]]
  /\ Goto(s, "state")
  /\ UNCHANGED <<letter, owner, ticking, resting, listed, batch, todo>> /\ Counters

\* The spawn throws: an audit line, and the letters stay claimed.
SpawnFails(s) ==
  /\ pc[s] = "spawn"
  /\ Fault /\ EndTick(s) /\ Abandon(s)
  /\ UNCHANGED <<letter, owner, ticking, resting, prompts, lost>>

\* confirmScopeWakeSpawn, confirmWakeSpawn: the wake state first ...
WriteWakeState(s) ==
  /\ pc[s] = "state"
  /\ resting' = TRUE
  /\ todo' = [todo EXCEPT ![s] = Letters]
  /\ Goto(s, "ack")
  /\ UNCHANGED <<letter, owner, ticking, listed, batch, prompts>> /\ Counters

\* ... unless that throws, which is told as a failed spawn: the tab runs, but
\* nobody waits for it and its letters stay claimed.
WakeStateFails(s) ==
  /\ pc[s] = "state"
  /\ Fault /\ EndTick(s) /\ Lose(Left(s))
  /\ UNCHANGED <<letter, owner, ticking, resting, prompts, abandoned>>

\* Mutant of AckClaimedBy: every letter that is not done yet, whoever claimed it.
AckAnyLetter(s, l) ==
  /\ pc[s] = "ack"
  /\ l \in todo[s]
  /\ letter' = IF letter[l].status = "claimed"
               THEN [letter EXCEPT ![l].status = "acked"]
               ELSE letter
  /\ IF todo[s] = {l}
     THEN EndTick(s)
     ELSE todo' = [todo EXCEPT ![s] = @ \ {l}] /\ UNCHANGED <<pc, listed, batch>>
  /\ UNCHANGED <<owner, ticking, resting, prompts>> /\ Counters

\* ... then ackClaimedBy: every letter that this holder has claimed.
AckClaimedBy(s, l) ==
  /\ pc[s] = "ack"
  /\ l \in todo[s]
  /\ letter' = IF letter[l].status = "claimed" /\ letter[l].by = s
               THEN [letter EXCEPT ![l].status = "acked"]
               ELSE letter
  /\ IF todo[s] = {l}
     THEN EndTick(s)
     ELSE todo' = [todo EXCEPT ![s] = @ \ {l}] /\ UNCHANGED <<pc, listed, batch>>
  /\ UNCHANGED <<owner, ticking, resting, prompts>> /\ Counters

\* A letter that cannot be read or written is passed over, and stays claimed.
AckFails(s, l) ==
  /\ pc[s] = "ack"
  /\ l \in todo[s]
  /\ letter[l].status = "claimed" /\ letter[l].by = s
  /\ Fault /\ Lose({l} \cap Left(s))
  /\ IF todo[s] = {l}
     THEN EndTick(s)
     ELSE todo' = [todo EXCEPT ![s] = @ \ {l}] /\ UNCHANGED <<pc, listed, batch>>
  /\ UNCHANGED <<letter, owner, ticking, resting, prompts, abandoned>>

-----------------------------------------------------------------------------
(* The environment *)

\* Ten minutes pass over a claim that no running tick holds.
ClaimGrowsOld(l) ==
  /\ letter[l].status = "claimed" /\ ~letter[l].old
  /\ pc[letter[l].by] = "idle"
  /\ letter' = [letter EXCEPT ![l].old = TRUE]
  /\ UNCHANGED <<owner, ticking, resting, pc, listed, batch, todo, prompts>> /\ Counters

\* The gates close (the user pauses, a letter is too young) ...
RestBegins ==
  /\ ~resting /\ rests < MaxRests
  /\ resting' = TRUE
  /\ rests' = rests + 1
  /\ UNCHANGED <<letter, owner, ticking, pc, listed, batch, todo, prompts, lost, abandoned>>
  /\ UNCHANGED <<crashes, failures, moves>>

\* ... and open again: the tab has ended, the cooldown is over.
RestEnds ==
  /\ resting
  /\ resting' = FALSE
  /\ UNCHANGED <<letter, owner, ticking, pc, listed, batch, todo, prompts>> /\ Counters

\* The address is attached to another session.  Attaching to a scope starts its
\* loop there and then (activateScopeConsumption); nothing does for a workstream.
OwnerMoves(s) ==
  /\ s # owner /\ moves < MaxMoves
  /\ owner' = s
  /\ ticking' = [ticking EXCEPT ![s] = @ \/ Loop = "scope"]
  /\ moves' = moves + 1
  /\ UNCHANGED <<letter, resting, pc, listed, batch, todo, prompts, lost, abandoned>>
  /\ UNCHANGED <<crashes, failures, rests>>

\* session_start of an idle session: it starts the loop when it is the owner.
Restart(s) ==
  /\ pc[s] = "idle" /\ ticking[s] # (owner = s)
  /\ ticking' = [ticking EXCEPT ![s] = (owner = s)]
  /\ UNCHANGED <<letter, owner, resting, pc, listed, batch, todo, prompts>> /\ Counters

\* The session's process dies in the middle of a tick and is resumed.
Crash(s) ==
  /\ pc[s] # "idle" /\ crashes < MaxCrashes
  /\ crashes' = crashes + 1
  /\ \/ pc[s] \in {"read", "claim", "spawn"} /\ Abandon(s) /\ UNCHANGED lost
     \/ pc[s] \in {"state", "ack"} /\ Lose(Left(s)) /\ UNCHANGED abandoned
  /\ EndTick(s)
  /\ ticking' = [ticking EXCEPT ![s] = (owner = s)]
  /\ UNCHANGED <<letter, owner, resting, prompts, failures, moves, rests>>

-----------------------------------------------------------------------------
TickStep(s) ==
  \/ ReadLetters(s) \/ ClaimFails(s) \/ Spawn(s) \/ SpawnFails(s)
  \/ WriteWakeState(s) \/ WakeStateFails(s)
  \/ \E l \in Letters : ClaimLetter(s, l) \/ AckClaimedBy(s, l) \/ AckFails(s, l)

WakeNext ==
  \/ RestBegins \/ RestEnds
  \/ \E l \in Letters : Deliver(l) \/ ClaimGrowsOld(l)
  \/ \E s \in Sessions : Tick(s) \/ TickStep(s) \/ OwnerMoves(s) \/ Restart(s) \/ Crash(s)

WakeSpec == WakeInit /\ [][WakeNext]_wakeVars

\* The interval fires, a tick runs to its end, clocks advance.
WakeFairness ==
  /\ \A s \in Sessions : WF_wakeVars(Tick(s)) /\ WF_wakeVars(TickStep(s))
  /\ \A l \in Letters : WF_wakeVars(ClaimGrowsOld(l))
  /\ WF_wakeVars(RestEnds)

FairWakeSpec == WakeSpec /\ WakeFairness
-----------------------------------------------------------------------------
(* Properties *)

\* A letter is in one prompt, and in one more for each change of owner and for
\* each tick that prompted it and then left it claimed, because it crashed or a
\* write failed: the claim is the barrier against double waking.
PromptsAccounted == \A l \in Letters : prompts[l] <= 1 + lost[l] + moves

\* At least once: a letter is acknowledged only after some prompt held it.  The
\* code breaks this for the letters of a tick that failed between their claims and
\* the spawn (README, section 4), and for no other letter, however the ticks of
\* successive owners overlap.
UnreadOnlyIfAbandoned ==
  \A l \in Letters : letter[l].status = "acked" => prompts[l] > 0 \/ l \in abandoned

\* A letter that was delivered is acknowledged in the end, whatever tick failed,
\* crashed or lost its ownership half-way.
LettersSettle ==
  \A l \in Letters : letter[l].status = "pending" ~> letter[l].status = "acked"
=============================================================================
