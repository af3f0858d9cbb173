-------------------------- MODULE CommandExecution --------------------------
(***************************************************************************)
(* runtime/command-executor.ts: a command, known by its key, takes effect  *)
(* once, however often and wherever it is asked for.  The runtime host     *)
(* executes what is posted to /v1/commands; the session that owns the      *)
(* master executes the command letters of the master's mailbox             *)
(* (mailbox-consumer.ts).  The two share the files of state/commands:      *)
(*   <digest>.claim          created exclusively, the right to execute;    *)
(*   <digest>.outcome.json   what the one execution came to, for replay.   *)
(*                                                                         *)
(* executeCommand is synchronous: a process runs one at a time.  Processes *)
(* interleave at every file operation, and may die between any two.        *)
(*                                                                         *)
(* Three command types stand for the rest: "pause" and "resume" move a     *)
(* workstream and let a failed write escape the handler, "auto" patches    *)
(* the configuration and turns a failed write into an outcome.  "other" is *)
(* any frame that is turned away before the claim.                         *)
(***************************************************************************)
EXTENDS Naturals, FiniteSets

CONSTANTS
  Keys, NoKey,           \* <type>:<commandKey>, and no command
  KindOf,
  Host, Sessions, NoSession,
  Letters, NoLetter,     \* command letters
  MaxRequests, MaxFailures, MaxCrashes, MaxMoves, MaxEdits  \* bounds on what is explored

Processes == Sessions \cup {Host}
Kinds == {"pause", "resume", "auto", "other"}

ASSUME CommandAssumption ==
  /\ NoKey \notin Keys
  /\ KindOf \in [Keys -> Kinds]
  /\ Host \notin Sessions /\ NoSession \notin Sessions
  /\ NoLetter \notin Letters
  /\ MaxRequests \in Nat /\ MaxFailures \in Nat /\ MaxCrashes \in Nat
  /\ MaxMoves \in Nat /\ MaxEdits \in Nat

VARIABLES
  claimed,    \* keys whose claim file exists
  outcome,    \* outcome file of a key
  workstream, \* status of the workstream that pause and resume name
  letter,     \* file of a letter
  owner,      \* the session attached to the master
  consuming,  \* the session has started the mailbox interval
  pc, job, at, result,  \* a process's call: label, key, letter, handler's result
  effects,    \* history: how often a key's command has written its target
  answers,    \* history: what executeCommand has returned for a key
  spoiled,    \* history: keys of which a call met a crash or an I/O error
  abandoned,  \* history: letters whose handling was given up half-way
  requests, failures, crashes, moves, edits

fileVars == <<claimed, outcome, workstream, letter>>
callVars == <<pc, job, at, result>>
historyVars == <<effects, answers, spoiled, abandoned>>
worldVars == <<owner, consuming>>
counters == <<requests, failures, crashes, moves, edits>>
commandVars == <<fileVars, callVars, historyVars, worldVars, counters>>

Results == {"accepted", "noop", "rejected", "failed"}
Answers == Results \cup {"lost"}   \* "lost": rejected as replay-unknown-outcome

Executing == {"look", "write", "record"}
Calling == {"create", "lookup"} \cup Executing
Consuming == {"read", "mark", "fence", "ack", "writeAck"}

LetterFiles == [status : {"none", "pending", "claimed", "acked"},
                key : Keys \cup {NoKey}, by : Sessions \cup {NoSession}]

TypeOK ==
  /\ claimed \subseteq Keys
  /\ outcome \in [Keys -> Results \cup {"none"}]
  /\ workstream \in {"missing", "active", "paused"}
  /\ letter \in [Letters -> LetterFiles]
  /\ \A l \in Letters :
       /\ letter[l].status = "none" <=> letter[l].key = NoKey
       /\ letter[l].status \in {"none", "pending"} <=> letter[l].by = NoSession
  /\ owner \in Sessions
  /\ consuming \in [Sessions -> BOOLEAN]
  /\ pc \in [Processes -> {"idle"} \cup Calling \cup Consuming]
  /\ job \in [Processes -> Keys \cup {NoKey}]
  /\ \A p \in Processes : job[p] = NoKey <=> pc[p] = "idle"
  /\ at \in [Processes -> Letters \cup {NoLetter}]
  /\ \A p \in Processes : at[p] = NoLetter <=> (p = Host \/ pc[p] = "idle")
  /\ result \in [Processes -> Results \cup {"none"}]
  /\ \A p \in Processes : result[p] = "none" <=> pc[p] # "record"
  /\ effects \in [Keys -> Nat]
  /\ answers \in [Keys -> SUBSET Answers]
  /\ spoiled \subseteq Keys
  /\ abandoned \subseteq Letters
  /\ requests \in Nat /\ failures \in Nat /\ crashes \in Nat
  /\ moves \in Nat /\ edits \in Nat

CommandInit ==
  /\ claimed = {}
  /\ outcome = [k \in Keys |-> "none"]
  /\ workstream \in {"missing", "active"}
  /\ letter = [l \in Letters |-> [status |-> "none", key |-> NoKey, by |-> NoSession]]
  /\ owner \in Sessions
  /\ consuming = [s \in Sessions |-> owner = s]
  /\ pc = [p \in Processes |-> "idle"]
  /\ job = [p \in Processes |-> NoKey]
  /\ at = [p \in Processes |-> NoLetter]
  /\ result = [p \in Processes |-> "none"]
  /\ effects = [k \in Keys |-> 0]
  /\ answers = [k \in Keys |-> {}]
  /\ spoiled = {} /\ abandoned = {}
  /\ requests = 0 /\ failures = 0 /\ crashes = 0 /\ moves = 0 /\ edits = 0

-----------------------------------------------------------------------------
(* Steps of a call *)

Goto(p, label) == pc' = [pc EXCEPT ![p] = label]

\* The process has nothing in hand any more.
Finish(p) ==
  /\ Goto(p, "idle")
  /\ job' = [job EXCEPT ![p] = NoKey]
  /\ at' = [at EXCEPT ![p] = NoLetter]
  /\ result' = [result EXCEPT ![p] = "none"]

\* Mutant of Answer: only an accepted command's letter is acknowledged.
AnswerAcksAccepted(p, a) ==
  /\ answers' = [answers EXCEPT ![job[p]] = @ \cup {a}]
  /\ \/ (p = Host \/ a # "accepted") /\ Finish(p)
     \/ /\ p # Host /\ a = "accepted"
        /\ Goto(p, "ack")
        /\ result' = [result EXCEPT ![p] = "none"]
        /\ UNCHANGED <<job, at>>

\* executeCommand returns: the host answers the request, the session goes on
\* to acknowledge the letter, whatever the answer is.
Answer(p, a) ==
  /\ answers' = [answers EXCEPT ![job[p]] = @ \cup {a}]
  /\ \/ p = Host /\ Finish(p)
     \/ /\ p # Host
        /\ Goto(p, "ack")
        /\ result' = [result EXCEPT ![p] = "none"]
        /\ UNCHANGED <<job, at>>

\* An exception ends executeCommand: it answers "failed", and nothing was recorded.
Throw(p) ==
  /\ failures < MaxFailures
  /\ failures' = failures + 1
  /\ spoiled' = spoiled \cup {job[p]}
  /\ Answer(p, "failed")

Calm == UNCHANGED <<requests, failures, crashes, moves, edits>>

-----------------------------------------------------------------------------
(* command-executor.ts, executeCommandInner *)

\* What an idle process does to begin with the command of key k.
Begin(p, k) ==
  /\ job' = [job EXCEPT ![p] = k]
  /\ Goto(p, "create")

\* A frame of another type, or of the wrong shape, leaves no trace.
TurnAway(p) ==
  /\ pc[p] = "create" /\ KindOf[job[p]] = "other"
  /\ Answer(p, "rejected")
  /\ UNCHANGED <<fileVars, effects, spoiled, abandoned, worldVars>> /\ Calm

\* Mutant of CreateClaim: the create is not exclusive.
CreateClaimAnyway(p) ==
  /\ pc[p] = "create" /\ KindOf[job[p]] # "other"
  /\ claimed' = claimed \cup {job[p]}
  /\ Goto(p, "look")
  /\ UNCHANGED <<outcome, workstream, letter, job, at, result, historyVars, worldVars>> /\ Calm

\* claimCommandExecution: one exclusive create decides who executes.
CreateClaim(p) ==
  /\ pc[p] = "create" /\ KindOf[job[p]] # "other"
  /\ \/ /\ job[p] \notin claimed
        /\ claimed' = claimed \cup {job[p]}
        /\ Goto(p, "look")
     \/ /\ job[p] \in claimed
        /\ Goto(p, "lookup")
        /\ UNCHANGED claimed
  /\ UNCHANGED <<outcome, workstream, letter, job, at, result, historyVars, worldVars>> /\ Calm

\* Mutant of Replay: without an outcome the command is executed after all.
ReplayOrExecute(p) ==
  /\ pc[p] = "lookup"
  /\ \/ /\ outcome[job[p]] # "none"
        /\ Answer(p, outcome[job[p]])
     \/ /\ outcome[job[p]] = "none"
        /\ Goto(p, "look")
        /\ UNCHANGED <<job, at, result, answers>>
  /\ UNCHANGED <<fileVars, effects, spoiled, abandoned, worldVars>> /\ Calm

\* The loser replays the outcome, or says that there is none to replay.
Replay(p) ==
  /\ pc[p] = "lookup"
  /\ Answer(p, IF outcome[job[p]] = "none" THEN "lost" ELSE outcome[job[p]])
  /\ UNCHANGED <<fileVars, effects, spoiled, abandoned, worldVars>> /\ Calm

Target(k) == IF KindOf[k] = "pause" THEN "paused" ELSE "active"

\* runWorkstreamStatus decides on what it reads.  A letter is addressed to the
\* master, so it names no workstream.
LookAtWorkstream(p) ==
  LET decide(r) == result' = [result EXCEPT ![p] = r] IN
  /\ pc[p] = "look" /\ KindOf[job[p]] \in {"pause", "resume"}
  /\ \/ /\ p # Host \/ workstream = "missing"
        /\ decide("rejected") /\ Goto(p, "record")
     \/ /\ p = Host /\ workstream = Target(job[p])
        /\ decide("noop") /\ Goto(p, "record")
     \/ /\ p = Host /\ workstream \notin {"missing", Target(job[p])}
        /\ Goto(p, "write") /\ UNCHANGED result
  /\ UNCHANGED <<fileVars, job, at, historyVars, worldVars>> /\ Calm

\* runAutoHandoffSet reads the configuration; what is wrong there is an outcome.
LookAtConfig(p) ==
  /\ pc[p] = "look" /\ KindOf[job[p]] = "auto"
  /\ \/ /\ Goto(p, "write")
        /\ UNCHANGED <<result, failures>>
     \/ /\ failures < MaxFailures
        /\ failures' = failures + 1
        /\ result' = [result EXCEPT ![p] = "failed"]
        /\ Goto(p, "record")
  /\ UNCHANGED <<fileVars, job, at, historyVars, worldVars, requests, crashes, moves, edits>>

\* updateWorkstream writes the status whatever it is by now; writeJsonAtomic
\* the configuration.
WriteTarget(p) ==
  LET k == job[p] IN
  /\ pc[p] = "write"
  /\ workstream' = IF KindOf[k] = "auto" THEN workstream ELSE Target(k)
  /\ effects' = [effects EXCEPT ![k] = @ + 1]
  /\ result' = [result EXCEPT ![p] = "accepted"]
  /\ Goto(p, "record")
  /\ UNCHANGED <<claimed, outcome, letter, job, at, answers, spoiled, abandoned, worldVars>>
  /\ Calm

\* Mutant of WriteFails: the handler swallows the error and reports success.
WriteFailsSilently(p) ==
  /\ pc[p] = "write"
  /\ failures < MaxFailures
  /\ failures' = failures + 1
  /\ result' = [result EXCEPT ![p] = "accepted"]
  /\ Goto(p, "record")
  /\ UNCHANGED <<fileVars, job, at, historyVars, worldVars, requests, crashes, moves, edits>>

\* The write fails: an outcome for the configuration, an exception for a workstream.
WriteFails(p) ==
  /\ pc[p] = "write"
  /\ \/ /\ KindOf[job[p]] = "auto"
        /\ failures < MaxFailures
        /\ failures' = failures + 1
        /\ result' = [result EXCEPT ![p] = "failed"]
        /\ Goto(p, "record")
        /\ UNCHANGED <<job, at, answers, spoiled>>
     \/ /\ KindOf[job[p]] # "auto"
        /\ Throw(p)
  /\ UNCHANGED <<fileVars, effects, abandoned, worldVars, requests, crashes, moves, edits>>

\* writeCommandOutcome; then executeCommand returns.
RecordOutcome(p) ==
  /\ pc[p] = "record"
  /\ outcome' = [outcome EXCEPT ![job[p]] = result[p]]
  /\ Answer(p, result[p])
  /\ UNCHANGED <<claimed, workstream, letter, effects, spoiled, abandoned, worldVars>> /\ Calm

\* The claim's create or the outcome's write fails; the command may have
\* taken effect by then.
StateFails(p) ==
  /\ pc[p] \in {"create", "record"} /\ KindOf[job[p]] # "other"
  /\ Throw(p)
  /\ UNCHANGED <<fileVars, effects, abandoned, worldVars, requests, crashes, moves, edits>>

-----------------------------------------------------------------------------
(* server.ts: POST /v1/commands.  A client may repeat its request at will. *)
Request(k) ==
  /\ pc[Host] = "idle"
  /\ requests < MaxRequests
  /\ requests' = requests + 1
  /\ Begin(Host, k)
  /\ UNCHANGED <<fileVars, at, result, historyVars, worldVars, failures, crashes, moves, edits>>

-----------------------------------------------------------------------------
(* mailbox-consumer.ts: the chain of command letters *)

\* deliverCommand
Deliver(l, k) ==
  /\ letter[l].status = "none"
  /\ letter' = [letter EXCEPT ![l] = [status |-> "pending", key |-> k, by |-> NoSession]]
  /\ UNCHANGED <<claimed, outcome, workstream, callVars, historyVars, worldVars>> /\ Calm

\* The owner's tick lists pending letters, and only those.
ListCommand(s, l) ==
  /\ pc[s] = "idle"
  /\ consuming[s] /\ owner = s
  /\ letter[l].status = "pending"
  /\ at' = [at EXCEPT ![s] = l]
  /\ job' = [job EXCEPT ![s] = letter[l].key]
  /\ Goto(s, "read")
  /\ UNCHANGED <<fileVars, result, historyVars, worldVars>> /\ Calm

\* claimLetters: read (a claim made since the list is not ten minutes old) ...
ReadLetter(s) ==
  /\ pc[s] = "read"
  /\ \/ /\ letter[at[s]].status = "pending"
        /\ Goto(s, "mark")
        /\ UNCHANGED <<job, at, result>>
     \/ /\ letter[at[s]].status # "pending"
        /\ Finish(s)
  /\ UNCHANGED <<fileVars, historyVars, worldVars>> /\ Calm

\* ... and write.
ClaimLetter(s) ==
  /\ pc[s] = "mark"
  /\ letter' = [letter EXCEPT ![at[s]].status = "claimed", ![at[s]].by = s]
  /\ Goto(s, "fence")
  /\ UNCHANGED <<claimed, outcome, workstream, job, at, result, historyVars, worldVars>> /\ Calm

\* Mutant of PassFence: the letter of a session that lost the master is done.
PassFenceAcks(s) ==
  /\ pc[s] = "fence"
  /\ \/ owner = s /\ Goto(s, "create")
     \/ owner # s /\ Goto(s, "ack")
  /\ UNCHANGED <<fileVars, job, at, result, historyVars, worldVars>> /\ Calm

\* The fencing recheck: a session that lost the master must not execute.
PassFence(s) ==
  /\ pc[s] = "fence"
  /\ \/ /\ owner = s
        /\ Goto(s, "create")
        /\ UNCHANGED <<job, at, result, abandoned>>
     \/ /\ owner # s
        /\ abandoned' = abandoned \cup {at[s]}
        /\ Finish(s)
  /\ UNCHANGED <<fileVars, effects, answers, spoiled, worldVars>> /\ Calm

\* ackLetter: whoever holds the claim, the letter is done.
ReadToAck(s) ==
  /\ pc[s] = "ack"
  /\ \/ /\ letter[at[s]].status = "claimed"
        /\ Goto(s, "writeAck")
        /\ UNCHANGED <<job, at, result>>
     \/ /\ letter[at[s]].status # "claimed"
        /\ Finish(s)
  /\ UNCHANGED <<fileVars, historyVars, worldVars>> /\ Calm

AckLetter(s) ==
  /\ pc[s] = "writeAck"
  /\ letter' = [letter EXCEPT ![at[s]].status = "acked"]
  /\ Finish(s)
  /\ UNCHANGED <<claimed, outcome, workstream, historyVars, worldVars>> /\ Calm

\* A write of the letter fails; the letter is passed over.
LetterFails(s) ==
  /\ pc[s] \in {"mark", "writeAck"}
  /\ failures < MaxFailures
  /\ failures' = failures + 1
  /\ abandoned' = IF pc[s] = "mark" THEN abandoned ELSE abandoned \cup {at[s]}
  /\ Finish(s)
  /\ UNCHANGED <<fileVars, effects, answers, spoiled, worldVars, requests, crashes, moves, edits>>

-----------------------------------------------------------------------------
(* The environment *)

\* /workstream-pause and /workstream-pause off in a session: no look, one write.
Edit(status) ==
  /\ edits < MaxEdits /\ workstream # "missing"
  /\ edits' = edits + 1
  /\ workstream' = status
  /\ UNCHANGED <<claimed, outcome, letter, callVars, historyVars, worldVars>>
  /\ UNCHANGED <<requests, failures, crashes, moves>>

OwnerMoves(s) ==
  /\ s # owner /\ moves < MaxMoves
  /\ owner' = s
  /\ moves' = moves + 1
  /\ UNCHANGED <<fileVars, callVars, historyVars, consuming, requests, failures, crashes, edits>>

\* A process dies and is started again.  A session that owns the master by then
\* starts the mailbox interval.
Crash(p) ==
  /\ crashes < MaxCrashes
  /\ crashes' = crashes + 1
  /\ Finish(p)
  /\ spoiled' = IF pc[p] \in Executing THEN spoiled \cup {job[p]} ELSE spoiled
  /\ abandoned' = IF p # Host /\ pc[p] \notin {"idle", "read", "mark"}
                  THEN abandoned \cup {at[p]} ELSE abandoned
  /\ consuming' = [s \in Sessions |-> IF s = p THEN owner = s ELSE consuming[s]]
  /\ UNCHANGED <<fileVars, effects, answers, owner, requests, failures, moves, edits>>

-----------------------------------------------------------------------------
Execute(p) ==
  \/ TurnAway(p) \/ CreateClaim(p) \/ Replay(p)
  \/ LookAtWorkstream(p) \/ LookAtConfig(p) \/ WriteTarget(p) \/ RecordOutcome(p)

Fails(p) == WriteFails(p) \/ StateFails(p)

ConsumerStep(s) ==
  \/ \E l \in Letters : ListCommand(s, l)
  \/ ReadLetter(s) \/ ClaimLetter(s) \/ PassFence(s) \/ ReadToAck(s) \/ AckLetter(s)

CommandNext ==
  \/ \E k \in Keys : Request(k) \/ \E l \in Letters : Deliver(l, k)
  \/ \E p \in Processes : Execute(p) \/ Fails(p) \/ Crash(p)
  \/ \E s \in Sessions : ConsumerStep(s) \/ LetterFails(s) \/ OwnerMoves(s)
  \/ \E status \in {"active", "paused"} : Edit(status)

CommandSpec == CommandInit /\ [][CommandNext]_commandVars

\* A call that was begun runs on, and the interval fires.
CommandFairness ==
  /\ WF_commandVars(Execute(Host))
  /\ \A s \in Sessions : WF_commandVars(Execute(s) \/ ConsumerStep(s))

FairCommandSpec == CommandSpec /\ CommandFairness
-----------------------------------------------------------------------------
(* Properties *)

\* What a session executes, and later acknowledges, is the letter it has claimed,
\* whoever else claimed or acknowledged the same letter meanwhile.
LetterInHand ==
  \A s \in Sessions : pc[s] # "idle" =>
    /\ job[s] = letter[at[s]].key
    /\ letter[at[s]].status # "none"
    /\ pc[s] \notin {"read", "mark"} => letter[at[s]].status \in {"claimed", "acked"}

\* Whoever asks, whenever it crashes: no command takes effect twice.
AtMostOnce == \A k \in Keys : effects[k] <= 1

\* An answer is true for good: a command that was accepted has taken effect, and
\* one that was answered as rejected, or as not needed, never will.
AnswersTrue ==
  \A k \in Keys :
    /\ "accepted" \in answers[k] => effects[k] = 1
    /\ answers[k] \cap {"rejected", "noop"} # {} => effects[k] = 0
    /\ "failed" \in answers[k] /\ k \notin spoiled => effects[k] = 0

\* Every entrance gives the same answer to a key, but for a loser that finds no
\* outcome and a call that an I/O error ended.
AnswersAgree ==
  \A k \in Keys : \A a, b \in answers[k] \ {"lost"} :
    a = b \/ ("failed" \in {a, b} /\ k \in spoiled)

\* A letter is acknowledged only when its command has an outcome, or one is being
\* made, unless a crash or an I/O error spoiled the execution.
AckedWasDecided ==
  \A l \in Letters : letter[l].status = "acked" =>
    LET k == letter[l].key IN
    \/ outcome[k] # "none" \/ KindOf[k] = "other" \/ k \in spoiled
    \/ \E p \in Processes : pc[p] \in Executing /\ job[p] = k

\* A letter is acknowledged in the end, whatever its command came to, if its
\* consumer does not give it up half-way and the owner of the master has a
\* consumer at all.
LettersSettle ==
  \A l \in Letters : letter[l].status = "pending" ~>
    (letter[l].status = "acked" \/ l \in abandoned \/ ~consuming[owner])

\* Keys whose command some process executes.
Running == {k \in Keys : \E p \in Processes : pc[p] \in Executing /\ job[p] = k}

OS == INSTANCE OneShot WITH
        Executable <- {k \in Keys : KindOf[k] # "other"},
        begun <- claimed, running <- Running, decision <- outcome

\* Claims, outcome files, crashes and the callers' races come down to a command
\* that is begun, takes effect and is decided once, and whose answers repeat the
\* decision (module OneShot).
ImplementsOneShot == OS!OneShotSpec
=============================================================================
