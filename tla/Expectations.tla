---------------------------- MODULE Expectations ----------------------------
(***************************************************************************)
(* runtime/expectations.ts: the reply that one request waits for.  Its     *)
(* state is where its file lies - open/<id> while the request waits,       *)
(* closed/<id> for ever after - and what readers of the journal learn of   *)
(* it are lines that are claimed before they are appended.                 *)
(*                                                                         *)
(* A process runs one call at a time; processes interleave at every read   *)
(* and write of a file.  An exclusive create and the write of its contents *)
(* are two steps.  Only the listing of the one open record is one step.    *)
(* Requests share nothing, so one request is the whole model.              *)
(***************************************************************************)
EXTENDS Naturals, FiniteSets

CONSTANTS
  Processes, Declarer,   \* the one whose deliverLetter has just written the request
  Replies, Matching,     \* letters in reply, and those that fit in all four keys
  Deadlines, None,
  MaxReplies, MaxTime, MaxEdits, MaxMishaps  \* bounds on what is explored

ASSUME ExpectationAssumption ==
  /\ Declarer \in Processes /\ Matching \subseteq Replies /\ Deadlines \subseteq Nat
  /\ Processes \cap {"unsent", "pending", "gone"} = {}
  /\ None \notin [rev : Nat, deadline : Deadlines]
  /\ MaxReplies \in Nat /\ MaxTime \in Nat /\ MaxEdits \in Nat /\ MaxMishaps \in Nat

VARIABLES
  open,     \* open/<id>.json
  closed,   \* closed/<id>.json, "torn" until its contents are written
  claims,   \* claims/<key>.claimed
  journal,  \* the lines of events.jsonl
  replies,  \* the letters: not sent, pending, with the process that consumes it, gone
  pc, call, \* next step and operation of each process
  seen,     \* the record the call has read or is about to write
  winners,  \* history: the replies, or the cancellation, that closed the request
  raced,    \* history: was a record written that another update had read?
  now,
  edits,    \* updates and cancellations begun
  mishaps   \* crashes and I/O errors

files == <<open, closed, claims, journal>>
calls == <<replies, pc, call, seen>>
expectationVars == <<files, calls, winners, raced, now, edits, mishaps>>

Records == [rev : 0 .. MaxEdits, deadline : Deadlines]
Keys == [event : {"set", "arrived", "timeout"}, rev : 0 .. MaxEdits]
Lines == [event : {"set", "arrived", "timeout"}, rev : 0 .. MaxEdits, deadline : Deadlines]
Final == {"arrived", "cancelled"}
Labels == {"idle", "declare", "readClosed", "readOpen", "create", "fill", "unlink",
           "recheck", "write", "recheckAfter", "unlinkZombie", "claim", "append"}

TypeOK ==
  /\ open \in Records \cup {None}
  /\ closed \in {"none", "torn"} \cup Final
  /\ claims \subseteq Keys /\ journal \subseteq Lines
  /\ replies \in [Replies -> {"unsent", "pending", "gone"} \cup Processes]
  /\ pc \in [Processes -> Labels]
  /\ call \in [Processes -> {"none", "declare", "match", "rematch", "cancel", "update", "list"}]
  /\ seen \in [Processes -> Records \cup {None}]
  /\ winners \subseteq Replies \cup {"cancel"}
  /\ raced \in BOOLEAN /\ now \in 0 .. MaxTime
  /\ edits \in 0 .. MaxEdits /\ mishaps \in 0 .. MaxMishaps

\* The request's letter has been written, its expectation not yet; a reply may come.
ExpectationInit ==
  /\ open = None /\ closed = "none" /\ claims = {} /\ journal = {}
  /\ \E sent \in {s \in SUBSET Replies : Cardinality(s) <= MaxReplies} :
       replies = [r \in Replies |-> IF r \in sent THEN "pending" ELSE "unsent"]
  /\ pc = [p \in Processes |-> IF p = Declarer THEN "declare" ELSE "idle"]
  /\ call = [p \in Processes |-> IF p = Declarer THEN "declare" ELSE "none"]
  /\ seen = [p \in Processes |-> None]
  /\ winners = {} /\ raced = FALSE
  /\ now = 0 /\ edits = 0 /\ mishaps = 0

-----------------------------------------------------------------------------
(* Calls *)

Goto(p, label) == pc' = [pc EXCEPT ![p] = label]

Begin(p, c, label) ==
  /\ pc[p] = "idle"
  /\ Goto(p, label)
  /\ call' = [call EXCEPT ![p] = c]

\* A call that returns has dealt with the reply it was given.
Return(p) ==
  /\ Goto(p, "idle")
  /\ call' = [call EXCEPT ![p] = "none"]
  /\ seen' = [seen EXCEPT ![p] = None]
  /\ replies' = [r \in Replies |-> IF replies[r] = p THEN "gone" ELSE replies[r]]

Continue(p, label) ==
  /\ Goto(p, label)
  /\ UNCHANGED <<replies, call, seen>>

Mishap ==
  /\ mishaps < MaxMishaps
  /\ mishaps' = mishaps + 1

Uncounted == UNCHANGED <<now, edits>>

\* readRecordFile(closedPath): a torn file is no record.
Readable == closed \in Final

Overdue == open # None /\ open.deadline < now

\* declareExpectation, after the look that finds nothing of this request's new id.
Declare(p) ==
  /\ pc[p] = "declare"
  /\ \/ /\ \E d \in Deadlines :
             /\ open' = [rev |-> 0, deadline |-> d]
             /\ seen' = [seen EXCEPT ![p] = open']
        /\ Goto(p, "claim")
        /\ UNCHANGED <<replies, call, mishaps>>
     \/ Mishap /\ Return(p) /\ UNCHANGED open
  /\ UNCHANGED <<closed, claims, journal, winners, raced>> /\ Uncounted

\* The consumption of a claimed reply, cancelExpectation, updateDeadline begin.
BeginMatch(p, r) ==
  /\ replies[r] = "pending"
  /\ Begin(p, "match", "readClosed")
  /\ replies' = [replies EXCEPT ![r] = p]
  /\ UNCHANGED <<files, seen, winners, raced, now, edits, mishaps>>

BeginCancel(p) ==
  /\ edits < MaxEdits
  /\ Begin(p, "cancel", "readClosed")
  /\ edits' = edits + 1
  /\ UNCHANGED <<files, replies, seen, winners, raced, now, mishaps>>

BeginUpdate(p) ==
  /\ edits < MaxEdits
  /\ Begin(p, "update", "readClosed")
  /\ edits' = edits + 1
  /\ UNCHANGED <<files, replies, seen, winners, raced, now, mishaps>>

\* readExpectation: the closed file is looked for first ...
ReadClosed(p) ==
  /\ pc[p] = "readClosed"
  /\ IF Readable THEN Return(p) ELSE Continue(p, "readOpen")
  /\ UNCHANGED <<files, winners, raced, mishaps>> /\ Uncounted

Fits(p) == \E r \in Matching : replies[r] = p

\* The update a call has read an open record for.
Revised(p, rev) ==
  \E d \in Deadlines :
    seen' = [seen EXCEPT ![p] = [rev |-> rev, deadline |-> d]]

\* Mutant of ReadOpen: the revision is bumped twice.
ReadOpenBumpsTwice(p) ==
  /\ pc[p] = "readOpen"
  /\ \/ /\ open # None /\ call[p] = "update"
        /\ Revised(p, open.rev + 2)
        /\ Goto(p, "recheck")
        /\ UNCHANGED <<replies, call>>
     \/ call[p] # "update" /\ Return(p)
  /\ UNCHANGED <<files, winners, raced, mishaps>> /\ Uncounted

\* Mutant of ReadOpen: a new deadline keeps the revision.
ReadOpenKeepsRevision(p) ==
  /\ pc[p] = "readOpen"
  /\ \/ /\ open # None /\ call[p] = "update"
        /\ Revised(p, open.rev)
        /\ Goto(p, "recheck")
        /\ UNCHANGED <<replies, call>>
     \/ call[p] # "update" /\ Return(p)
  /\ UNCHANGED <<files, winners, raced, mishaps>> /\ Uncounted

\* Mutant of ReadOpen: a reply after the deadline does not close the request.
ReadOpenRefusesLate(p) ==
  /\ pc[p] = "readOpen"
  /\ \/ /\ open # None /\ call[p] = "match" /\ Fits(p) /\ ~Overdue
        /\ seen' = [seen EXCEPT ![p] = open]
        /\ Goto(p, "create")
        /\ UNCHANGED <<replies, call>>
     \/ Overdue /\ Return(p)
  /\ UNCHANGED <<files, winners, raced, mishaps>> /\ Uncounted

\* ... then the open one; only an open request is closed or revised.
ReadOpen(p) ==
  /\ pc[p] = "readOpen"
  /\ \/ /\ open # None
        /\ call[p] = "cancel" \/ (call[p] = "match" /\ Fits(p))
        /\ seen' = [seen EXCEPT ![p] = open]
        /\ Goto(p, "create")
        /\ UNCHANGED <<replies, call>>
     \/ /\ open # None /\ call[p] = "update"
        /\ Revised(p, open.rev + 1)
        /\ Goto(p, "recheck")
        /\ UNCHANGED <<replies, call>>
     \/ /\ open = None \/ call[p] = "rematch" \/ (call[p] = "match" /\ ~Fits(p))
        /\ Return(p)
  /\ UNCHANGED <<files, winners, raced, mishaps>> /\ Uncounted

-----------------------------------------------------------------------------
(* closeRecord, and what its callers make of its answer *)

\* A reply that did not close the request is classified by another look.
Lose(p) ==
  IF call[p] = "match"
  THEN /\ Goto(p, "readClosed")
       /\ call' = [call EXCEPT ![p] = "rematch"]
       /\ UNCHANGED <<replies, seen>>
  ELSE Return(p)

\* Mutant of CreateClosed: the file is not created exclusively.
CreateClosedOverwrites(p) ==
  /\ pc[p] = "create"
  /\ closed' = "torn" /\ Continue(p, "fill")
  /\ UNCHANGED <<open, claims, journal, winners, raced, mishaps>> /\ Uncounted

\* The exclusive create decides; an I/O error counts as a defeat.
CreateClosed(p) ==
  /\ pc[p] = "create"
  /\ \/ /\ closed = "none"
        /\ closed' = "torn" /\ Continue(p, "fill")
        /\ UNCHANGED mishaps
     \/ closed # "none" /\ Lose(p) /\ UNCHANGED <<closed, mishaps>>
     \/ Mishap /\ Lose(p) /\ UNCHANGED closed
  /\ UNCHANGED <<open, claims, journal, winners, raced>> /\ Uncounted

FillClosed(p) ==
  /\ pc[p] = "fill"
  /\ \/ /\ closed' = IF call[p] = "match" THEN "arrived" ELSE "cancelled"
        /\ Continue(p, "unlink")
        /\ UNCHANGED mishaps
     \/ Mishap /\ Lose(p) /\ UNCHANGED closed
  /\ UNCHANGED <<open, claims, journal, winners, raced>> /\ Uncounted

\* The open file goes, or stays behind; an arrival is announced.
UnlinkOpen(p) ==
  /\ pc[p] = "unlink"
  /\ \/ open' = None /\ UNCHANGED mishaps
     \/ Mishap /\ UNCHANGED open
  /\ \/ /\ call[p] = "match"
        /\ winners' = winners \cup {r \in Replies : replies[r] = p}
        /\ Continue(p, "claim")
     \/ /\ call[p] = "cancel"
        /\ winners' = winners \cup {"cancel"}
        /\ Return(p)
  /\ UNCHANGED <<closed, claims, journal, raced>> /\ Uncounted

-----------------------------------------------------------------------------
(* updateDeadline, once it has read the record *)

Recheck(p) ==
  /\ pc[p] = "recheck"
  /\ IF Readable THEN Return(p) ELSE Continue(p, "write")
  /\ UNCHANGED <<files, winners, raced, mishaps>> /\ Uncounted

\* An update has read a record that it has not written yet.
Revising(q) == call[q] = "update" /\ pc[q] \in {"recheck", "write"}

\* The record is written whole, over whatever is there.
WriteOpen(p) ==
  /\ pc[p] = "write"
  /\ \/ /\ open' = seen[p]
        /\ raced' = (raced \/ \E q \in Processes \ {p} : Revising(q))
        /\ Continue(p, "recheckAfter")
        /\ UNCHANGED mishaps
     \/ Mishap /\ Return(p) /\ UNCHANGED <<open, raced>>
  /\ UNCHANGED <<closed, claims, journal, winners>> /\ Uncounted

\* Mutant of RecheckAfter: a closing under way is not looked for again.
RecheckAfterSkipped(p) ==
  /\ pc[p] = "recheckAfter"
  /\ Continue(p, "claim")
  /\ UNCHANGED <<files, winners, raced, mishaps>> /\ Uncounted

\* A closing that came in between makes the write a leftover, which is removed.
RecheckAfter(p) ==
  /\ pc[p] = "recheckAfter"
  /\ Continue(p, IF Readable THEN "unlinkZombie" ELSE "claim")
  /\ UNCHANGED <<files, winners, raced, mishaps>> /\ Uncounted

UnlinkZombie(p) ==
  /\ pc[p] = "unlinkZombie"
  /\ \/ open' = None /\ UNCHANGED mishaps
     \/ Mishap /\ UNCHANGED open
  /\ Return(p)
  /\ UNCHANGED <<closed, claims, journal, winners, raced>> /\ Uncounted

-----------------------------------------------------------------------------
(* The journal *)

\* materializeTimeoutNotices finds the request open and overdue.
List(p) ==
  /\ Overdue /\ closed = "none"
  /\ Begin(p, "list", "claim")
  /\ seen' = [seen EXCEPT ![p] = open]
  /\ UNCHANGED <<files, replies, winners, raced, now, edits, mishaps>>

Event(p) == CASE call[p] = "match" -> "arrived"
              [] call[p] = "list" -> "timeout"
              [] OTHER -> "set"

\* dedupeKey: an arrival has one line, other events one of each revision.
Key(p) == [event |-> Event(p), rev |-> IF Event(p) = "arrived" THEN 0 ELSE seen[p].rev]

Line(p) == [event |-> Event(p), rev |-> Key(p).rev, deadline |-> seen[p].deadline]

\* emitOnce: who creates the claim ...
ClaimLine(p) ==
  /\ pc[p] = "claim"
  /\ \/ /\ Key(p) \notin claims
        /\ claims' = claims \cup {Key(p)}
        /\ Continue(p, "append")
        /\ UNCHANGED mishaps
     \/ Key(p) \in claims /\ Return(p) /\ UNCHANGED <<claims, mishaps>>
     \/ Mishap /\ Return(p) /\ UNCHANGED claims
  /\ UNCHANGED <<open, closed, journal, winners, raced>> /\ Uncounted

\* ... appends the line, and nobody else ever will.
AppendLine(p) ==
  /\ pc[p] = "append"
  /\ \/ journal' = journal \cup {Line(p)} /\ UNCHANGED mishaps
     \/ Mishap /\ UNCHANGED journal
  /\ Return(p)
  /\ UNCHANGED <<open, closed, claims, winners, raced>> /\ Uncounted

-----------------------------------------------------------------------------
(* The environment *)

TimePasses ==
  /\ now < MaxTime
  /\ now' = now + 1
  /\ UNCHANGED <<files, calls, winners, raced, edits, mishaps>>

\* A process dies in a call; the reply it had claimed is listed again, or never.
Crash(p) ==
  /\ pc[p] # "idle"
  /\ Mishap
  /\ Goto(p, "idle")
  /\ call' = [call EXCEPT ![p] = "none"]
  /\ seen' = [seen EXCEPT ![p] = None]
  /\ \E fate \in {"pending", "gone"} :
       replies' = [r \in Replies |-> IF replies[r] = p THEN fate ELSE replies[r]]
  /\ UNCHANGED <<files, winners, raced, now, edits>>

-----------------------------------------------------------------------------
CallStep(p) ==
  \/ Declare(p) \/ ReadClosed(p) \/ ReadOpen(p)
  \/ CreateClosed(p) \/ FillClosed(p) \/ UnlinkOpen(p)
  \/ Recheck(p) \/ WriteOpen(p) \/ RecheckAfter(p) \/ UnlinkZombie(p)
  \/ ClaimLine(p) \/ AppendLine(p)

Consume(p) == \E r \in Replies : BeginMatch(p, r)

ExpectationNext ==
  \/ \E p \in Processes :
       \/ CallStep(p) \/ List(p) \/ Consume(p)
       \/ BeginCancel(p) \/ BeginUpdate(p) \/ Crash(p)
  \/ TimePasses

ExpectationSpec == ExpectationInit /\ [][ExpectationNext]_expectationVars

\* Calls run to their end; every round of the consumer first lists what is overdue
\* and then consumes what is pending.
ExpectationFairness ==
  \A p \in Processes :
    /\ WF_expectationVars(CallStep(p))
    /\ SF_expectationVars(List(p))
    /\ SF_expectationVars(Consume(p))

FairExpectationSpec == ExpectationSpec /\ ExpectationFairness
-----------------------------------------------------------------------------
(* Properties *)

\* A request has one end: of two replies, or a reply and a cancellation, that both
\* found it open, one is told that it closed it, the record says so for ever,
\* and no arrival is announced of a request that was cancelled.
OneOutcome ==
  /\ Cardinality(winners) <= 1
  /\ \A w \in winners :
       \/ w \in Matching /\ closed = "arrived"
       \/ w = "cancel" /\ closed = "cancelled"
  /\ \A l \in journal : l.event = "arrived" => closed = "arrived"

\* A reader of the journal alone is not misled: one line for each event and revision,
\* a time-out only after the deadline, and the deadline is the one announced with
\* that revision - unless two updates were given the same revision.
JournalTrue ==
  \A l, k \in journal :
    /\ l.event = k.event /\ l.rev = k.rev => l = k
    /\ l.event = "timeout" =>
         /\ l.deadline < now
         /\ k.event = "set" /\ k.rev = l.rev => (k.deadline = l.deadline \/ raced)

\* Without a crash or an I/O error the files agree as soon as no call is under way:
\* the request waits or has ended, not both (an update can write the open file
\* back after it has been removed), and the journal has the line of its present state.
AtRestAgree ==
  (\A p \in Processes : pc[p] = "idle") /\ mishaps = 0 =>
    /\ closed # "torn"
    /\ (closed = "none" <=> open # None)
    /\ open # None => \E l \in journal : l.event = "set" /\ l.rev = open.rev
    /\ closed = "arrived" => \E l \in journal : l.event = "arrived"

Announced == \E l \in journal : l.event = "timeout" /\ l.rev = open.rev

Disturbed == mishaps > 0

\* Nobody waits in silence: a fitting reply to an open request closes it, however late
\* it is, and a request that stays overdue is announced, again for each new deadline.
NobodyWaitsInSilence ==
  /\ \A r \in Matching :
       open # None /\ replies[r] = "pending" ~> (closed # "none" \/ Disturbed)
  /\ Overdue ~> (~Overdue \/ Announced \/ Disturbed)
=============================================================================
