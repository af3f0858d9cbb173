-------------------------- MODULE MasterSuccession --------------------------
(***************************************************************************)
(* runtime/master-succession.ts and master-auto.ts: under context pressure *)
(* the owner's session proposes a hand-over of the global master, once per *)
(* generation, and may start one by itself, once per generation; a person  *)
(* asks for a proposal and accepts it through the host; the transfer takes *)
(* the proposal over, and the next owner's confirmation closes it.         *)
(*                                                                         *)
(* The owner's sessions and the host are one process each, which runs one  *)
(* call at a time; processes interleave at each read and write of the      *)
(* proposal, the right to create it and the marker.  What a transfer does  *)
(* to other files is left out: here it succeeds or fails, and the owner    *)
(* may change at any time.  The age of a right is a flag.                  *)
(***************************************************************************)
EXTENDS Naturals, FiniteSets

CONSTANTS
  Sessions, FirstOwner, Host,
  MaxGeneration, MaxCrashes, MaxBusy  \* bounds on what is explored

Processes == Sessions \cup {Host}
Generations == 1 .. MaxGeneration

ASSUME SuccessionAssumption ==
  /\ FirstOwner \in Sessions /\ Host \notin Sessions
  /\ MaxGeneration \in Nat \ {0} /\ MaxCrashes \in Nat /\ MaxBusy \in Nat

VARIABLES
  owner,       \* registry/attachments: session and generation
  proposal,    \* master-succession.json
  right,       \* master-succession-claims/gen-<n>.claim: who may create it
  marker,      \* master-auto.json: the generation last attempted
  pc, call, copy, \* each process's next step, its call, the proposal it will write back
  created, attempted, \* history: generations with a proposal, with an automatic attempt
  repeated,    \* history: what happened a second time in some generation
  strayed,     \* history: what was lost to a robbed right or an older generation's write
  crashes

files == <<owner, proposal, right, marker>>
history == <<created, attempted, repeated, strayed>>
successionVars == <<files, history, pc, call, copy, crashes>>

NoProposal == [generation |-> 0, by |-> Host, status |-> "none"]
NoCall == [generation |-> 0, by |-> Host, retry |-> FALSE, auto |-> FALSE]

Proposals == [generation : 0 .. MaxGeneration, by : Processes,
              status : {"none", "pending", "accepted", "transferring", "completed"}]
Labels == {"idle", "propose", "claim", "recheck", "create", "spin", "age", "unlink",
           "gate", "mark", "transfer", "adopt", "adoptWrite", "failed", "completed",
           "finishWrite", "decideWrite"}

TypeOK ==
  /\ owner \in [session : Sessions, generation : Generations]
  /\ proposal \in Proposals /\ copy \in [Processes -> Proposals]
  /\ right \in [Generations -> {"free", "fresh", "old"}]
  /\ marker \in 0 .. MaxGeneration
  /\ pc \in [Processes -> Labels]
  /\ call \in [Processes ->
       [generation : 0 .. MaxGeneration, by : Processes, retry : BOOLEAN, auto : BOOLEAN]]
  /\ created \subseteq Generations /\ attempted \subseteq Generations
  /\ repeated \subseteq {"proposal", "attempt"} /\ strayed \subseteq {"proposal", "attempt"}
  /\ crashes \in 0 .. MaxCrashes

SuccessionInit ==
  /\ owner = [session |-> FirstOwner, generation |-> 1]
  /\ proposal = NoProposal /\ marker = 0
  /\ right = [g \in Generations |-> "free"]
  /\ pc = [p \in Processes |-> "idle"]
  /\ call = [p \in Processes |-> NoCall]
  /\ copy = [p \in Processes |-> NoProposal]
  /\ created = {} /\ attempted = {} /\ repeated = {} /\ strayed = {} /\ crashes = 0

Goto(p, label) == pc' = [pc EXCEPT ![p] = label]

Begin(p, label, c) ==
  /\ Goto(p, label)
  /\ call' = [call EXCEPT ![p] = c]

End(p) == Begin(p, "idle", NoCall)

Owns(s) == owner.session = s

\* The owner is still the one that the call of p was begun for.
StillOwned(p) == owner = [session |-> call[p].by, generation |-> call[p].generation]

SameGeneration(p) == proposal.generation = call[p].generation

\* Notes what this step repeats, or loses.
Note(known, what, holds) == IF holds THEN known \cup {what} ELSE known

\* A process that is idle, while few others are not.
MayStart(p) == pc[p] = "idle" /\ Cardinality({q \in Processes : pc[q] # "idle"}) < MaxBusy

-----------------------------------------------------------------------------
(* Proposing a hand-over *)

Unproposed == UNCHANGED <<owner, marker, attempted, copy, crashes>>

\* agent_end in the owner's session, its context filled to the proposal line.
AgentEnd(s) ==
  /\ MayStart(s) /\ Owns(s)
  /\ Begin(s, "propose", [NoCall EXCEPT !.generation = owner.generation, !.by = s, !.auto = TRUE])
  /\ UNCHANGED <<files, history, copy, crashes>>

\* runHandoffPrepare, in the host, for whoever is the owner.
Prepare ==
  /\ MayStart(Host)
  /\ Begin(Host, "propose",
       [NoCall EXCEPT !.generation = owner.generation, !.by = owner.session])
  /\ UNCHANGED <<files, history, copy, crashes>>

\* maybePropose returns; agent_end goes on to the automatic hand-over, once.
Proposed(p) ==
  IF call[p].auto THEN Begin(p, "gate", [call[p] EXCEPT !.auto = FALSE, !.retry = FALSE]) ELSE End(p)

\* maybePropose: the owner's generation has no proposal yet.
Propose(p) ==
  /\ pc[p] = "propose"
  /\ IF StillOwned(p) /\ ~SameGeneration(p)
       THEN Goto(p, "claim") /\ UNCHANGED call
       ELSE Proposed(p)
  /\ UNCHANGED <<proposal, right, created, repeated, strayed>> /\ Unproposed

\* Mutant of ClaimRight: the right is taken although another process holds it.
ClaimRightAnyway(p) ==
  /\ pc[p] = "claim"
  /\ right' = [right EXCEPT ![call[p].generation] = "fresh"]
  /\ Goto(p, "recheck")
  /\ UNCHANGED <<call, proposal, created, repeated, strayed>> /\ Unproposed

\* claimProposalGeneration: an exclusive create.
ClaimRight(p) ==
  /\ pc[p] = "claim"
  /\ IF right[call[p].generation] = "free"
       THEN right' = [right EXCEPT ![call[p].generation] = "fresh"] /\ Goto(p, "recheck")
       ELSE Goto(p, "spin") /\ UNCHANGED right
  /\ UNCHANGED <<call, proposal, created, repeated, strayed>> /\ Unproposed

\* The winner looks once more ...
Recheck(p) ==
  /\ pc[p] = "recheck"
  /\ IF SameGeneration(p) THEN Proposed(p) ELSE Goto(p, "create") /\ UNCHANGED call
  /\ UNCHANGED <<proposal, right, created, repeated, strayed>> /\ Unproposed

\* ... and writes the proposal, over whatever is there.
CreateProposal(p) ==
  /\ pc[p] = "create"
  /\ proposal' = [NoProposal EXCEPT !.generation = call[p].generation, !.by = call[p].by,
                                    !.status = "pending"]
  /\ created' = created \cup {call[p].generation}
  /\ repeated' = Note(repeated, "proposal", call[p].generation \in created)
  /\ strayed' = Note(strayed, "proposal", proposal.generation > call[p].generation)
  /\ Proposed(p)
  /\ UNCHANGED right /\ Unproposed

\* The loser waits for the winner's proposal, and at last ...
Spin(p) ==
  /\ pc[p] = "spin"
  /\ IF SameGeneration(p) THEN Proposed(p) ELSE Goto(p, "age") /\ UNCHANGED call
  /\ UNCHANGED <<proposal, right, created, repeated, strayed>> /\ Unproposed

\* Mutant of LookAtAge: a right that was never used is left where it is.
LookAtAgeGivesUp(p) ==
  /\ pc[p] = "age"
  /\ Proposed(p)
  /\ UNCHANGED <<proposal, right, created, repeated, strayed>> /\ Unproposed

\* ... looks at the age of the right: unreadable counts as old ...
LookAtAge(p) ==
  /\ pc[p] = "age"
  /\ IF right[call[p].generation] = "fresh" THEN Proposed(p) ELSE Goto(p, "unlink") /\ UNCHANGED call
  /\ UNCHANGED <<proposal, right, created, repeated, strayed>> /\ Unproposed

\* ... and removes the file that is there now, to try once more.
Unlink(p) ==
  LET g == call[p].generation IN
  /\ pc[p] = "unlink"
  /\ right' = [right EXCEPT ![g] = "free"]
  /\ strayed' = Note(strayed, "proposal", right[g] = "fresh")
  /\ IF right[g] # "free" /\ ~call[p].retry
       THEN Begin(p, "claim", [call[p] EXCEPT !.retry = TRUE])
       ELSE Proposed(p)
  /\ UNCHANGED <<proposal, created, repeated>> /\ Unproposed

-----------------------------------------------------------------------------
(* Writing back a proposal that was read before *)

Unadopted == UNCHANGED <<owner, right, marker, created, attempted, repeated, crashes>>

WriteBack(p, from) ==
  /\ pc[p] = from
  /\ proposal' = copy[p]
  /\ copy' = [copy EXCEPT ![p] = NoProposal]
  /\ strayed' = Note(strayed, "proposal", proposal.generation > copy[p].generation)
  /\ Unadopted

\* decideProposal for master.handoff.accept.
ReadDecision ==
  /\ MayStart(Host)
  /\ proposal.status = "pending" /\ Owns(proposal.by)
  /\ copy' = [copy EXCEPT ![Host] = [proposal EXCEPT !.status = "accepted"]]
  /\ Begin(Host, "decideWrite", NoCall)
  /\ UNCHANGED <<proposal, strayed>> /\ Unadopted

WriteDecision == WriteBack(Host, "decideWrite") /\ End(Host)

-----------------------------------------------------------------------------
(* Handing over *)

\* Mutant of Gate: an earlier attempt of this generation is not looked for.
GateRepeats(s) ==
  /\ pc[s] = "gate"
  /\ \/ /\ StillOwned(s)
        /\ Goto(s, "mark") /\ UNCHANGED call
     \/ End(s)
  /\ UNCHANGED <<files, history, copy, crashes>>

\* checkAutoGate, and the automatic line, which is above the proposal's.
Gate(s) ==
  /\ pc[s] = "gate"
  /\ \/ /\ StillOwned(s)
        /\ marker # call[s].generation
        /\ Goto(s, "mark") /\ UNCHANGED call
     \/ End(s)
  /\ UNCHANGED <<files, history, copy, crashes>>

\* Mutant of WriteMarker: the generation that the attempt is for, not the one it is from.
WriteMarkerAhead(s) ==
  /\ marker' = call[s].generation + 1
  /\ strayed' = Note(strayed, "attempt", marker > call[s].generation)
  /\ UNCHANGED <<owner, proposal, right, created, copy, crashes>>

\* writeAutoMarkerAtomic, before the attempt and after it.
WriteMarker(s) ==
  /\ marker' = call[s].generation
  /\ strayed' = Note(strayed, "attempt", marker > call[s].generation)
  /\ UNCHANGED <<owner, proposal, right, created, copy, crashes>>

Mark(s) ==
  /\ pc[s] = "mark"
  /\ WriteMarker(s)
  /\ attempted' = attempted \cup {call[s].generation}
  /\ repeated' = Note(repeated, "attempt", call[s].generation \in attempted)
  /\ Begin(s, "transfer", [call[s] EXCEPT !.auto = TRUE])

\* master-transfer, by the owner's hand.
AskTransfer(s) ==
  /\ MayStart(s) /\ Owns(s)
  /\ Begin(s, "transfer", [NoCall EXCEPT !.generation = owner.generation, !.by = s])
  /\ UNCHANGED <<files, history, copy, crashes>>

\* transferMaster is over; an automatic one writes its marker once more.
Over(s, label) == IF call[s].auto THEN Goto(s, label) /\ UNCHANGED call ELSE End(s)
Transferred(s) == Over(s, "completed")

\* transferMaster: the owner's, unless something in it fails.
Transfer(s) ==
  /\ pc[s] = "transfer"
  /\ \/ Owns(s) /\ Goto(s, "adopt") /\ UNCHANGED call
     \/ Over(s, "failed")
  /\ UNCHANGED <<files, history, copy, crashes>>

\* adoptTransfer: a pending proposal of this generation becomes this transfer's.
Adopt(s) ==
  /\ pc[s] = "adopt"
  /\ IF proposal.status = "pending" /\ SameGeneration(s)
       THEN /\ copy' = [copy EXCEPT ![s] = [proposal EXCEPT !.status = "transferring"]]
            /\ Goto(s, "adoptWrite") /\ UNCHANGED call
       ELSE Transferred(s) /\ UNCHANGED copy
  /\ UNCHANGED <<proposal, strayed>> /\ Unadopted

WriteAdopted(s) == WriteBack(s, "adoptWrite") /\ Transferred(s)

\* maybeAutoSucceed: completed, or failed and back to a proposal.
MarkCompleted(s) == pc[s] = "completed" /\ WriteMarker(s) /\ End(s) /\ UNCHANGED <<attempted, repeated>>
MarkFailed(s) ==
  /\ pc[s] = "failed"
  /\ WriteMarker(s)
  /\ Begin(s, "propose", [call[s] EXCEPT !.auto = FALSE])
  /\ UNCHANGED <<attempted, repeated>>

\* completeProposalForTransfer, when the next owner confirms the transfer that took
\* the proposal over.
Finish(s) ==
  /\ MayStart(s) /\ Owns(s)
  /\ proposal.status = "transferring" /\ owner.generation = proposal.generation + 1
  /\ copy' = [copy EXCEPT ![s] = [proposal EXCEPT !.status = "completed"]]
  /\ Begin(s, "finishWrite", NoCall)
  /\ UNCHANGED <<proposal, strayed>> /\ Unadopted

WriteFinished(s) == WriteBack(s, "finishWrite") /\ End(s)

-----------------------------------------------------------------------------
(* The environment *)

OwnerMoves ==
  /\ owner.generation < MaxGeneration
  /\ \E s \in Sessions : owner' = [session |-> s, generation |-> owner.generation + 1]
  /\ UNCHANGED <<proposal, right, marker, history, pc, call, copy, crashes>>

\* Ten seconds pass for a right whose holder is not just about to use it.
RightGrowsOld(g) ==
  /\ right[g] = "fresh"
  /\ \A p \in Processes : call[p].generation = g => pc[p] \notin {"recheck", "create"}
  /\ right' = [right EXCEPT ![g] = "old"]
  /\ UNCHANGED <<owner, proposal, marker, history, pc, call, copy, crashes>>

\* A process dies within a call and is started again.
Crash(p) ==
  /\ pc[p] # "idle" /\ crashes < MaxCrashes
  /\ crashes' = crashes + 1
  /\ End(p)
  /\ copy' = [copy EXCEPT ![p] = NoProposal]
  /\ UNCHANGED <<files, history>>

-----------------------------------------------------------------------------
ProposeStep(p) ==
  \/ Propose(p) \/ ClaimRight(p) \/ Recheck(p) \/ CreateProposal(p)
  \/ Spin(p) \/ LookAtAge(p) \/ Unlink(p)

HandOverStep(s) ==
  \/ Gate(s) \/ Mark(s) \/ Transfer(s) \/ Adopt(s) \/ WriteAdopted(s)
  \/ MarkCompleted(s) \/ MarkFailed(s) \/ WriteFinished(s)

SuccessionNext ==
  \/ \E p \in Processes : ProposeStep(p) \/ Crash(p)
  \/ \E s \in Sessions : AgentEnd(s) \/ AskTransfer(s) \/ HandOverStep(s) \/ Finish(s)
  \/ Prepare \/ ReadDecision \/ WriteDecision
  \/ OwnerMoves
  \/ \E g \in Generations : RightGrowsOld(g)

SuccessionSpec == SuccessionInit /\ [][SuccessionNext]_successionVars

\* Calls run to their end, the owner's turns end with its context full, time passes.
SuccessionFairness ==
  /\ \A p \in Processes : WF_successionVars(ProposeStep(p))
  /\ \A s \in Sessions : WF_successionVars(HandOverStep(s)) /\ SF_successionVars(AgentEnd(s))
  /\ WF_successionVars(WriteDecision)
  /\ \A g \in Generations : SF_successionVars(RightGrowsOld(g))

FairSuccessionSpec == SuccessionSpec /\ SuccessionFairness
-----------------------------------------------------------------------------
(* Properties *)

\* A generation is proposed for once and attempted automatically once: a second time
\* only after a right was taken from a live holder, or a call that an older
\* generation's owner began has written over what the newer one wrote.
OncePerGeneration == repeated \subseteq strayed

\* An owner whose context is full has a proposal to answer, sooner or later, whatever
\* crashed between taking the right to propose and proposing.
ProposalArrives ==
  \A g \in Generations :
    owner.generation = g ~> proposal.generation = g \/ owner.generation # g
=============================================================================
