----------------------- MODULE MasterSuccession_proofs -----------------------
(***************************************************************************)
(* For every set of sessions and every number of generations: a generation *)
(* is proposed for once and attempted automatically once, but for what is  *)
(* lost to a robbed right or to an older generation's write.               *)
(***************************************************************************)
EXTENDS MasterSuccession, TLAPS

USE DEF StillOwned, SameGeneration, WriteMarker, WriteBack, Unproposed, Unadopted, files, history

-----------------------------------------------------------------------------
(* Types, and what a call knows of its owner *)

FileTypes ==
  /\ owner \in [session : Sessions, generation : Generations]
  /\ proposal \in Proposals
  /\ right \in [Generations -> {"free", "fresh", "old"}]
  /\ marker \in 0 .. MaxGeneration

Calls == [generation : 0 .. MaxGeneration, by : Processes, retry : BOOLEAN, auto : BOOLEAN]

CallTypes ==
  /\ pc \in [Processes -> Labels]
  /\ call \in [Processes -> Calls]
  /\ copy \in [Processes -> Proposals]

HistoryTypes ==
  /\ created \subseteq Generations /\ attempted \subseteq Generations
  /\ repeated \subseteq {"proposal", "attempt"} /\ strayed \subseteq {"proposal", "attempt"}
  /\ crashes \in 0 .. MaxCrashes

Types == FileTypes /\ CallTypes /\ HistoryTypes

\* The process runs a call that was begun for an owner.
Busy(p) == pc[p] \notin {"idle", "decideWrite", "finishWrite"}

\* A call is for the present generation and its owner, or for an earlier one; the call
\* of a session was begun while that session was the owner, so that the calls of one
\* generation are one session's, and the host's.
CallInv ==
  \A p \in Processes : Busy(p) =>
    /\ call[p].generation \in 1 .. owner.generation
    /\ p \in Sessions => call[p].by = p
    /\ call[p].by \in Sessions
    /\ call[p].generation = owner.generation => call[p].by = owner.session
    /\ \A q \in Processes :
         Busy(q) /\ call[q].generation = call[p].generation => call[q].by = call[p].by

LEMMA Members ==
  /\ \A s \in Sessions : s \in Processes /\ s # Host
  /\ Host \in Processes
  /\ MaxGeneration \in Nat /\ MaxGeneration > 0 /\ MaxCrashes \in Nat
  /\ NoProposal \in Proposals /\ NoCall \in Calls
  BY SuccessionAssumption DEF SuccessionAssumption, Processes, NoProposal, NoCall, Proposals,
    Calls

LEMMA FileStep ==
  ASSUME Types, CallInv, [SuccessionNext]_successionVars
  PROVE  FileTypes'
<1> USE Members DEF Types, FileTypes
<1>1. ASSUME NEW p \in Processes, Propose(p) PROVE FileTypes'
  BY <1>1 DEF Propose
<1>2. ASSUME NEW p \in Processes, ClaimRight(p) PROVE FileTypes'
  BY <1>2 DEF ClaimRight, CallInv, Busy, Generations
<1>3. ASSUME NEW p \in Processes, Recheck(p) PROVE FileTypes'
  BY <1>3 DEF Recheck
<1>4. ASSUME NEW p \in Processes, CreateProposal(p) PROVE FileTypes'
  <2>1. Busy(p) /\ call[p].by \in Processes /\ call[p].generation \in 0 .. MaxGeneration
    BY <1>4 DEF CreateProposal, Busy, CallTypes, Calls
  <2>2. proposal' \in Proposals
    BY <1>4, <2>1 DEF CreateProposal, NoProposal, Proposals
  <2> QED BY <1>4, <2>2 DEF CreateProposal
<1>5. ASSUME NEW p \in Processes, Spin(p) PROVE FileTypes'
  BY <1>5 DEF Spin
<1>6. ASSUME NEW p \in Processes, LookAtAge(p) PROVE FileTypes'
  BY <1>6 DEF LookAtAge
<1>7. ASSUME NEW p \in Processes, Unlink(p) PROVE FileTypes'
  BY <1>7 DEF Unlink
<1>8. ASSUME NEW p \in Processes, Crash(p) PROVE FileTypes'
  BY <1>8 DEF Crash
<1>9. ASSUME NEW s \in Sessions, AgentEnd(s) PROVE FileTypes'
  BY <1>9 DEF AgentEnd
<1>10. ASSUME NEW s \in Sessions, AskTransfer(s) PROVE FileTypes'
  BY <1>10 DEF AskTransfer
<1>11. ASSUME NEW s \in Sessions, Gate(s) PROVE FileTypes'
  BY <1>11 DEF Gate
<1>12. ASSUME NEW s \in Sessions, Mark(s) PROVE FileTypes'
  BY <1>12 DEF Mark, CallTypes, Calls
<1>13. ASSUME NEW s \in Sessions, Transfer(s) PROVE FileTypes'
  BY <1>13 DEF Transfer
<1>14. ASSUME NEW s \in Sessions, Adopt(s) PROVE FileTypes'
  BY <1>14 DEF Adopt
<1>15. ASSUME NEW s \in Sessions, WriteAdopted(s) PROVE FileTypes'
  BY <1>15 DEF WriteAdopted, CallTypes
<1>16. ASSUME NEW s \in Sessions, MarkCompleted(s) PROVE FileTypes'
  BY <1>16 DEF MarkCompleted, CallTypes, Calls
<1>17. ASSUME NEW s \in Sessions, MarkFailed(s) PROVE FileTypes'
  BY <1>17 DEF MarkFailed, CallTypes, Calls
<1>18. ASSUME NEW s \in Sessions, WriteFinished(s) PROVE FileTypes'
  BY <1>18 DEF WriteFinished, CallTypes
<1>19. ASSUME NEW s \in Sessions, Finish(s) PROVE FileTypes'
  BY <1>19 DEF Finish
<1>20. ASSUME Prepare PROVE FileTypes'
  BY <1>20 DEF Prepare
<1>21. ASSUME ReadDecision PROVE FileTypes'
  BY <1>21 DEF ReadDecision
<1>22. ASSUME WriteDecision PROVE FileTypes'
  BY <1>22 DEF WriteDecision, CallTypes
<1>23. ASSUME OwnerMoves PROVE FileTypes'
  BY <1>23 DEF OwnerMoves, Generations
<1>24. ASSUME NEW g \in Generations, RightGrowsOld(g) PROVE FileTypes'
  BY <1>24 DEF RightGrowsOld
<1>25. CASE UNCHANGED successionVars
  BY <1>25 DEF successionVars
<1> QED BY <1>1, <1>2, <1>3, <1>4, <1>5, <1>6, <1>7, <1>8, <1>9, <1>10, <1>11, <1>12, <1>13,
      <1>14, <1>15, <1>16, <1>17, <1>18, <1>19, <1>20, <1>21, <1>22, <1>23, <1>24,
      <1>25 DEF SuccessionNext, ProposeStep, HandOverStep

LEMMA HistoryStep ==
  ASSUME Types, CallInv, [SuccessionNext]_successionVars
  PROVE  HistoryTypes'
<1> USE Members DEF Types, HistoryTypes, Note
<1>1. ASSUME NEW p \in Processes, Propose(p) PROVE HistoryTypes'
  BY <1>1 DEF Propose, CallInv, Busy, Generations, FileTypes
<1>2. ASSUME NEW p \in Processes, ClaimRight(p) PROVE HistoryTypes'
  BY <1>2 DEF ClaimRight, CallInv, Busy, Generations, FileTypes
<1>3. ASSUME NEW p \in Processes, Recheck(p) PROVE HistoryTypes'
  BY <1>3 DEF Recheck, CallInv, Busy, Generations, FileTypes
<1>4. ASSUME NEW p \in Processes, CreateProposal(p) PROVE HistoryTypes'
  BY <1>4 DEF CreateProposal, CallInv, Busy, Generations, FileTypes
<1>5. ASSUME NEW p \in Processes, Spin(p) PROVE HistoryTypes'
  BY <1>5 DEF Spin, CallInv, Busy, Generations, FileTypes
<1>6. ASSUME NEW p \in Processes, LookAtAge(p) PROVE HistoryTypes'
  BY <1>6 DEF LookAtAge, CallInv, Busy, Generations, FileTypes
<1>7. ASSUME NEW p \in Processes, Unlink(p) PROVE HistoryTypes'
  BY <1>7 DEF Unlink, CallInv, Busy, Generations, FileTypes
<1>8. ASSUME NEW p \in Processes, Crash(p) PROVE HistoryTypes'
  BY <1>8 DEF Crash, CallInv, Busy, Generations, FileTypes
<1>9. ASSUME NEW s \in Sessions, AgentEnd(s) PROVE HistoryTypes'
  BY <1>9 DEF AgentEnd, CallInv, Busy, Generations, FileTypes
<1>10. ASSUME NEW s \in Sessions, AskTransfer(s) PROVE HistoryTypes'
  BY <1>10 DEF AskTransfer, CallInv, Busy, Generations, FileTypes
<1>11. ASSUME NEW s \in Sessions, Gate(s) PROVE HistoryTypes'
  BY <1>11 DEF Gate, CallInv, Busy, Generations, FileTypes
<1>12. ASSUME NEW s \in Sessions, Mark(s) PROVE HistoryTypes'
  BY <1>12 DEF Mark, CallInv, Busy, Generations, FileTypes
<1>13. ASSUME NEW s \in Sessions, Transfer(s) PROVE HistoryTypes'
  BY <1>13 DEF Transfer, CallInv, Busy, Generations, FileTypes
<1>14. ASSUME NEW s \in Sessions, Adopt(s) PROVE HistoryTypes'
  BY <1>14 DEF Adopt, CallInv, Busy, Generations, FileTypes
<1>15. ASSUME NEW s \in Sessions, WriteAdopted(s) PROVE HistoryTypes'
  BY <1>15 DEF WriteAdopted, CallInv, Busy, Generations, FileTypes
<1>16. ASSUME NEW s \in Sessions, MarkCompleted(s) PROVE HistoryTypes'
  BY <1>16 DEF MarkCompleted, CallInv, Busy, Generations, FileTypes
<1>17. ASSUME NEW s \in Sessions, MarkFailed(s) PROVE HistoryTypes'
  BY <1>17 DEF MarkFailed, CallInv, Busy, Generations, FileTypes
<1>18. ASSUME NEW s \in Sessions, WriteFinished(s) PROVE HistoryTypes'
  BY <1>18 DEF WriteFinished, CallInv, Busy, Generations, FileTypes
<1>19. ASSUME NEW s \in Sessions, Finish(s) PROVE HistoryTypes'
  BY <1>19 DEF Finish, CallInv, Busy, Generations, FileTypes
<1>20. ASSUME Prepare PROVE HistoryTypes'
  BY <1>20 DEF Prepare, CallInv, Busy, Generations, FileTypes
<1>21. ASSUME ReadDecision PROVE HistoryTypes'
  BY <1>21 DEF ReadDecision, CallInv, Busy, Generations, FileTypes
<1>22. ASSUME WriteDecision PROVE HistoryTypes'
  BY <1>22 DEF WriteDecision, CallInv, Busy, Generations, FileTypes
<1>23. ASSUME OwnerMoves PROVE HistoryTypes'
  BY <1>23 DEF OwnerMoves, CallInv, Busy, Generations, FileTypes
<1>24. ASSUME NEW g \in Generations, RightGrowsOld(g) PROVE HistoryTypes'
  BY <1>24 DEF RightGrowsOld, CallInv, Busy, Generations, FileTypes
<1>25. CASE UNCHANGED successionVars
  BY <1>25 DEF successionVars
<1> QED BY <1>1, <1>2, <1>3, <1>4, <1>5, <1>6, <1>7, <1>8, <1>9, <1>10, <1>11, <1>12, <1>13,
      <1>14, <1>15, <1>16, <1>17, <1>18, <1>19, <1>20, <1>21, <1>22, <1>23, <1>24,
      <1>25 DEF SuccessionNext, ProposeStep, HandOverStep


LEMMA CopyStep ==
  ASSUME Types, CallInv, [SuccessionNext]_successionVars
  PROVE  copy' \in [Processes -> Proposals]
<1> USE Members DEF Types, CallTypes
<1>1. ASSUME NEW p \in Processes, Propose(p) PROVE copy' \in [Processes -> Proposals]
  BY <1>1 DEF Propose, FileTypes, Proposals
<1>2. ASSUME NEW p \in Processes, ClaimRight(p) PROVE copy' \in [Processes -> Proposals]
  BY <1>2 DEF ClaimRight, FileTypes, Proposals
<1>3. ASSUME NEW p \in Processes, Recheck(p) PROVE copy' \in [Processes -> Proposals]
  BY <1>3 DEF Recheck, FileTypes, Proposals
<1>4. ASSUME NEW p \in Processes, CreateProposal(p) PROVE copy' \in [Processes -> Proposals]
  BY <1>4 DEF CreateProposal, FileTypes, Proposals
<1>5. ASSUME NEW p \in Processes, Spin(p) PROVE copy' \in [Processes -> Proposals]
  BY <1>5 DEF Spin, FileTypes, Proposals
<1>6. ASSUME NEW p \in Processes, LookAtAge(p) PROVE copy' \in [Processes -> Proposals]
  BY <1>6 DEF LookAtAge, FileTypes, Proposals
<1>7. ASSUME NEW p \in Processes, Unlink(p) PROVE copy' \in [Processes -> Proposals]
  BY <1>7 DEF Unlink, FileTypes, Proposals
<1>8. ASSUME NEW p \in Processes, Crash(p) PROVE copy' \in [Processes -> Proposals]
  BY <1>8 DEF Crash, FileTypes, Proposals
<1>9. ASSUME NEW s \in Sessions, AgentEnd(s) PROVE copy' \in [Processes -> Proposals]
  BY <1>9 DEF AgentEnd, FileTypes, Proposals
<1>10. ASSUME NEW s \in Sessions, AskTransfer(s) PROVE copy' \in [Processes -> Proposals]
  BY <1>10 DEF AskTransfer, FileTypes, Proposals
<1>11. ASSUME NEW s \in Sessions, Gate(s) PROVE copy' \in [Processes -> Proposals]
  BY <1>11 DEF Gate, FileTypes, Proposals
<1>12. ASSUME NEW s \in Sessions, Mark(s) PROVE copy' \in [Processes -> Proposals]
  BY <1>12 DEF Mark, FileTypes, Proposals
<1>13. ASSUME NEW s \in Sessions, Transfer(s) PROVE copy' \in [Processes -> Proposals]
  BY <1>13 DEF Transfer, FileTypes, Proposals
<1>14. ASSUME NEW s \in Sessions, Adopt(s) PROVE copy' \in [Processes -> Proposals]
  BY <1>14 DEF Adopt, FileTypes, Proposals
<1>15. ASSUME NEW s \in Sessions, WriteAdopted(s) PROVE copy' \in [Processes -> Proposals]
  BY <1>15 DEF WriteAdopted, FileTypes, Proposals
<1>16. ASSUME NEW s \in Sessions, MarkCompleted(s) PROVE copy' \in [Processes -> Proposals]
  BY <1>16 DEF MarkCompleted, FileTypes, Proposals
<1>17. ASSUME NEW s \in Sessions, MarkFailed(s) PROVE copy' \in [Processes -> Proposals]
  BY <1>17 DEF MarkFailed, FileTypes, Proposals
<1>18. ASSUME NEW s \in Sessions, WriteFinished(s) PROVE copy' \in [Processes -> Proposals]
  BY <1>18 DEF WriteFinished, FileTypes, Proposals
<1>19. ASSUME NEW s \in Sessions, Finish(s) PROVE copy' \in [Processes -> Proposals]
  BY <1>19 DEF Finish, FileTypes, Proposals
<1>20. ASSUME Prepare PROVE copy' \in [Processes -> Proposals]
  BY <1>20 DEF Prepare, FileTypes, Proposals
<1>21. ASSUME ReadDecision PROVE copy' \in [Processes -> Proposals]
  BY <1>21 DEF ReadDecision, FileTypes, Proposals
<1>22. ASSUME WriteDecision PROVE copy' \in [Processes -> Proposals]
  BY <1>22 DEF WriteDecision, FileTypes, Proposals
<1>23. ASSUME OwnerMoves PROVE copy' \in [Processes -> Proposals]
  BY <1>23 DEF OwnerMoves, FileTypes, Proposals
<1>24. ASSUME NEW g \in Generations, RightGrowsOld(g) PROVE copy' \in [Processes -> Proposals]
  BY <1>24 DEF RightGrowsOld, FileTypes, Proposals
<1>25. CASE UNCHANGED successionVars
  BY <1>25 DEF successionVars
<1> QED BY <1>1, <1>2, <1>3, <1>4, <1>5, <1>6, <1>7, <1>8, <1>9, <1>10, <1>11, <1>12, <1>13,
      <1>14, <1>15, <1>16, <1>17, <1>18, <1>19, <1>20, <1>21, <1>22, <1>23, <1>24,
      <1>25 DEF SuccessionNext, ProposeStep, HandOverStep

-----------------------------------------------------------------------------
(* What a step does to a call *)

\* One process begins a call for the present owner, goes on with its call, or is quiet.
Step(p) ==
  /\ owner' = owner
  /\ pc' \in [Processes -> Labels] /\ call' \in [Processes -> Calls]
  /\ \A q \in Processes \ {p} : pc'[q] = pc[q] /\ call'[q] = call[q]
  /\ \/ ~Busy(p)'
     \/ /\ Busy(p)
        /\ call'[p].generation = call[p].generation /\ call'[p].by = call[p].by
     \/ /\ call'[p].generation = owner.generation /\ call'[p].by = owner.session
        /\ p \in Sessions => owner.session = p

LEMMA StepGoto ==
  ASSUME Types, NEW p \in Processes, NEW l \in Labels, Busy(p),
         Goto(p, l), UNCHANGED <<owner, call>>
  PROVE  Step(p)
BY DEF Step, Types, CallTypes, Goto

LEMMA StepOn ==
  ASSUME Types, NEW p \in Processes, NEW l \in Labels, NEW c \in Calls, Busy(p),
         Begin(p, l, c), owner' = owner,
         c.generation = call[p].generation, c.by = call[p].by
  PROVE  Step(p)
BY DEF Step, Types, CallTypes, Goto, Begin

LEMMA StepQuiet ==
  ASSUME Types, NEW p \in Processes, NEW l \in {"idle", "decideWrite", "finishWrite"},
         Begin(p, l, NoCall), owner' = owner
  PROVE  Step(p)
BY Members DEF Step, Types, CallTypes, Goto, Begin, Busy, Labels

LEMMA StepBegun ==
  ASSUME Types, NEW p \in Processes, NEW l \in Labels, NEW c \in Calls,
         Begin(p, l, c), owner' = owner,
         c.generation = owner.generation, c.by = owner.session, p \in Sessions => Owns(p)
  PROVE  Step(p)
BY DEF Step, Types, CallTypes, Goto, Begin, Owns

\* A call with other flags is a call.
LEMMA Flagged ==
  ASSUME Types, NEW p \in Processes, NEW retry \in BOOLEAN, NEW auto \in BOOLEAN
  PROVE  /\ [call[p] EXCEPT !.retry = retry] \in Calls
         /\ [call[p] EXCEPT !.auto = auto] \in Calls
         /\ [call[p] EXCEPT !.auto = auto, !.retry = retry] \in Calls
         /\ [call[p] EXCEPT !.retry = retry].generation = call[p].generation
         /\ [call[p] EXCEPT !.retry = retry].by = call[p].by
         /\ [call[p] EXCEPT !.auto = auto].generation = call[p].generation
         /\ [call[p] EXCEPT !.auto = auto].by = call[p].by
         /\ [call[p] EXCEPT !.auto = auto, !.retry = retry].generation = call[p].generation
         /\ [call[p] EXCEPT !.auto = auto, !.retry = retry].by = call[p].by
<1>1. call[p] \in Calls
  BY DEF Types, CallTypes
<1> QED BY <1>1 DEF Calls

LEMMA StepProposed ==
  ASSUME Types, NEW p \in Processes, Busy(p), Proposed(p), owner' = owner
  PROVE  Step(p)
<1>1. CASE call[p].auto
  <2>1. Begin(p, "gate", [call[p] EXCEPT !.auto = FALSE, !.retry = FALSE])
    BY <1>1 DEF Proposed
  <2> QED BY <2>1, Flagged, StepOn DEF Labels
<1>2. CASE ~call[p].auto
  <2>1. Begin(p, "idle", NoCall)
    BY <1>2 DEF Proposed, End
  <2> QED BY <2>1, StepQuiet
<1> QED BY <1>1, <1>2

LEMMA StepOver ==
  ASSUME Types, NEW s \in Sessions, NEW l \in {"completed", "failed"}, Busy(s), Over(s, l),
         owner' = owner
  PROVE  Step(s)
<1>1. CASE call[s].auto
  BY <1>1, Members, StepGoto DEF Over, Labels
<1>2. CASE ~call[s].auto
  BY <1>2, Members, StepQuiet DEF Over, End
<1> QED BY <1>1, <1>2

\* Every step is one of these, or leaves the calls alone.
LEMMA Steps ==
  ASSUME Types, [SuccessionNext]_successionVars
  PROVE  \/ \E p \in Processes : Step(p)
         \/ /\ UNCHANGED <<pc, call>>
            /\ owner' = owner \/ owner'.generation = owner.generation + 1
<1> USE Members
<1> DEFINE Stepped == \/ \E p \in Processes : Step(p)
                      \/ /\ UNCHANGED <<pc, call>>
                         /\ owner' = owner \/ owner'.generation = owner.generation + 1
<1>1. ASSUME NEW p \in Processes, Propose(p) PROVE Stepped
  <2>1. Busy(p) /\ owner' = owner
    BY <1>1 DEF Propose, Busy, Types, CallTypes, files, history, Unproposed, Unadopted,
      WriteMarker, WriteBack
  <2>2. CASE Goto(p, "claim") /\ UNCHANGED call
    BY <1>1, <2>1, <2>2, StepGoto DEF Labels
  <2>3. CASE Proposed(p)
    BY <1>1, <2>1, <2>3, StepProposed
  <2> QED BY <1>1, <2>2, <2>3 DEF Propose
<1>2. ASSUME NEW p \in Processes, ClaimRight(p) PROVE Stepped
  <2>1. Busy(p) /\ owner' = owner
    BY <1>2 DEF ClaimRight, Busy, Types, CallTypes, files, history, Unproposed, Unadopted,
      WriteMarker, WriteBack
  <2>2. CASE Goto(p, "recheck")
    BY <1>2, <2>1, <2>2, StepGoto DEF ClaimRight, Labels
  <2>3. CASE Goto(p, "spin")
    BY <1>2, <2>1, <2>3, StepGoto DEF ClaimRight, Labels
  <2> QED BY <1>2, <2>2, <2>3 DEF ClaimRight
<1>3. ASSUME NEW p \in Processes, Recheck(p) PROVE Stepped
  <2>1. Busy(p) /\ owner' = owner
    BY <1>3 DEF Recheck, Busy, Types, CallTypes, files, history, Unproposed, Unadopted,
      WriteMarker, WriteBack
  <2>2. CASE Goto(p, "create") /\ UNCHANGED call
    BY <1>3, <2>1, <2>2, StepGoto DEF Labels
  <2>3. CASE Proposed(p)
    BY <1>3, <2>1, <2>3, StepProposed
  <2> QED BY <1>3, <2>2, <2>3 DEF Recheck
<1>4. ASSUME NEW p \in Processes, CreateProposal(p) PROVE Stepped
  <2>1. Busy(p) /\ owner' = owner
    BY <1>4 DEF CreateProposal, Busy, Types, CallTypes, files, history, Unproposed, Unadopted,
      WriteMarker, WriteBack
  <2>2. CASE Proposed(p)
    BY <1>4, <2>1, <2>2, StepProposed
  <2> QED BY <1>4, <2>2 DEF CreateProposal
<1>5. ASSUME NEW p \in Processes, Spin(p) PROVE Stepped
  <2>1. Busy(p) /\ owner' = owner
    BY <1>5 DEF Spin, Busy, Types, CallTypes, files, history, Unproposed, Unadopted,
      WriteMarker, WriteBack
  <2>2. CASE Goto(p, "age") /\ UNCHANGED call
    BY <1>5, <2>1, <2>2, StepGoto DEF Labels
  <2>3. CASE Proposed(p)
    BY <1>5, <2>1, <2>3, StepProposed
  <2> QED BY <1>5, <2>2, <2>3 DEF Spin
<1>6. ASSUME NEW p \in Processes, LookAtAge(p) PROVE Stepped
  <2>1. Busy(p) /\ owner' = owner
    BY <1>6 DEF LookAtAge, Busy, Types, CallTypes, files, history, Unproposed, Unadopted,
      WriteMarker, WriteBack
  <2>2. CASE Goto(p, "unlink") /\ UNCHANGED call
    BY <1>6, <2>1, <2>2, StepGoto DEF Labels
  <2>3. CASE Proposed(p)
    BY <1>6, <2>1, <2>3, StepProposed
  <2> QED BY <1>6, <2>2, <2>3 DEF LookAtAge
<1>7. ASSUME NEW p \in Processes, Unlink(p) PROVE Stepped
  <2>1. Busy(p) /\ owner' = owner
    BY <1>7 DEF Unlink, Busy, Types, CallTypes, files, history, Unproposed, Unadopted,
      WriteMarker, WriteBack
  <2>2. CASE Begin(p, "claim", [call[p] EXCEPT !.retry = TRUE])
    BY <1>7, <2>1, <2>2, Flagged, StepOn DEF Labels
  <2>3. CASE Proposed(p)
    BY <1>7, <2>1, <2>3, StepProposed
  <2> QED BY <1>7, <2>2, <2>3 DEF Unlink
<1>8. ASSUME NEW p \in Processes, Crash(p) PROVE Stepped
  BY <1>8, StepQuiet DEF Crash, End, files
<1>9. ASSUME NEW s \in Sessions, AgentEnd(s) PROVE Stepped
  <2> DEFINE c == [NoCall EXCEPT !.generation = owner.generation, !.by = s, !.auto = TRUE]
  <2>1. owner.session \in Sessions /\ owner.generation \in 0 .. MaxGeneration
    BY DEF Types, FileTypes, Generations
  <2>2. owner.session = s
    BY <1>9 DEF AgentEnd, Owns
  <2>3. c.generation = owner.generation /\ c.by = owner.session
    BY <2>2 DEF NoCall
  <2>4. c \in Calls
    BY <2>1, <2>2 DEF NoCall, Calls
  <2>5. Begin(s, "propose", c) /\ owner' = owner
    BY <1>9 DEF AgentEnd, files
  <2> HIDE DEF c
  <2>6. s \in Sessions => Owns(s)
    BY <2>2 DEF Owns
  <2> QED BY <2>3, <2>4, <2>5, <2>6, StepBegun DEF Labels
<1>10. ASSUME NEW s \in Sessions, AskTransfer(s) PROVE Stepped
  <2> DEFINE c == [NoCall EXCEPT !.generation = owner.generation, !.by = s]
  <2>1. owner.session \in Sessions /\ owner.generation \in 0 .. MaxGeneration
    BY DEF Types, FileTypes, Generations
  <2>2. owner.session = s
    BY <1>10 DEF AskTransfer, Owns
  <2>3. c.generation = owner.generation /\ c.by = owner.session
    BY <2>2 DEF NoCall
  <2>4. c \in Calls
    BY <2>1, <2>2 DEF NoCall, Calls
  <2>5. Begin(s, "transfer", c) /\ owner' = owner
    BY <1>10 DEF AskTransfer, files
  <2> HIDE DEF c
  <2>6. s \in Sessions => Owns(s)
    BY <2>2 DEF Owns
  <2> QED BY <2>3, <2>4, <2>5, <2>6, StepBegun DEF Labels
<1>11. ASSUME NEW s \in Sessions, Gate(s) PROVE Stepped
  <2>1. Busy(s) /\ owner' = owner
    BY <1>11 DEF Gate, Busy, Types, CallTypes, files, history, Unproposed, Unadopted,
      WriteMarker, WriteBack
  <2>2. CASE Goto(s, "mark") /\ UNCHANGED call
    BY <1>11, <2>1, <2>2, StepGoto DEF Labels
  <2>3. CASE End(s)
    BY <1>11, <2>1, <2>3, StepQuiet DEF End
  <2> QED BY <1>11, <2>2, <2>3 DEF Gate
<1>12. ASSUME NEW s \in Sessions, Mark(s) PROVE Stepped
  <2>1. Busy(s) /\ owner' = owner
    BY <1>12 DEF Mark, Busy, Types, CallTypes, files, history, Unproposed, Unadopted,
      WriteMarker, WriteBack
  <2>2. CASE Begin(s, "transfer", [call[s] EXCEPT !.auto = TRUE])
    BY <1>12, <2>1, <2>2, Flagged, StepOn DEF Labels
  <2> QED BY <1>12, <2>2 DEF Mark
<1>13. ASSUME NEW s \in Sessions, Transfer(s) PROVE Stepped
  <2>1. Busy(s) /\ owner' = owner
    BY <1>13 DEF Transfer, Busy, Types, CallTypes, files, history, Unproposed, Unadopted,
      WriteMarker, WriteBack
  <2>2. CASE Goto(s, "adopt") /\ UNCHANGED call
    BY <1>13, <2>1, <2>2, StepGoto DEF Labels
  <2>3. CASE Over(s, "failed")
    BY <1>13, <2>1, <2>3, StepOver
  <2> QED BY <1>13, <2>2, <2>3 DEF Transfer
<1>14. ASSUME NEW s \in Sessions, Adopt(s) PROVE Stepped
  <2>1. Busy(s) /\ owner' = owner
    BY <1>14 DEF Adopt, Busy, Types, CallTypes, files, history, Unproposed, Unadopted,
      WriteMarker, WriteBack
  <2>2. CASE Goto(s, "adoptWrite") /\ UNCHANGED call
    BY <1>14, <2>1, <2>2, StepGoto DEF Labels
  <2>3. CASE Over(s, "completed")
    BY <1>14, <2>1, <2>3, StepOver
  <2> QED BY <1>14, <2>2, <2>3 DEF Adopt, Transferred
<1>15. ASSUME NEW s \in Sessions, WriteAdopted(s) PROVE Stepped
  <2>1. Busy(s) /\ owner' = owner
    BY <1>15 DEF WriteAdopted, Busy, Types, CallTypes, files, history, Unproposed, Unadopted,
      WriteMarker, WriteBack
  <2>2. CASE Over(s, "completed")
    BY <1>15, <2>1, <2>2, StepOver
  <2> QED BY <1>15, <2>2 DEF WriteAdopted, Transferred
<1>16. ASSUME NEW s \in Sessions, MarkCompleted(s) PROVE Stepped
  <2>1. Busy(s) /\ owner' = owner
    BY <1>16 DEF MarkCompleted, Busy, Types, CallTypes, files, history, Unproposed, Unadopted,
      WriteMarker, WriteBack
  <2>2. CASE End(s)
    BY <1>16, <2>1, <2>2, StepQuiet DEF End
  <2> QED BY <1>16, <2>2 DEF MarkCompleted
<1>17. ASSUME NEW s \in Sessions, MarkFailed(s) PROVE Stepped
  <2>1. Busy(s) /\ owner' = owner
    BY <1>17 DEF MarkFailed, Busy, Types, CallTypes, files, history, Unproposed, Unadopted,
      WriteMarker, WriteBack
  <2>2. CASE Begin(s, "propose", [call[s] EXCEPT !.auto = FALSE])
    BY <1>17, <2>1, <2>2, Flagged, StepOn DEF Labels
  <2> QED BY <1>17, <2>2 DEF MarkFailed
<1>18. ASSUME NEW s \in Sessions, WriteFinished(s) PROVE Stepped
  BY <1>18, StepQuiet DEF WriteFinished, WriteBack, Unadopted, End
<1>19. ASSUME NEW s \in Sessions, Finish(s) PROVE Stepped
  BY <1>19, StepQuiet DEF Finish, Unadopted
<1>20. ASSUME Prepare PROVE Stepped
  <2> DEFINE c == [NoCall EXCEPT !.generation = owner.generation, !.by = owner.session]
  <2>1. owner.session \in Sessions /\ owner.generation \in 0 .. MaxGeneration
    BY DEF Types, FileTypes, Generations
  <2>2. Host \notin Sessions
    BY <1>20 DEF Prepare, Owns
  <2>3. c.generation = owner.generation /\ c.by = owner.session
    BY <2>2 DEF NoCall
  <2>4. c \in Calls
    BY <2>1, <2>2 DEF NoCall, Calls
  <2>5. Begin(Host, "propose", c) /\ owner' = owner
    BY <1>20 DEF Prepare, files
  <2> HIDE DEF c
  <2>6. Host \in Sessions => Owns(Host)
    BY <2>2 DEF Owns
  <2> QED BY <2>3, <2>4, <2>5, <2>6, StepBegun DEF Labels
<1>21. ASSUME ReadDecision PROVE Stepped
  BY <1>21, StepQuiet DEF ReadDecision, Unadopted
<1>22. ASSUME WriteDecision PROVE Stepped
  BY <1>22, StepQuiet DEF WriteDecision, WriteBack, Unadopted, End
<1>23. ASSUME OwnerMoves PROVE Stepped
  BY <1>23 DEF OwnerMoves
<1>24. ASSUME NEW g \in Generations, RightGrowsOld(g) PROVE Stepped
  BY <1>24 DEF RightGrowsOld
<1>25. CASE UNCHANGED successionVars
  BY <1>25 DEF successionVars
<1> QED BY <1>1, <1>2, <1>3, <1>4, <1>5, <1>6, <1>7, <1>8, <1>9, <1>10, <1>11, <1>12, <1>13,
      <1>14, <1>15, <1>16, <1>17, <1>18, <1>19, <1>20, <1>21, <1>22, <1>23, <1>24,
      <1>25 DEF SuccessionNext, ProposeStep, HandOverStep

\* So every step keeps the types of the calls ...
LEMMA CallStep ==
  ASSUME Types, [SuccessionNext]_successionVars
  PROVE  pc' \in [Processes -> Labels] /\ call' \in [Processes -> Calls]
BY Steps DEF Step, Types, CallTypes

\* ... and what they know of their owner.
LEMMA CallInvStep ==
  ASSUME Types, CallInv, [SuccessionNext]_successionVars
  PROVE  CallInv'
<1>0. owner.generation \in Nat
  BY DEF Types, FileTypes, Generations
<1>1. ASSUME NEW p \in Processes, Step(p) PROVE CallInv'
  <2>1. \A q \in Processes \ {p} : (Busy(q))' <=> Busy(q)
    BY <1>1 DEF Step, Busy
  <2>2. CASE ~Busy(p)'
    BY <1>1, <2>1, <2>2 DEF Step, CallInv
  <2>3. CASE /\ Busy(p)
             /\ call'[p].generation = call[p].generation /\ call'[p].by = call[p].by
    <3>1. \A q \in Processes : (Busy(q))' =>
            Busy(q) /\ call'[q].generation = call[q].generation /\ call'[q].by = call[q].by
      BY <1>1, <2>1, <2>3 DEF Step
    <3> QED BY <1>1, <3>1 DEF Step, CallInv
  <2>4. CASE /\ call'[p].generation = owner.generation /\ call'[p].by = owner.session
             /\ p \in Sessions => owner.session = p
    <3>1. owner.session \in Sessions /\ owner.generation \in 1 .. owner.generation
      BY DEF Types, FileTypes, Generations
    <3> QED BY <1>1, <2>1, <2>4, <3>1 DEF Step, CallInv
  <2> QED BY <1>1, <2>2, <2>3, <2>4 DEF Step
<1>2. CASE UNCHANGED <<pc, call>> /\ owner' = owner
  BY <1>2 DEF CallInv, Busy
<1>3. CASE UNCHANGED <<pc, call>> /\ owner'.generation = owner.generation + 1
  <2>1. \A q \in Processes : (Busy(q))' <=> Busy(q)
    BY <1>3 DEF Busy
  <2>2. \A q \in Processes : Busy(q) =>
          /\ call[q].generation \in 1 .. owner'.generation
          /\ call[q].generation # owner'.generation
    BY <1>0, <1>3 DEF CallInv
  <2> QED BY <1>3, <2>1, <2>2 DEF CallInv
<1> QED BY <1>1, <1>2, <1>3, Steps

-----------------------------------------------------------------------------
(* One automatic attempt per generation *)

\* Unless a newer generation's marker was overwritten, the marker is at or beyond every
\* generation that was attempted, and an attempt that is about to be marked is none.
AttemptInv ==
  "attempt" \notin strayed =>
    /\ "attempt" \notin repeated
    /\ \A g \in attempted : marker >= g
    /\ \A s \in Sessions :
         pc[s] = "mark" /\ call[s].generation \in attempted => marker > call[s].generation

LEMMA AttemptStep ==
  ASSUME Types, CallInv, AttemptInv, [SuccessionNext]_successionVars
  PROVE  AttemptInv'
<1> USE Members DEF Types, CallTypes, Goto, Begin, End, Proposed, Over, Transferred
<1>1. ASSUME NEW p \in Processes, Propose(p) PROVE AttemptInv'
  <2>1. UNCHANGED <<marker, attempted>>
    BY <1>1 DEF Propose
  <2>2. /\ "attempt" \in strayed => "attempt" \in strayed'
        /\ "attempt" \in repeated' => "attempt" \in repeated
    BY <1>1 DEF Propose, Note
  <2>3. \A t \in Sessions : pc'[t] = "mark" => pc[t] = "mark" /\ call'[t] = call[t]
    BY <1>1 DEF Propose
  <2> QED BY <2>1, <2>2, <2>3 DEF AttemptInv
<1>2. ASSUME NEW p \in Processes, ClaimRight(p) PROVE AttemptInv'
  <2>1. UNCHANGED <<marker, attempted>>
    BY <1>2 DEF ClaimRight
  <2>2. /\ "attempt" \in strayed => "attempt" \in strayed'
        /\ "attempt" \in repeated' => "attempt" \in repeated
    BY <1>2 DEF ClaimRight, Note
  <2>3. \A t \in Sessions : pc'[t] = "mark" => pc[t] = "mark" /\ call'[t] = call[t]
    BY <1>2 DEF ClaimRight
  <2> QED BY <2>1, <2>2, <2>3 DEF AttemptInv
<1>3. ASSUME NEW p \in Processes, Recheck(p) PROVE AttemptInv'
  <2>1. UNCHANGED <<marker, attempted>>
    BY <1>3 DEF Recheck
  <2>2. /\ "attempt" \in strayed => "attempt" \in strayed'
        /\ "attempt" \in repeated' => "attempt" \in repeated
    BY <1>3 DEF Recheck, Note
  <2>3. \A t \in Sessions : pc'[t] = "mark" => pc[t] = "mark" /\ call'[t] = call[t]
    BY <1>3 DEF Recheck
  <2> QED BY <2>1, <2>2, <2>3 DEF AttemptInv
<1>4. ASSUME NEW p \in Processes, CreateProposal(p) PROVE AttemptInv'
  <2>1. UNCHANGED <<marker, attempted>>
    BY <1>4 DEF CreateProposal
  <2>2. /\ "attempt" \in strayed => "attempt" \in strayed'
        /\ "attempt" \in repeated' => "attempt" \in repeated
    BY <1>4 DEF CreateProposal, Note
  <2>3. \A t \in Sessions : pc'[t] = "mark" => pc[t] = "mark" /\ call'[t] = call[t]
    BY <1>4 DEF CreateProposal
  <2> QED BY <2>1, <2>2, <2>3 DEF AttemptInv
<1>5. ASSUME NEW p \in Processes, Spin(p) PROVE AttemptInv'
  <2>1. UNCHANGED <<marker, attempted>>
    BY <1>5 DEF Spin
  <2>2. /\ "attempt" \in strayed => "attempt" \in strayed'
        /\ "attempt" \in repeated' => "attempt" \in repeated
    BY <1>5 DEF Spin, Note
  <2>3. \A t \in Sessions : pc'[t] = "mark" => pc[t] = "mark" /\ call'[t] = call[t]
    BY <1>5 DEF Spin
  <2> QED BY <2>1, <2>2, <2>3 DEF AttemptInv
<1>6. ASSUME NEW p \in Processes, LookAtAge(p) PROVE AttemptInv'
  <2>1. UNCHANGED <<marker, attempted>>
    BY <1>6 DEF LookAtAge
  <2>2. /\ "attempt" \in strayed => "attempt" \in strayed'
        /\ "attempt" \in repeated' => "attempt" \in repeated
    BY <1>6 DEF LookAtAge, Note
  <2>3. \A t \in Sessions : pc'[t] = "mark" => pc[t] = "mark" /\ call'[t] = call[t]
    BY <1>6 DEF LookAtAge
  <2> QED BY <2>1, <2>2, <2>3 DEF AttemptInv
<1>7. ASSUME NEW p \in Processes, Unlink(p) PROVE AttemptInv'
  <2>1. UNCHANGED <<marker, attempted>>
    BY <1>7 DEF Unlink
  <2>2. /\ "attempt" \in strayed => "attempt" \in strayed'
        /\ "attempt" \in repeated' => "attempt" \in repeated
    BY <1>7 DEF Unlink, Note
  <2>3. \A t \in Sessions : pc'[t] = "mark" => pc[t] = "mark" /\ call'[t] = call[t]
    BY <1>7 DEF Unlink
  <2> QED BY <2>1, <2>2, <2>3 DEF AttemptInv
<1>8. ASSUME NEW p \in Processes, Crash(p) PROVE AttemptInv'
  <2>1. UNCHANGED <<marker, attempted>>
    BY <1>8 DEF Crash
  <2>2. /\ "attempt" \in strayed => "attempt" \in strayed'
        /\ "attempt" \in repeated' => "attempt" \in repeated
    BY <1>8 DEF Crash, Note
  <2>3. \A t \in Sessions : pc'[t] = "mark" => pc[t] = "mark" /\ call'[t] = call[t]
    BY <1>8 DEF Crash
  <2> QED BY <2>1, <2>2, <2>3 DEF AttemptInv
<1>9. ASSUME NEW s \in Sessions, AgentEnd(s) PROVE AttemptInv'
  <2>1. UNCHANGED <<marker, attempted>>
    BY <1>9 DEF AgentEnd
  <2>2. /\ "attempt" \in strayed => "attempt" \in strayed'
        /\ "attempt" \in repeated' => "attempt" \in repeated
    BY <1>9 DEF AgentEnd, Note
  <2>3. \A t \in Sessions : pc'[t] = "mark" => pc[t] = "mark" /\ call'[t] = call[t]
    BY <1>9 DEF AgentEnd
  <2> QED BY <2>1, <2>2, <2>3 DEF AttemptInv
<1>10. ASSUME NEW s \in Sessions, AskTransfer(s) PROVE AttemptInv'
  <2>1. UNCHANGED <<marker, attempted>>
    BY <1>10 DEF AskTransfer
  <2>2. /\ "attempt" \in strayed => "attempt" \in strayed'
        /\ "attempt" \in repeated' => "attempt" \in repeated
    BY <1>10 DEF AskTransfer, Note
  <2>3. \A t \in Sessions : pc'[t] = "mark" => pc[t] = "mark" /\ call'[t] = call[t]
    BY <1>10 DEF AskTransfer
  <2> QED BY <2>1, <2>2, <2>3 DEF AttemptInv
<1>11. ASSUME NEW s \in Sessions, Gate(s) PROVE AttemptInv'
  <2>1. UNCHANGED <<marker, attempted, repeated, strayed>>
    BY <1>11 DEF Gate
  <2>2. \A t \in Sessions \ {s} : pc'[t] = pc[t] /\ call'[t] = call[t]
    BY <1>11 DEF Gate
  <2>3. pc'[s] = "mark" => call'[s] = call[s] /\ marker # call[s].generation
    BY <1>11 DEF Gate
  <2>4. call[s].generation \in Nat /\ marker \in Nat
    BY DEF Calls, FileTypes
  <2> QED BY <2>1, <2>2, <2>3, <2>4 DEF AttemptInv
<1>12. ASSUME NEW s \in Sessions, Mark(s) PROVE AttemptInv'
  <2> DEFINE n == call[s].generation
  <2>1. /\ marker' = n /\ n \in Nat /\ marker \in Nat /\ attempted' = attempted \cup {n}
        /\ strayed' = Note(strayed, "attempt", marker > n)
        /\ repeated' = Note(repeated, "attempt", n \in attempted)
    BY <1>12 DEF Mark, Calls, FileTypes
  <2>2. pc[s] = "mark" /\ pc'[s] = "transfer"
    BY <1>12 DEF Mark
  <2>3. \A t \in Sessions \ {s} : pc'[t] = pc[t] /\ call'[t] = call[t]
    BY <1>12 DEF Mark
  <2>4. \A t \in Sessions \ {s} : pc[t] = "mark" => call[t].generation # n
    BY <2>2 DEF CallInv, Busy
  <2>5. \A t \in Sessions : call[t].generation \in Nat
    BY DEF Calls
  <2>6. \A g \in attempted : g \in Nat
    BY DEF HistoryTypes, Generations
  <2> HIDE DEF n
  <2>7. SUFFICES ASSUME "attempt" \notin strayed'
                 PROVE  AttemptInv'
    BY DEF AttemptInv
  <2>8. "attempt" \notin strayed /\ marker <= n
    BY <2>1, <2>7 DEF Note
  <2>9. n \notin attempted
    BY <2>1, <2>2, <2>8 DEF AttemptInv, n
  <2>10. "attempt" \notin repeated'
    BY <2>1, <2>8, <2>9 DEF AttemptInv, Note
  <2>11. \A g \in attempted' : marker' >= g
    BY <2>1, <2>6, <2>8 DEF AttemptInv
  <2>12. ASSUME NEW t \in Sessions, pc'[t] = "mark", call'[t].generation \in attempted'
         PROVE  marker' > call'[t].generation
    <3>1. t # s /\ pc[t] = "mark" /\ call[t].generation = call'[t].generation
      BY <2>2, <2>3, <2>12
    <3>2. call[t].generation \in attempted
      BY <2>1, <2>4, <2>12, <3>1
    <3>3. marker > call[t].generation
      BY <2>8, <3>1, <3>2 DEF AttemptInv
    <3> QED BY <2>1, <2>5, <2>8, <3>1, <3>3
  <2> QED BY <2>10, <2>11, <2>12 DEF AttemptInv
<1>13. ASSUME NEW s \in Sessions, Transfer(s) PROVE AttemptInv'
  <2>1. UNCHANGED <<marker, attempted>>
    BY <1>13 DEF Transfer
  <2>2. /\ "attempt" \in strayed => "attempt" \in strayed'
        /\ "attempt" \in repeated' => "attempt" \in repeated
    BY <1>13 DEF Transfer, Note
  <2>3. \A t \in Sessions : pc'[t] = "mark" => pc[t] = "mark" /\ call'[t] = call[t]
    BY <1>13 DEF Transfer
  <2> QED BY <2>1, <2>2, <2>3 DEF AttemptInv
<1>14. ASSUME NEW s \in Sessions, Adopt(s) PROVE AttemptInv'
  <2>1. UNCHANGED <<marker, attempted>>
    BY <1>14 DEF Adopt
  <2>2. /\ "attempt" \in strayed => "attempt" \in strayed'
        /\ "attempt" \in repeated' => "attempt" \in repeated
    BY <1>14 DEF Adopt, Note
  <2>3. \A t \in Sessions : pc'[t] = "mark" => pc[t] = "mark" /\ call'[t] = call[t]
    BY <1>14 DEF Adopt
  <2> QED BY <2>1, <2>2, <2>3 DEF AttemptInv
<1>15. ASSUME NEW s \in Sessions, WriteAdopted(s) PROVE AttemptInv'
  <2>1. UNCHANGED <<marker, attempted>>
    BY <1>15 DEF WriteAdopted
  <2>2. /\ "attempt" \in strayed => "attempt" \in strayed'
        /\ "attempt" \in repeated' => "attempt" \in repeated
    BY <1>15 DEF WriteAdopted, Note
  <2>3. \A t \in Sessions : pc'[t] = "mark" => pc[t] = "mark" /\ call'[t] = call[t]
    BY <1>15 DEF WriteAdopted
  <2> QED BY <2>1, <2>2, <2>3 DEF AttemptInv
<1>16. ASSUME NEW s \in Sessions, MarkCompleted(s) PROVE AttemptInv'
  <2>1. /\ marker' = call[s].generation /\ call[s].generation \in Nat /\ marker \in Nat
        /\ strayed' = Note(strayed, "attempt", marker > call[s].generation)
    BY <1>16 DEF MarkCompleted, Calls, FileTypes
  <2>2. attempted' = attempted /\ repeated' = repeated
    BY <1>16 DEF MarkCompleted
  <2>3. \A t \in Sessions : pc'[t] = "mark" => pc[t] = "mark" /\ call'[t] = call[t]
    BY <1>16 DEF MarkCompleted
  <2>4. \A t \in Sessions : call[t].generation \in Nat
    BY DEF Calls
  <2>5. \A g \in attempted : g \in Nat
    BY DEF HistoryTypes, Generations
  <2> QED BY <2>1, <2>2, <2>3, <2>4, <2>5 DEF AttemptInv, Note
<1>17. ASSUME NEW s \in Sessions, MarkFailed(s) PROVE AttemptInv'
  <2>1. /\ marker' = call[s].generation /\ call[s].generation \in Nat /\ marker \in Nat
        /\ strayed' = Note(strayed, "attempt", marker > call[s].generation)
    BY <1>17 DEF MarkFailed, Calls, FileTypes
  <2>2. attempted' = attempted /\ repeated' = repeated
    BY <1>17 DEF MarkFailed
  <2>3. \A t \in Sessions : pc'[t] = "mark" => pc[t] = "mark" /\ call'[t] = call[t]
    BY <1>17 DEF MarkFailed
  <2>4. \A t \in Sessions : call[t].generation \in Nat
    BY DEF Calls
  <2>5. \A g \in attempted : g \in Nat
    BY DEF HistoryTypes, Generations
  <2> QED BY <2>1, <2>2, <2>3, <2>4, <2>5 DEF AttemptInv, Note
<1>18. ASSUME NEW s \in Sessions, WriteFinished(s) PROVE AttemptInv'
  <2>1. UNCHANGED <<marker, attempted>>
    BY <1>18 DEF WriteFinished
  <2>2. /\ "attempt" \in strayed => "attempt" \in strayed'
        /\ "attempt" \in repeated' => "attempt" \in repeated
    BY <1>18 DEF WriteFinished, Note
  <2>3. \A t \in Sessions : pc'[t] = "mark" => pc[t] = "mark" /\ call'[t] = call[t]
    BY <1>18 DEF WriteFinished
  <2> QED BY <2>1, <2>2, <2>3 DEF AttemptInv
<1>19. ASSUME NEW s \in Sessions, Finish(s) PROVE AttemptInv'
  <2>1. UNCHANGED <<marker, attempted>>
    BY <1>19 DEF Finish
  <2>2. /\ "attempt" \in strayed => "attempt" \in strayed'
        /\ "attempt" \in repeated' => "attempt" \in repeated
    BY <1>19 DEF Finish, Note
  <2>3. \A t \in Sessions : pc'[t] = "mark" => pc[t] = "mark" /\ call'[t] = call[t]
    BY <1>19 DEF Finish
  <2> QED BY <2>1, <2>2, <2>3 DEF AttemptInv
<1>20. ASSUME Prepare PROVE AttemptInv'
  <2>1. UNCHANGED <<marker, attempted>>
    BY <1>20 DEF Prepare
  <2>2. /\ "attempt" \in strayed => "attempt" \in strayed'
        /\ "attempt" \in repeated' => "attempt" \in repeated
    BY <1>20 DEF Prepare, Note
  <2>3. \A t \in Sessions : pc'[t] = "mark" => pc[t] = "mark" /\ call'[t] = call[t]
    BY <1>20 DEF Prepare
  <2> QED BY <2>1, <2>2, <2>3 DEF AttemptInv
<1>21. ASSUME ReadDecision PROVE AttemptInv'
  <2>1. UNCHANGED <<marker, attempted>>
    BY <1>21 DEF ReadDecision
  <2>2. /\ "attempt" \in strayed => "attempt" \in strayed'
        /\ "attempt" \in repeated' => "attempt" \in repeated
    BY <1>21 DEF ReadDecision, Note
  <2>3. \A t \in Sessions : pc'[t] = "mark" => pc[t] = "mark" /\ call'[t] = call[t]
    BY <1>21 DEF ReadDecision
  <2> QED BY <2>1, <2>2, <2>3 DEF AttemptInv
<1>22. ASSUME WriteDecision PROVE AttemptInv'
  <2>1. UNCHANGED <<marker, attempted>>
    BY <1>22 DEF WriteDecision
  <2>2. /\ "attempt" \in strayed => "attempt" \in strayed'
        /\ "attempt" \in repeated' => "attempt" \in repeated
    BY <1>22 DEF WriteDecision, Note
  <2>3. \A t \in Sessions : pc'[t] = "mark" => pc[t] = "mark" /\ call'[t] = call[t]
    BY <1>22 DEF WriteDecision
  <2> QED BY <2>1, <2>2, <2>3 DEF AttemptInv
<1>23. ASSUME OwnerMoves PROVE AttemptInv'
  <2>1. UNCHANGED <<marker, attempted>>
    BY <1>23 DEF OwnerMoves
  <2>2. /\ "attempt" \in strayed => "attempt" \in strayed'
        /\ "attempt" \in repeated' => "attempt" \in repeated
    BY <1>23 DEF OwnerMoves, Note
  <2>3. \A t \in Sessions : pc'[t] = "mark" => pc[t] = "mark" /\ call'[t] = call[t]
    BY <1>23 DEF OwnerMoves
  <2> QED BY <2>1, <2>2, <2>3 DEF AttemptInv
<1>24. ASSUME NEW g \in Generations, RightGrowsOld(g) PROVE AttemptInv'
  <2>1. UNCHANGED <<marker, attempted>>
    BY <1>24 DEF RightGrowsOld
  <2>2. /\ "attempt" \in strayed => "attempt" \in strayed'
        /\ "attempt" \in repeated' => "attempt" \in repeated
    BY <1>24 DEF RightGrowsOld, Note
  <2>3. \A t \in Sessions : pc'[t] = "mark" => pc[t] = "mark" /\ call'[t] = call[t]
    BY <1>24 DEF RightGrowsOld
  <2> QED BY <2>1, <2>2, <2>3 DEF AttemptInv
<1>25. CASE UNCHANGED successionVars
  <2>1. UNCHANGED <<marker, attempted>>
    BY <1>25 DEF successionVars
  <2>2. /\ "attempt" \in strayed => "attempt" \in strayed'
        /\ "attempt" \in repeated' => "attempt" \in repeated
    BY <1>25 DEF successionVars, Note
  <2>3. \A t \in Sessions : pc'[t] = "mark" => pc[t] = "mark" /\ call'[t] = call[t]
    BY <1>25 DEF successionVars
  <2> QED BY <2>1, <2>2, <2>3 DEF AttemptInv
<1> QED BY <1>1, <1>2, <1>3, <1>4, <1>5, <1>6, <1>7, <1>8, <1>9, <1>10, <1>11, <1>12, <1>13,
      <1>14, <1>15, <1>16, <1>17, <1>18, <1>19, <1>20, <1>21, <1>22, <1>23, <1>24,
      <1>25 DEF SuccessionNext, ProposeStep, HandOverStep

-----------------------------------------------------------------------------
(* One proposal per generation *)

\* The process holds the right to propose and is about to use it.
Holding(p) == pc[p] \in {"recheck", "create"}

\* Unless a right was taken from its holder or a newer proposal was overwritten, a
\* right has one holder at a time.
RightInv ==
  "proposal" \notin strayed =>
    \A p \in Processes : Holding(p) =>
      /\ right[call[p].generation] = "fresh"
      /\ \A q \in Processes :
           Holding(q) /\ call[q].generation = call[p].generation => p = q

\* And then the proposal is for the latest generation that was proposed for, or for a
\* later one; a process that is about to create one is the first of its generation.
ProposalInv ==
  "proposal" \notin strayed =>
    /\ "proposal" \notin repeated
    /\ \A g \in created : proposal.generation >= g
    /\ \A p \in Processes :
         pc[p] = "create" /\ call[p].generation \in created
           => proposal.generation > call[p].generation

LEMMA RightStep ==
  ASSUME Types, CallInv, RightInv, [SuccessionNext]_successionVars
  PROVE  RightInv'
<1> USE Members DEF Types, CallTypes, Goto, Begin, End, Proposed, Over, Transferred
<1>1. ASSUME NEW p \in Processes, Propose(p) PROVE RightInv'
  <2>1. right' = right
    BY <1>1 DEF Propose
  <2>2. "proposal" \in strayed => "proposal" \in strayed'
    BY <1>1 DEF Propose, Note
  <2>3. \A t \in Processes : Holding(t)' => Holding(t) /\ call'[t].generation = call[t].generation
    BY <1>1 DEF Propose, Holding
  <2> QED BY <2>1, <2>2, <2>3 DEF RightInv
<1>2. ASSUME NEW p \in Processes, ClaimRight(p) PROVE RightInv'
  <2>1. strayed' = strayed /\ call' = call
    BY <1>2 DEF ClaimRight
  <2>2. \A t \in Processes \ {p} : Holding(t)' <=> Holding(t)
    BY <1>2 DEF ClaimRight, Holding
  <2>3. CASE right[call[p].generation] = "free"
    <3>1. right' = [right EXCEPT ![call[p].generation] = "fresh"]
      BY <1>2, <2>3 DEF ClaimRight
    <3>2. call[p].generation \in Generations
      BY <1>2 DEF ClaimRight, CallInv, Busy, FileTypes, Generations
    <3>3. "proposal" \notin strayed =>
            \A t \in Processes : Holding(t) => call[t].generation # call[p].generation
      BY <2>3 DEF RightInv
    <3> QED BY <2>1, <2>2, <3>1, <3>2, <3>3 DEF RightInv, FileTypes
  <2>4. CASE right[call[p].generation] # "free"
    <3>1. right' = right /\ ~Holding(p)'
      BY <1>2, <2>4 DEF ClaimRight, Holding
    <3> QED BY <2>1, <2>2, <3>1 DEF RightInv
  <2> QED BY <2>3, <2>4
<1>3. ASSUME NEW p \in Processes, Recheck(p) PROVE RightInv'
  <2>1. right' = right
    BY <1>3 DEF Recheck
  <2>2. "proposal" \in strayed => "proposal" \in strayed'
    BY <1>3 DEF Recheck, Note
  <2>3. \A t \in Processes : Holding(t)' => Holding(t) /\ call'[t] = call[t]
    BY <1>3 DEF Recheck, Holding
  <2> QED BY <2>1, <2>2, <2>3 DEF RightInv
<1>4. ASSUME NEW p \in Processes, CreateProposal(p) PROVE RightInv'
  <2>1. right' = right
    BY <1>4 DEF CreateProposal
  <2>2. "proposal" \in strayed => "proposal" \in strayed'
    BY <1>4 DEF CreateProposal, Note
  <2>3. \A t \in Processes : Holding(t)' => Holding(t) /\ call'[t].generation = call[t].generation
    BY <1>4 DEF CreateProposal, Holding
  <2> QED BY <2>1, <2>2, <2>3 DEF RightInv
<1>5. ASSUME NEW p \in Processes, Spin(p) PROVE RightInv'
  <2>1. right' = right
    BY <1>5 DEF Spin
  <2>2. "proposal" \in strayed => "proposal" \in strayed'
    BY <1>5 DEF Spin, Note
  <2>3. \A t \in Processes : Holding(t)' => Holding(t) /\ call'[t].generation = call[t].generation
    BY <1>5 DEF Spin, Holding
  <2> QED BY <2>1, <2>2, <2>3 DEF RightInv
<1>6. ASSUME NEW p \in Processes, LookAtAge(p) PROVE RightInv'
  <2>1. right' = right
    BY <1>6 DEF LookAtAge
  <2>2. "proposal" \in strayed => "proposal" \in strayed'
    BY <1>6 DEF LookAtAge, Note
  <2>3. \A t \in Processes : Holding(t)' => Holding(t) /\ call'[t].generation = call[t].generation
    BY <1>6 DEF LookAtAge, Holding
  <2> QED BY <2>1, <2>2, <2>3 DEF RightInv
<1>7. ASSUME NEW p \in Processes, Unlink(p) PROVE RightInv'
  <2>1. /\ right' = [right EXCEPT ![call[p].generation] = "free"]
        /\ strayed' = Note(strayed, "proposal", right[call[p].generation] = "fresh")
    BY <1>7 DEF Unlink
  <2>2. \A t \in Processes : Holding(t)' => Holding(t) /\ call'[t].generation = call[t].generation
    BY <1>7 DEF Unlink, Holding
  <2>3. "proposal" \notin strayed' =>
          "proposal" \notin strayed /\ right[call[p].generation] # "fresh"
    BY <2>1 DEF Note
  <2> QED BY <2>1, <2>2, <2>3 DEF RightInv, FileTypes
<1>8. ASSUME NEW p \in Processes, Crash(p) PROVE RightInv'
  <2>1. right' = right
    BY <1>8 DEF Crash
  <2>2. "proposal" \in strayed => "proposal" \in strayed'
    BY <1>8 DEF Crash, Note
  <2>3. \A t \in Processes : Holding(t)' => Holding(t) /\ call'[t].generation = call[t].generation
    BY <1>8 DEF Crash, Holding
  <2> QED BY <2>1, <2>2, <2>3 DEF RightInv
<1>9. ASSUME NEW s \in Sessions, AgentEnd(s) PROVE RightInv'
  <2>1. right' = right
    BY <1>9 DEF AgentEnd
  <2>2. "proposal" \in strayed => "proposal" \in strayed'
    BY <1>9 DEF AgentEnd, Note
  <2>3. \A t \in Processes : Holding(t)' => Holding(t) /\ call'[t].generation = call[t].generation
    BY <1>9 DEF AgentEnd, Holding
  <2> QED BY <2>1, <2>2, <2>3 DEF RightInv
<1>10. ASSUME NEW s \in Sessions, AskTransfer(s) PROVE RightInv'
  <2>1. right' = right
    BY <1>10 DEF AskTransfer
  <2>2. "proposal" \in strayed => "proposal" \in strayed'
    BY <1>10 DEF AskTransfer, Note
  <2>3. \A t \in Processes : Holding(t)' => Holding(t) /\ call'[t].generation = call[t].generation
    BY <1>10 DEF AskTransfer, Holding
  <2> QED BY <2>1, <2>2, <2>3 DEF RightInv
<1>11. ASSUME NEW s \in Sessions, Gate(s) PROVE RightInv'
  <2>1. right' = right
    BY <1>11 DEF Gate
  <2>2. "proposal" \in strayed => "proposal" \in strayed'
    BY <1>11 DEF Gate, Note
  <2>3. \A t \in Processes : Holding(t)' => Holding(t) /\ call'[t].generation = call[t].generation
    BY <1>11 DEF Gate, Holding
  <2> QED BY <2>1, <2>2, <2>3 DEF RightInv
<1>12. ASSUME NEW s \in Sessions, Mark(s) PROVE RightInv'
  <2>1. right' = right
    BY <1>12 DEF Mark
  <2>2. "proposal" \in strayed => "proposal" \in strayed'
    BY <1>12 DEF Mark, Note
  <2>3. \A t \in Processes : Holding(t)' => Holding(t) /\ call'[t].generation = call[t].generation
    BY <1>12 DEF Mark, Holding
  <2> QED BY <2>1, <2>2, <2>3 DEF RightInv
<1>13. ASSUME NEW s \in Sessions, Transfer(s) PROVE RightInv'
  <2>1. right' = right
    BY <1>13 DEF Transfer
  <2>2. "proposal" \in strayed => "proposal" \in strayed'
    BY <1>13 DEF Transfer, Note
  <2>3. \A t \in Processes : Holding(t)' => Holding(t) /\ call'[t].generation = call[t].generation
    BY <1>13 DEF Transfer, Holding
  <2> QED BY <2>1, <2>2, <2>3 DEF RightInv
<1>14. ASSUME NEW s \in Sessions, Adopt(s) PROVE RightInv'
  <2>1. right' = right
    BY <1>14 DEF Adopt
  <2>2. "proposal" \in strayed => "proposal" \in strayed'
    BY <1>14 DEF Adopt, Note
  <2>3. \A t \in Processes : Holding(t)' => Holding(t) /\ call'[t].generation = call[t].generation
    BY <1>14 DEF Adopt, Holding
  <2> QED BY <2>1, <2>2, <2>3 DEF RightInv
<1>15. ASSUME NEW s \in Sessions, WriteAdopted(s) PROVE RightInv'
  <2>1. right' = right
    BY <1>15 DEF WriteAdopted
  <2>2. "proposal" \in strayed => "proposal" \in strayed'
    BY <1>15 DEF WriteAdopted, Note
  <2>3. \A t \in Processes : Holding(t)' => Holding(t) /\ call'[t].generation = call[t].generation
    BY <1>15 DEF WriteAdopted, Holding
  <2> QED BY <2>1, <2>2, <2>3 DEF RightInv
<1>16. ASSUME NEW s \in Sessions, MarkCompleted(s) PROVE RightInv'
  <2>1. right' = right
    BY <1>16 DEF MarkCompleted
  <2>2. "proposal" \in strayed => "proposal" \in strayed'
    BY <1>16 DEF MarkCompleted, Note
  <2>3. \A t \in Processes : Holding(t)' => Holding(t) /\ call'[t].generation = call[t].generation
    BY <1>16 DEF MarkCompleted, Holding
  <2> QED BY <2>1, <2>2, <2>3 DEF RightInv
<1>17. ASSUME NEW s \in Sessions, MarkFailed(s) PROVE RightInv'
  <2>1. right' = right
    BY <1>17 DEF MarkFailed
  <2>2. "proposal" \in strayed => "proposal" \in strayed'
    BY <1>17 DEF MarkFailed, Note
  <2>3. \A t \in Processes : Holding(t)' => Holding(t) /\ call'[t].generation = call[t].generation
    BY <1>17 DEF MarkFailed, Holding
  <2> QED BY <2>1, <2>2, <2>3 DEF RightInv
<1>18. ASSUME NEW s \in Sessions, WriteFinished(s) PROVE RightInv'
  <2>1. right' = right
    BY <1>18 DEF WriteFinished
  <2>2. "proposal" \in strayed => "proposal" \in strayed'
    BY <1>18 DEF WriteFinished, Note
  <2>3. \A t \in Processes : Holding(t)' => Holding(t) /\ call'[t].generation = call[t].generation
    BY <1>18 DEF WriteFinished, Holding
  <2> QED BY <2>1, <2>2, <2>3 DEF RightInv
<1>19. ASSUME NEW s \in Sessions, Finish(s) PROVE RightInv'
  <2>1. right' = right
    BY <1>19 DEF Finish
  <2>2. "proposal" \in strayed => "proposal" \in strayed'
    BY <1>19 DEF Finish, Note
  <2>3. \A t \in Processes : Holding(t)' => Holding(t) /\ call'[t].generation = call[t].generation
    BY <1>19 DEF Finish, Holding
  <2> QED BY <2>1, <2>2, <2>3 DEF RightInv
<1>20. ASSUME Prepare PROVE RightInv'
  <2>1. right' = right
    BY <1>20 DEF Prepare
  <2>2. "proposal" \in strayed => "proposal" \in strayed'
    BY <1>20 DEF Prepare, Note
  <2>3. \A t \in Processes : Holding(t)' => Holding(t) /\ call'[t].generation = call[t].generation
    BY <1>20 DEF Prepare, Holding
  <2> QED BY <2>1, <2>2, <2>3 DEF RightInv
<1>21. ASSUME ReadDecision PROVE RightInv'
  <2>1. right' = right
    BY <1>21 DEF ReadDecision
  <2>2. "proposal" \in strayed => "proposal" \in strayed'
    BY <1>21 DEF ReadDecision, Note
  <2>3. \A t \in Processes : Holding(t)' => Holding(t) /\ call'[t].generation = call[t].generation
    BY <1>21 DEF ReadDecision, Holding
  <2> QED BY <2>1, <2>2, <2>3 DEF RightInv
<1>22. ASSUME WriteDecision PROVE RightInv'
  <2>1. right' = right
    BY <1>22 DEF WriteDecision
  <2>2. "proposal" \in strayed => "proposal" \in strayed'
    BY <1>22 DEF WriteDecision, Note
  <2>3. \A t \in Processes : Holding(t)' => Holding(t) /\ call'[t].generation = call[t].generation
    BY <1>22 DEF WriteDecision, Holding
  <2> QED BY <2>1, <2>2, <2>3 DEF RightInv
<1>23. ASSUME OwnerMoves PROVE RightInv'
  <2>1. right' = right
    BY <1>23 DEF OwnerMoves
  <2>2. "proposal" \in strayed => "proposal" \in strayed'
    BY <1>23 DEF OwnerMoves, Note
  <2>3. \A t \in Processes : Holding(t)' => Holding(t) /\ call'[t].generation = call[t].generation
    BY <1>23 DEF OwnerMoves, Holding
  <2> QED BY <2>1, <2>2, <2>3 DEF RightInv
<1>24. ASSUME NEW g \in Generations, RightGrowsOld(g) PROVE RightInv'
  <2>1. UNCHANGED <<strayed, pc, call>> /\ right' = [right EXCEPT ![g] = "old"]
    BY <1>24 DEF RightGrowsOld
  <2>2. \A p \in Processes : Holding(p) => call[p].generation # g
    BY <1>24 DEF RightGrowsOld, Holding
  <2>3. \A p \in Processes : Holding(p)' <=> Holding(p)
    BY <2>1 DEF Holding
  <2> QED BY <2>1, <2>2, <2>3 DEF RightInv, FileTypes
<1>25. CASE UNCHANGED successionVars
  <2>1. right' = right
    BY <1>25 DEF successionVars
  <2>2. "proposal" \in strayed => "proposal" \in strayed'
    BY <1>25 DEF successionVars, Note
  <2>3. \A t \in Processes : Holding(t)' => Holding(t) /\ call'[t].generation = call[t].generation
    BY <1>25 DEF successionVars, Holding
  <2> QED BY <2>1, <2>2, <2>3 DEF RightInv
<1> QED BY <1>1, <1>2, <1>3, <1>4, <1>5, <1>6, <1>7, <1>8, <1>9, <1>10, <1>11, <1>12, <1>13,
      <1>14, <1>15, <1>16, <1>17, <1>18, <1>19, <1>20, <1>21, <1>22, <1>23, <1>24,
      <1>25 DEF SuccessionNext, ProposeStep, HandOverStep

LEMMA ProposalStep ==
  ASSUME Types, CallInv, RightInv, ProposalInv, [SuccessionNext]_successionVars
  PROVE  ProposalInv'
<1> USE Members DEF Types, CallTypes, Goto, Begin, End, Proposed, Over, Transferred
<1>1. ASSUME NEW p \in Processes, Propose(p) PROVE ProposalInv'
  <2>1. UNCHANGED <<proposal, created>>
    BY <1>1 DEF Propose
  <2>2. /\ "proposal" \in strayed => "proposal" \in strayed'
        /\ "proposal" \in repeated' => "proposal" \in repeated
    BY <1>1 DEF Propose, Note
  <2>3. \A t \in Processes : pc'[t] = "create" => pc[t] = "create" /\ call'[t] = call[t]
    BY <1>1 DEF Propose
  <2> QED BY <2>1, <2>2, <2>3 DEF ProposalInv
<1>2. ASSUME NEW p \in Processes, ClaimRight(p) PROVE ProposalInv'
  <2>1. UNCHANGED <<proposal, created>>
    BY <1>2 DEF ClaimRight
  <2>2. /\ "proposal" \in strayed => "proposal" \in strayed'
        /\ "proposal" \in repeated' => "proposal" \in repeated
    BY <1>2 DEF ClaimRight, Note
  <2>3. \A t \in Processes : pc'[t] = "create" => pc[t] = "create" /\ call'[t] = call[t]
    BY <1>2 DEF ClaimRight
  <2> QED BY <2>1, <2>2, <2>3 DEF ProposalInv
<1>3. ASSUME NEW p \in Processes, Recheck(p) PROVE ProposalInv'
  <2>1. UNCHANGED <<proposal, created, repeated, strayed>>
    BY <1>3 DEF Recheck
  <2>2. \A t \in Processes \ {p} : pc'[t] = pc[t] /\ call'[t] = call[t]
    BY <1>3 DEF Recheck
  <2>3. pc'[p] = "create" => call'[p] = call[p] /\ proposal.generation # call[p].generation
    BY <1>3 DEF Recheck
  <2>4. call[p].generation \in Nat /\ proposal.generation \in Nat
    BY DEF Calls, FileTypes, Proposals
  <2> QED BY <2>1, <2>2, <2>3, <2>4 DEF ProposalInv
<1>4. ASSUME NEW p \in Processes, CreateProposal(p) PROVE ProposalInv'
  <2> DEFINE n == call[p].generation
  <2>1. /\ proposal'.generation = n /\ created' = created \cup {n}
        /\ repeated' = Note(repeated, "proposal", n \in created)
        /\ strayed' = Note(strayed, "proposal", proposal.generation > n)
    BY <1>4 DEF CreateProposal, NoProposal
  <2>2. pc[p] = "create" /\ pc'[p] # "create"
    BY <1>4 DEF CreateProposal
  <2>3. \A t \in Processes \ {p} : pc'[t] = pc[t] /\ call'[t] = call[t]
    BY <1>4 DEF CreateProposal
  <2>4. /\ n \in Nat /\ proposal.generation \in Nat
        /\ \A t \in Processes : call[t].generation \in Nat
        /\ \A g \in created : g \in Nat
    BY DEF Calls, FileTypes, HistoryTypes, Proposals, Generations
  <2>5. SUFFICES ASSUME "proposal" \notin strayed'
                 PROVE  ProposalInv'
    BY DEF ProposalInv
  <2>6. "proposal" \notin strayed /\ proposal.generation <= n
    BY <2>1, <2>4, <2>5 DEF Note
  <2>7. n \notin created
    BY <2>2, <2>4, <2>6 DEF ProposalInv
  <2>8. \A t \in Processes \ {p} : pc[t] = "create" => call[t].generation # n
    BY <2>2, <2>6 DEF RightInv, Holding
  <2> HIDE DEF n
  <2>9. "proposal" \notin repeated'
    BY <2>1, <2>6, <2>7 DEF ProposalInv, Note
  <2>10. \A g \in created' : proposal'.generation >= g
    BY <2>1, <2>4, <2>6 DEF ProposalInv
  <2>11. ASSUME NEW t \in Processes, pc'[t] = "create", call'[t].generation \in created'
         PROVE  proposal'.generation > call'[t].generation
    <3>1. t # p /\ pc[t] = "create" /\ call[t].generation = call'[t].generation
      BY <2>2, <2>3, <2>11
    <3>2. call[t].generation \in created
      BY <2>1, <2>8, <2>11, <3>1
    <3>3. proposal.generation > call[t].generation
      BY <2>6, <3>1, <3>2 DEF ProposalInv
    <3> QED BY <2>1, <2>4, <2>6, <3>1, <3>3
  <2> QED BY <2>9, <2>10, <2>11 DEF ProposalInv
<1>5. ASSUME NEW p \in Processes, Spin(p) PROVE ProposalInv'
  <2>1. UNCHANGED <<proposal, created>>
    BY <1>5 DEF Spin
  <2>2. /\ "proposal" \in strayed => "proposal" \in strayed'
        /\ "proposal" \in repeated' => "proposal" \in repeated
    BY <1>5 DEF Spin, Note
  <2>3. \A t \in Processes : pc'[t] = "create" => pc[t] = "create" /\ call'[t] = call[t]
    BY <1>5 DEF Spin
  <2> QED BY <2>1, <2>2, <2>3 DEF ProposalInv
<1>6. ASSUME NEW p \in Processes, LookAtAge(p) PROVE ProposalInv'
  <2>1. UNCHANGED <<proposal, created>>
    BY <1>6 DEF LookAtAge
  <2>2. /\ "proposal" \in strayed => "proposal" \in strayed'
        /\ "proposal" \in repeated' => "proposal" \in repeated
    BY <1>6 DEF LookAtAge, Note
  <2>3. \A t \in Processes : pc'[t] = "create" => pc[t] = "create" /\ call'[t] = call[t]
    BY <1>6 DEF LookAtAge
  <2> QED BY <2>1, <2>2, <2>3 DEF ProposalInv
<1>7. ASSUME NEW p \in Processes, Unlink(p) PROVE ProposalInv'
  <2>1. UNCHANGED <<proposal, created>>
    BY <1>7 DEF Unlink
  <2>2. /\ "proposal" \in strayed => "proposal" \in strayed'
        /\ "proposal" \in repeated' => "proposal" \in repeated
    BY <1>7 DEF Unlink, Note
  <2>3. \A t \in Processes : pc'[t] = "create" => pc[t] = "create" /\ call'[t] = call[t]
    BY <1>7 DEF Unlink
  <2> QED BY <2>1, <2>2, <2>3 DEF ProposalInv
<1>8. ASSUME NEW p \in Processes, Crash(p) PROVE ProposalInv'
  <2>1. UNCHANGED <<proposal, created>>
    BY <1>8 DEF Crash
  <2>2. /\ "proposal" \in strayed => "proposal" \in strayed'
        /\ "proposal" \in repeated' => "proposal" \in repeated
    BY <1>8 DEF Crash, Note
  <2>3. \A t \in Processes : pc'[t] = "create" => pc[t] = "create" /\ call'[t] = call[t]
    BY <1>8 DEF Crash
  <2> QED BY <2>1, <2>2, <2>3 DEF ProposalInv
<1>9. ASSUME NEW s \in Sessions, AgentEnd(s) PROVE ProposalInv'
  <2>1. UNCHANGED <<proposal, created>>
    BY <1>9 DEF AgentEnd
  <2>2. /\ "proposal" \in strayed => "proposal" \in strayed'
        /\ "proposal" \in repeated' => "proposal" \in repeated
    BY <1>9 DEF AgentEnd, Note
  <2>3. \A t \in Processes : pc'[t] = "create" => pc[t] = "create" /\ call'[t] = call[t]
    BY <1>9 DEF AgentEnd
  <2> QED BY <2>1, <2>2, <2>3 DEF ProposalInv
<1>10. ASSUME NEW s \in Sessions, AskTransfer(s) PROVE ProposalInv'
  <2>1. UNCHANGED <<proposal, created>>
    BY <1>10 DEF AskTransfer
  <2>2. /\ "proposal" \in strayed => "proposal" \in strayed'
        /\ "proposal" \in repeated' => "proposal" \in repeated
    BY <1>10 DEF AskTransfer, Note
  <2>3. \A t \in Processes : pc'[t] = "create" => pc[t] = "create" /\ call'[t] = call[t]
    BY <1>10 DEF AskTransfer
  <2> QED BY <2>1, <2>2, <2>3 DEF ProposalInv
<1>11. ASSUME NEW s \in Sessions, Gate(s) PROVE ProposalInv'
  <2>1. UNCHANGED <<proposal, created>>
    BY <1>11 DEF Gate
  <2>2. /\ "proposal" \in strayed => "proposal" \in strayed'
        /\ "proposal" \in repeated' => "proposal" \in repeated
    BY <1>11 DEF Gate, Note
  <2>3. \A t \in Processes : pc'[t] = "create" => pc[t] = "create" /\ call'[t] = call[t]
    BY <1>11 DEF Gate
  <2> QED BY <2>1, <2>2, <2>3 DEF ProposalInv
<1>12. ASSUME NEW s \in Sessions, Mark(s) PROVE ProposalInv'
  <2>1. UNCHANGED <<proposal, created>>
    BY <1>12 DEF Mark
  <2>2. /\ "proposal" \in strayed => "proposal" \in strayed'
        /\ "proposal" \in repeated' => "proposal" \in repeated
    BY <1>12 DEF Mark, Note
  <2>3. \A t \in Processes : pc'[t] = "create" => pc[t] = "create" /\ call'[t] = call[t]
    BY <1>12 DEF Mark
  <2> QED BY <2>1, <2>2, <2>3 DEF ProposalInv
<1>13. ASSUME NEW s \in Sessions, Transfer(s) PROVE ProposalInv'
  <2>1. UNCHANGED <<proposal, created>>
    BY <1>13 DEF Transfer
  <2>2. /\ "proposal" \in strayed => "proposal" \in strayed'
        /\ "proposal" \in repeated' => "proposal" \in repeated
    BY <1>13 DEF Transfer, Note
  <2>3. \A t \in Processes : pc'[t] = "create" => pc[t] = "create" /\ call'[t] = call[t]
    BY <1>13 DEF Transfer
  <2> QED BY <2>1, <2>2, <2>3 DEF ProposalInv
<1>14. ASSUME NEW s \in Sessions, Adopt(s) PROVE ProposalInv'
  <2>1. UNCHANGED <<proposal, created>>
    BY <1>14 DEF Adopt
  <2>2. /\ "proposal" \in strayed => "proposal" \in strayed'
        /\ "proposal" \in repeated' => "proposal" \in repeated
    BY <1>14 DEF Adopt, Note
  <2>3. \A t \in Processes : pc'[t] = "create" => pc[t] = "create" /\ call'[t] = call[t]
    BY <1>14 DEF Adopt
  <2> QED BY <2>1, <2>2, <2>3 DEF ProposalInv
<1>15. ASSUME NEW s \in Sessions, WriteAdopted(s) PROVE ProposalInv'
  <2>1. /\ proposal' = copy[s] /\ UNCHANGED <<created, repeated>>
        /\ strayed' = Note(strayed, "proposal", proposal.generation > copy[s].generation)
    BY <1>15 DEF WriteAdopted
  <2>2. \A t \in Processes : pc'[t] = "create" => pc[t] = "create" /\ call'[t] = call[t]
    BY <1>15 DEF WriteAdopted
  <2>3. proposal.generation \in Nat /\ proposal'.generation \in Nat
    BY <2>1 DEF FileTypes, Proposals
  <2>4. "proposal" \notin strayed' =>
          "proposal" \notin strayed /\ proposal.generation <= proposal'.generation
    BY <2>1, <2>3 DEF Note
  <2>5. \A g \in created : g \in Nat
    BY DEF HistoryTypes, Generations
  <2>6. \A t \in Processes : call[t].generation \in Nat
    BY DEF Calls
  <2> QED BY <2>1, <2>2, <2>3, <2>4, <2>5, <2>6 DEF ProposalInv
<1>16. ASSUME NEW s \in Sessions, MarkCompleted(s) PROVE ProposalInv'
  <2>1. UNCHANGED <<proposal, created>>
    BY <1>16 DEF MarkCompleted
  <2>2. /\ "proposal" \in strayed => "proposal" \in strayed'
        /\ "proposal" \in repeated' => "proposal" \in repeated
    BY <1>16 DEF MarkCompleted, Note
  <2>3. \A t \in Processes : pc'[t] = "create" => pc[t] = "create" /\ call'[t] = call[t]
    BY <1>16 DEF MarkCompleted
  <2> QED BY <2>1, <2>2, <2>3 DEF ProposalInv
<1>17. ASSUME NEW s \in Sessions, MarkFailed(s) PROVE ProposalInv'
  <2>1. UNCHANGED <<proposal, created>>
    BY <1>17 DEF MarkFailed
  <2>2. /\ "proposal" \in strayed => "proposal" \in strayed'
        /\ "proposal" \in repeated' => "proposal" \in repeated
    BY <1>17 DEF MarkFailed, Note
  <2>3. \A t \in Processes : pc'[t] = "create" => pc[t] = "create" /\ call'[t] = call[t]
    BY <1>17 DEF MarkFailed
  <2> QED BY <2>1, <2>2, <2>3 DEF ProposalInv
<1>18. ASSUME NEW s \in Sessions, WriteFinished(s) PROVE ProposalInv'
  <2>1. /\ proposal' = copy[s] /\ UNCHANGED <<created, repeated>>
        /\ strayed' = Note(strayed, "proposal", proposal.generation > copy[s].generation)
    BY <1>18 DEF WriteFinished
  <2>2. \A t \in Processes : pc'[t] = "create" => pc[t] = "create" /\ call'[t] = call[t]
    BY <1>18 DEF WriteFinished
  <2>3. proposal.generation \in Nat /\ proposal'.generation \in Nat
    BY <2>1 DEF FileTypes, Proposals
  <2>4. "proposal" \notin strayed' =>
          "proposal" \notin strayed /\ proposal.generation <= proposal'.generation
    BY <2>1, <2>3 DEF Note
  <2>5. \A g \in created : g \in Nat
    BY DEF HistoryTypes, Generations
  <2>6. \A t \in Processes : call[t].generation \in Nat
    BY DEF Calls
  <2> QED BY <2>1, <2>2, <2>3, <2>4, <2>5, <2>6 DEF ProposalInv
<1>19. ASSUME NEW s \in Sessions, Finish(s) PROVE ProposalInv'
  <2>1. UNCHANGED <<proposal, created>>
    BY <1>19 DEF Finish
  <2>2. /\ "proposal" \in strayed => "proposal" \in strayed'
        /\ "proposal" \in repeated' => "proposal" \in repeated
    BY <1>19 DEF Finish, Note
  <2>3. \A t \in Processes : pc'[t] = "create" => pc[t] = "create" /\ call'[t] = call[t]
    BY <1>19 DEF Finish
  <2> QED BY <2>1, <2>2, <2>3 DEF ProposalInv
<1>20. ASSUME Prepare PROVE ProposalInv'
  <2>1. UNCHANGED <<proposal, created>>
    BY <1>20 DEF Prepare
  <2>2. /\ "proposal" \in strayed => "proposal" \in strayed'
        /\ "proposal" \in repeated' => "proposal" \in repeated
    BY <1>20 DEF Prepare, Note
  <2>3. \A t \in Processes : pc'[t] = "create" => pc[t] = "create" /\ call'[t] = call[t]
    BY <1>20 DEF Prepare
  <2> QED BY <2>1, <2>2, <2>3 DEF ProposalInv
<1>21. ASSUME ReadDecision PROVE ProposalInv'
  <2>1. UNCHANGED <<proposal, created>>
    BY <1>21 DEF ReadDecision
  <2>2. /\ "proposal" \in strayed => "proposal" \in strayed'
        /\ "proposal" \in repeated' => "proposal" \in repeated
    BY <1>21 DEF ReadDecision, Note
  <2>3. \A t \in Processes : pc'[t] = "create" => pc[t] = "create" /\ call'[t] = call[t]
    BY <1>21 DEF ReadDecision
  <2> QED BY <2>1, <2>2, <2>3 DEF ProposalInv
<1>22. ASSUME WriteDecision PROVE ProposalInv'
  <2>1. /\ proposal' = copy[Host] /\ UNCHANGED <<created, repeated>>
        /\ strayed' = Note(strayed, "proposal", proposal.generation > copy[Host].generation)
    BY <1>22 DEF WriteDecision
  <2>2. \A t \in Processes : pc'[t] = "create" => pc[t] = "create" /\ call'[t] = call[t]
    BY <1>22 DEF WriteDecision
  <2>3. proposal.generation \in Nat /\ proposal'.generation \in Nat
    BY <2>1 DEF FileTypes, Proposals
  <2>4. "proposal" \notin strayed' =>
          "proposal" \notin strayed /\ proposal.generation <= proposal'.generation
    BY <2>1, <2>3 DEF Note
  <2>5. \A g \in created : g \in Nat
    BY DEF HistoryTypes, Generations
  <2>6. \A t \in Processes : call[t].generation \in Nat
    BY DEF Calls
  <2> QED BY <2>1, <2>2, <2>3, <2>4, <2>5, <2>6 DEF ProposalInv
<1>23. ASSUME OwnerMoves PROVE ProposalInv'
  <2>1. UNCHANGED <<proposal, created>>
    BY <1>23 DEF OwnerMoves
  <2>2. /\ "proposal" \in strayed => "proposal" \in strayed'
        /\ "proposal" \in repeated' => "proposal" \in repeated
    BY <1>23 DEF OwnerMoves, Note
  <2>3. \A t \in Processes : pc'[t] = "create" => pc[t] = "create" /\ call'[t] = call[t]
    BY <1>23 DEF OwnerMoves
  <2> QED BY <2>1, <2>2, <2>3 DEF ProposalInv
<1>24. ASSUME NEW g \in Generations, RightGrowsOld(g) PROVE ProposalInv'
  <2>1. UNCHANGED <<proposal, created>>
    BY <1>24 DEF RightGrowsOld
  <2>2. /\ "proposal" \in strayed => "proposal" \in strayed'
        /\ "proposal" \in repeated' => "proposal" \in repeated
    BY <1>24 DEF RightGrowsOld, Note
  <2>3. \A t \in Processes : pc'[t] = "create" => pc[t] = "create" /\ call'[t] = call[t]
    BY <1>24 DEF RightGrowsOld
  <2> QED BY <2>1, <2>2, <2>3 DEF ProposalInv
<1>25. CASE UNCHANGED successionVars
  <2>1. UNCHANGED <<proposal, created>>
    BY <1>25 DEF successionVars
  <2>2. /\ "proposal" \in strayed => "proposal" \in strayed'
        /\ "proposal" \in repeated' => "proposal" \in repeated
    BY <1>25 DEF successionVars, Note
  <2>3. \A t \in Processes : pc'[t] = "create" => pc[t] = "create" /\ call'[t] = call[t]
    BY <1>25 DEF successionVars
  <2> QED BY <2>1, <2>2, <2>3 DEF ProposalInv
<1> QED BY <1>1, <1>2, <1>3, <1>4, <1>5, <1>6, <1>7, <1>8, <1>9, <1>10, <1>11, <1>12, <1>13,
      <1>14, <1>15, <1>16, <1>17, <1>18, <1>19, <1>20, <1>21, <1>22, <1>23, <1>24,
      <1>25 DEF SuccessionNext, ProposeStep, HandOverStep

-----------------------------------------------------------------------------
(* The invariant and what follows from it *)

SuccessionInv == Types /\ CallInv /\ AttemptInv /\ RightInv /\ ProposalInv

LEMMA InvInit ==
  ASSUME SuccessionInit
  PROVE  SuccessionInv
<1> USE Members, SuccessionAssumption DEF SuccessionInit, SuccessionAssumption
<1>1. FileTypes
  BY DEF FileTypes, Generations
<1>2. CallTypes
  BY DEF CallTypes, Labels
<1>3. HistoryTypes
  BY DEF HistoryTypes
<1>4. \A p \in Processes : ~Busy(p) /\ ~Holding(p) /\ pc[p] = "idle"
  BY DEF Busy, Holding
<1>5. CallInv
  BY <1>4 DEF CallInv
<1>6. AttemptInv
  BY <1>4 DEF AttemptInv
<1>7. RightInv
  BY <1>4 DEF RightInv
<1>8. ProposalInv
  BY <1>4 DEF ProposalInv
<1> QED BY <1>1, <1>2, <1>3, <1>5, <1>6, <1>7, <1>8 DEF SuccessionInv, Types

LEMMA InvHolds == SuccessionSpec => []SuccessionInv
<1>1. SuccessionInit => SuccessionInv
  BY InvInit
<1>2. SuccessionInv /\ [SuccessionNext]_successionVars => SuccessionInv'
  <2> SUFFICES ASSUME SuccessionInv, [SuccessionNext]_successionVars
               PROVE  SuccessionInv'
    OBVIOUS
  <2>1. FileTypes' /\ HistoryTypes' /\ CallTypes'
    BY FileStep, HistoryStep, CopyStep, CallStep DEF SuccessionInv, CallTypes
  <2>2. CallInv' /\ AttemptInv' /\ RightInv' /\ ProposalInv'
    BY CallInvStep, AttemptStep, RightStep, ProposalStep DEF SuccessionInv
  <2> QED BY <2>1, <2>2 DEF SuccessionInv, Types
<1> QED BY <1>1, <1>2, PTL DEF SuccessionSpec

\* The types of the registry, the proposal, its rights, the marker and the calls.
THEOREM SuccessionTypeOK == SuccessionSpec => []TypeOK
<1>1. SuccessionInv => TypeOK
  BY DEF SuccessionInv, Types, FileTypes, CallTypes, HistoryTypes, TypeOK, Calls
<1> QED BY <1>1, InvHolds, PTL

\* maybePropose and maybeAutoSucceed: nothing is done a second time in a generation,
\* but for what was lost to a robbed right or to an older generation's write.
THEOREM SuccessionOncePerGeneration == SuccessionSpec => []OncePerGeneration
<1>1. SuccessionInv => OncePerGeneration
  BY DEF SuccessionInv, Types, HistoryTypes, AttemptInv, ProposalInv, OncePerGeneration
<1> QED BY <1>1, InvHolds, PTL
=============================================================================
