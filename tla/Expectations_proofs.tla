------------------------- MODULE Expectations_proofs -------------------------
(***************************************************************************)
(* What a request that waits for a reply is promised, for every set of     *)
(* processes, replies and deadlines and every bound: its types, that it    *)
(* has one end, that its journal misleads nobody, and that at rest its     *)
(* files agree.                                                            *)
(***************************************************************************)
EXTENDS Expectations, FiniteSetTheorems, TLAPS

USE DEF Goto, Begin, Return, Continue, Lose, Mishap, Uncounted, files, calls

-----------------------------------------------------------------------------
(* Calls, replies, revisions and types *)

\* The steps after which a call has read or written the open record.
Beyond == Labels \ {"idle", "declare", "readClosed", "readOpen"}

\* What calls are at each step.
CallInv ==
  \A p \in Processes :
    /\ pc[p] = "idle" <=> call[p] = "none"
    /\ pc[p] = "declare" => call[p] = "declare"
    /\ pc[p] \in {"readClosed", "readOpen"} =>
         call[p] \in {"match", "rematch", "cancel", "update"}
    /\ pc[p] \in {"create", "fill", "unlink"} => call[p] \in {"match", "cancel"}
    /\ pc[p] \in {"recheck", "write", "recheckAfter", "unlinkZombie"} => call[p] = "update"
    /\ pc[p] \in {"claim", "append"} => call[p] \in {"declare", "match", "update", "list"}
    /\ pc[p] \in Beyond => seen[p] \in Records

\* A call has at most one reply in hand; one that closes the request has one that fits.
ReplyInv ==
  \A p \in Processes :
    /\ \A r \in Replies : replies[r] = p =>
         /\ call[p] \in {"match", "rematch"}
         /\ \A q \in Replies : replies[q] = p => q = r
    /\ call[p] = "match" /\ pc[p] \in Beyond => Fits(p)

\* The updates that have not read the record yet.
Unread == {p \in Processes : call[p] = "update" /\ pc[p] \in {"readClosed", "readOpen"}}

\* Every revision was paid for by an update, and there is one left for each that
\* is still to read the record.
RevInv ==
  /\ IsFiniteSet(Unread)
  /\ Cardinality(Unread) <= edits
  /\ open # None => open.rev + Cardinality(Unread) <= edits
  /\ \A p \in Processes : seen[p] # None => seen[p].rev + Cardinality(Unread) <= edits

\* A record is not the absence of one.
LEMMA NoneIsNoRecord == None \notin Records
  BY ExpectationAssumption DEF ExpectationAssumption, Records

\* What a call claims and appends.
LEMMA KeyTypes ==
  ASSUME TypeOK, CallInv, NEW p \in Processes, pc[p] \in {"claim", "append"}
  PROVE  /\ Key(p) \in Keys /\ Line(p) \in Lines
         /\ Line(p).event = Key(p).event /\ Line(p).rev = Key(p).rev
         /\ Line(p).deadline = seen[p].deadline
         /\ call[p] = "match" <=> Key(p).event = "arrived"
         /\ call[p] = "list" <=> Key(p).event = "timeout"
         /\ Key(p).rev = IF call[p] = "match" THEN 0 ELSE seen[p].rev
<1>1. seen[p] \in Records /\ call[p] \in {"declare", "match", "update", "list"} /\ MaxEdits \in Nat
  BY ExpectationAssumption DEF CallInv, Beyond, Labels, ExpectationAssumption
<1>2. CASE call[p] = "match"
  BY <1>1, <1>2 DEF Key, Line, Event, Keys, Lines, Records
<1>3. CASE call[p] = "list"
  BY <1>1, <1>3 DEF Key, Line, Event, Keys, Lines, Records
<1>4. CASE call[p] \in {"declare", "update"}
  BY <1>1, <1>4 DEF Key, Line, Event, Keys, Lines, Records
<1> QED BY <1>1, <1>2, <1>3, <1>4

\* An update that is to read the record has a revision left.
LEMMA RevisionLeft ==
  ASSUME TypeOK, RevInv, NEW p \in Unread
  PROVE  /\ IsFiniteSet(Unread) /\ Cardinality(Unread) \in Nat \ {0}
         /\ open # None => open.rev + 1 \in 0 .. MaxEdits
<1>1. IsFiniteSet(Unread) /\ Cardinality(Unread) \in Nat /\ Cardinality(Unread) # 0
  BY FS_CardinalityType, FS_EmptySet DEF RevInv
<1>2. open # None => open.rev \in Nat
  BY DEF TypeOK, Records
<1> QED BY <1>1, <1>2, ExpectationAssumption DEF RevInv, TypeOK, ExpectationAssumption

\* What reading the open record leaves in seen.
LEMMA ReadOpenSees ==
  ASSUME TypeOK, CallInv, RevInv, NEW p \in Processes, ReadOpen(p), pc'[p] # "idle"
  PROVE  /\ open \in Records /\ call' = call /\ replies' = replies
         /\ \/ pc' = [pc EXCEPT ![p] = "create"] /\ call[p] \in {"match", "cancel"}
               /\ (call[p] = "match" => Fits(p)) /\ seen' = [seen EXCEPT ![p] = open]
            \/ pc' = [pc EXCEPT ![p] = "recheck"] /\ call[p] = "update"
               /\ \E rec \in Records : rec.rev = open.rev + 1 /\ seen' = [seen EXCEPT ![p] = rec]
<1>1. open # None /\ open \in Records /\ call' = call /\ replies' = replies
  BY DEF ReadOpen, TypeOK
<1>2. CASE call[p] # "update"
  BY <1>1, <1>2 DEF ReadOpen, CallInv, TypeOK
<1>3. CASE call[p] = "update"
  <2>1. p \in Unread
    BY <1>3 DEF Unread, ReadOpen
  <2>2. open.rev + 1 \in 0 .. MaxEdits
    BY <1>1, <2>1, RevisionLeft
  <2>3. PICK d \in Deadlines : seen' = [seen EXCEPT ![p] = [rev |-> open.rev + 1, deadline |-> d]]
    BY <1>1, <1>3 DEF ReadOpen, Revised, TypeOK
  <2>4. [rev |-> open.rev + 1, deadline |-> d] \in Records
    BY <2>2 DEF Records
  <2> QED BY <1>1, <1>3, <2>3, <2>4 DEF ReadOpen, TypeOK
<1> QED BY <1>2, <1>3

\* Every step keeps the types.
LEMMA TypeStep ==
  ASSUME TypeOK, CallInv, RevInv, [ExpectationNext]_expectationVars
  PROVE  TypeOK'
<1> USE ExpectationAssumption DEF TypeOK, Labels, Final, ExpectationAssumption
<1>1. ASSUME NEW p \in Processes, Declare(p) PROVE TypeOK'
  BY <1>1 DEF Declare, CallInv, Beyond, Records
<1>2. ASSUME NEW p \in Processes, ReadClosed(p) PROVE TypeOK'
  BY <1>2 DEF ReadClosed, CallInv, Beyond, Records
<1>3. ASSUME NEW p \in Processes, ReadOpen(p) PROVE TypeOK'
  <2>1. CASE pc'[p] = "idle"
    BY <1>3, <2>1 DEF ReadOpen, CallInv
  <2>2. CASE pc'[p] # "idle"
    <3>1. open \in Records /\ UNCHANGED <<files, winners, raced, now, edits, mishaps>>
      BY <1>3, <2>2, ReadOpenSees DEF ReadOpen
    <3> QED BY <3>1, <1>3, <2>2, ReadOpenSees
  <2> QED BY <2>1, <2>2
<1>4. ASSUME NEW p \in Processes, CreateClosed(p) PROVE TypeOK'
  BY <1>4 DEF CreateClosed, CallInv, Beyond, Records
<1>5. ASSUME NEW p \in Processes, FillClosed(p) PROVE TypeOK'
  BY <1>5 DEF FillClosed, CallInv, Beyond, Records
<1>6. ASSUME NEW p \in Processes, UnlinkOpen(p) PROVE TypeOK'
  BY <1>6 DEF UnlinkOpen, CallInv, Beyond, Records
<1>7. ASSUME NEW p \in Processes, Recheck(p) PROVE TypeOK'
  BY <1>7 DEF Recheck, CallInv, Beyond, Records
<1>8. ASSUME NEW p \in Processes, WriteOpen(p) PROVE TypeOK'
  <2>1. seen[p] \in Records
    BY <1>8 DEF WriteOpen, CallInv, Beyond
  <2>2. raced' \in BOOLEAN
    BY <1>8 DEF WriteOpen
  <2> QED BY <1>8, <2>1, <2>2 DEF WriteOpen
<1>9. ASSUME NEW p \in Processes, RecheckAfter(p) PROVE TypeOK'
  BY <1>9 DEF RecheckAfter, CallInv, Beyond, Records
<1>10. ASSUME NEW p \in Processes, UnlinkZombie(p) PROVE TypeOK'
  BY <1>10 DEF UnlinkZombie, CallInv, Beyond, Records
<1>11. ASSUME NEW p \in Processes, ClaimLine(p) PROVE TypeOK'
  BY <1>11, KeyTypes DEF ClaimLine
<1>12. ASSUME NEW p \in Processes, AppendLine(p) PROVE TypeOK'
  BY <1>12, KeyTypes DEF AppendLine
<1>13. ASSUME NEW p \in Processes, List(p) PROVE TypeOK'
  BY <1>13 DEF List, Records, Overdue
<1>14. ASSUME NEW p \in Processes, NEW r \in Replies, BeginMatch(p, r) PROVE TypeOK'
  BY <1>14 DEF BeginMatch, CallInv, Beyond, Records
<1>15. ASSUME NEW p \in Processes, BeginCancel(p) PROVE TypeOK'
  BY <1>15 DEF BeginCancel, CallInv, Beyond, Records
<1>16. ASSUME NEW p \in Processes, BeginUpdate(p) PROVE TypeOK'
  BY <1>16 DEF BeginUpdate, CallInv, Beyond, Records
<1>17. ASSUME NEW p \in Processes, Crash(p) PROVE TypeOK'
  BY <1>17 DEF Crash, CallInv, Beyond, Records
<1>18. ASSUME TimePasses PROVE TypeOK'
  BY <1>18 DEF TimePasses, CallInv, Beyond, Records
<1>19. CASE UNCHANGED expectationVars
  BY <1>19 DEF expectationVars
<1> QED BY <1>1, <1>2, <1>3, <1>4, <1>5, <1>6, <1>7, <1>8, <1>9, <1>10, <1>11, <1>12, <1>13,
      <1>14, <1>15, <1>16, <1>17, <1>18, <1>19 DEF ExpectationNext, CallStep, Consume

\* Every step keeps what calls are.
LEMMA CallsStep ==
  ASSUME TypeOK, TypeOK', CallInv, RevInv, [ExpectationNext]_expectationVars
  PROVE  CallInv'
<1> USE NoneIsNoRecord DEF TypeOK, CallInv, Beyond, Labels
<1>1. ASSUME NEW p \in Processes, Declare(p) PROVE CallInv'
  <2>1. \A d \in Deadlines : [rev |-> 0, deadline |-> d] \in Records
    BY ExpectationAssumption DEF Records, ExpectationAssumption
  <2>2. pc[p] = "declare" /\ call[p] = "declare"
    BY <1>1 DEF Declare
  <2>3. CASE pc'[p] = "claim"
    <3>1. /\ pc' = [pc EXCEPT ![p] = "claim"] /\ call' = call
          /\ \E d \in Deadlines : seen' = [seen EXCEPT ![p] = [rev |-> 0, deadline |-> d]]
      BY <1>1, <2>3 DEF Declare
    <3> QED BY <2>1, <2>2, <3>1
  <2>4. CASE pc'[p] # "claim"
    <3>1. /\ pc' = [pc EXCEPT ![p] = "idle"] /\ call' = [call EXCEPT ![p] = "none"]
          /\ seen' = [seen EXCEPT ![p] = None]
      BY <1>1, <2>4 DEF Declare
    <3> QED BY <3>1
  <2> QED BY <2>3, <2>4
<1>2. ASSUME NEW p \in Processes, ReadClosed(p) PROVE CallInv'
  BY <1>2 DEF ReadClosed
<1>3. ASSUME NEW p \in Processes, ReadOpen(p) PROVE CallInv'
  <2>1. CASE pc'[p] = "idle"
    BY <1>3, <2>1 DEF ReadOpen
  <2>2. CASE pc'[p] # "idle"
    <3>1. open \in Records /\ UNCHANGED <<files, winners, raced, now, edits, mishaps>>
      BY <1>3, <2>2, ReadOpenSees DEF ReadOpen
    <3> QED BY <3>1, <1>3, <2>2, ReadOpenSees
  <2> QED BY <2>1, <2>2
<1>4. ASSUME NEW p \in Processes, CreateClosed(p) PROVE CallInv'
  BY <1>4 DEF CreateClosed
<1>5. ASSUME NEW p \in Processes, FillClosed(p) PROVE CallInv'
  BY <1>5 DEF FillClosed
<1>6. ASSUME NEW p \in Processes, UnlinkOpen(p) PROVE CallInv'
  BY <1>6 DEF UnlinkOpen
<1>7. ASSUME NEW p \in Processes, Recheck(p) PROVE CallInv'
  BY <1>7 DEF Recheck
<1>8. ASSUME NEW p \in Processes, WriteOpen(p) PROVE CallInv'
  BY <1>8 DEF WriteOpen
<1>9. ASSUME NEW p \in Processes, RecheckAfter(p) PROVE CallInv'
  BY <1>9 DEF RecheckAfter
<1>10. ASSUME NEW p \in Processes, UnlinkZombie(p) PROVE CallInv'
  BY <1>10 DEF UnlinkZombie
<1>11. ASSUME NEW p \in Processes, ClaimLine(p) PROVE CallInv'
  BY <1>11 DEF ClaimLine
<1>12. ASSUME NEW p \in Processes, AppendLine(p) PROVE CallInv'
  BY <1>12 DEF AppendLine
<1>13. ASSUME NEW p \in Processes, List(p) PROVE CallInv'
  BY <1>13 DEF List, Overdue
<1>14. ASSUME NEW p \in Processes, NEW r \in Replies, BeginMatch(p, r) PROVE CallInv'
  BY <1>14 DEF BeginMatch
<1>15. ASSUME NEW p \in Processes, BeginCancel(p) PROVE CallInv'
  BY <1>15 DEF BeginCancel
<1>16. ASSUME NEW p \in Processes, BeginUpdate(p) PROVE CallInv'
  BY <1>16 DEF BeginUpdate
<1>17. ASSUME NEW p \in Processes, Crash(p) PROVE CallInv'
  BY <1>17 DEF Crash
<1>18. ASSUME TimePasses PROVE CallInv'
  BY <1>18 DEF TimePasses
<1>19. CASE UNCHANGED expectationVars
  BY <1>19 DEF expectationVars
<1> QED BY <1>1, <1>2, <1>3, <1>4, <1>5, <1>6, <1>7, <1>8, <1>9, <1>10, <1>11, <1>12, <1>13,
      <1>14, <1>15, <1>16, <1>17, <1>18, <1>19 DEF ExpectationNext, CallStep, Consume

\* Every step keeps what replies are in hand.
LEMMA RepliesStep ==
  ASSUME TypeOK, TypeOK', CallInv, ReplyInv, [ExpectationNext]_expectationVars
  PROVE  ReplyInv'
<1> USE ExpectationAssumption DEF TypeOK, CallInv, ReplyInv, Beyond, Labels, Fits,
      ExpectationAssumption
<1>1. ASSUME NEW p \in Processes, Declare(p) PROVE ReplyInv'
  BY <1>1 DEF Declare
<1>2. ASSUME NEW p \in Processes, ReadClosed(p) PROVE ReplyInv'
  BY <1>2 DEF ReadClosed
<1>3. ASSUME NEW p \in Processes, ReadOpen(p) PROVE ReplyInv'
  BY <1>3 DEF ReadOpen, Revised
<1>4. ASSUME NEW p \in Processes, CreateClosed(p) PROVE ReplyInv'
  BY <1>4 DEF CreateClosed
<1>5. ASSUME NEW p \in Processes, FillClosed(p) PROVE ReplyInv'
  BY <1>5 DEF FillClosed
<1>6. ASSUME NEW p \in Processes, UnlinkOpen(p) PROVE ReplyInv'
  BY <1>6 DEF UnlinkOpen
<1>7. ASSUME NEW p \in Processes, Recheck(p) PROVE ReplyInv'
  BY <1>7 DEF Recheck
<1>8. ASSUME NEW p \in Processes, WriteOpen(p) PROVE ReplyInv'
  BY <1>8 DEF WriteOpen
<1>9. ASSUME NEW p \in Processes, RecheckAfter(p) PROVE ReplyInv'
  BY <1>9 DEF RecheckAfter
<1>10. ASSUME NEW p \in Processes, UnlinkZombie(p) PROVE ReplyInv'
  BY <1>10 DEF UnlinkZombie
<1>11. ASSUME NEW p \in Processes, ClaimLine(p) PROVE ReplyInv'
  BY <1>11 DEF ClaimLine
<1>12. ASSUME NEW p \in Processes, AppendLine(p) PROVE ReplyInv'
  BY <1>12 DEF AppendLine
<1>13. ASSUME NEW p \in Processes, List(p) PROVE ReplyInv'
  BY <1>13 DEF List, Overdue
<1>14. ASSUME NEW p \in Processes, NEW r \in Replies, BeginMatch(p, r) PROVE ReplyInv'
  BY <1>14 DEF BeginMatch
<1>15. ASSUME NEW p \in Processes, BeginCancel(p) PROVE ReplyInv'
  BY <1>15 DEF BeginCancel
<1>16. ASSUME NEW p \in Processes, BeginUpdate(p) PROVE ReplyInv'
  BY <1>16 DEF BeginUpdate
<1>17. ASSUME NEW p \in Processes, Crash(p) PROVE ReplyInv'
  BY <1>17 DEF Crash
<1>18. ASSUME TimePasses PROVE ReplyInv'
  BY <1>18 DEF TimePasses
<1>19. CASE UNCHANGED expectationVars
  BY <1>19 DEF expectationVars
<1> QED BY <1>1, <1>2, <1>3, <1>4, <1>5, <1>6, <1>7, <1>8, <1>9, <1>10, <1>11, <1>12, <1>13,
      <1>14, <1>15, <1>16, <1>17, <1>18, <1>19 DEF ExpectationNext, CallStep, Consume

\* One process takes a step that starts no update.
LEMMA UnreadStep ==
  ASSUME TypeOK, RevInv, NEW p \in Processes,
         \A q \in Processes \ {p} : pc'[q] = pc[q] /\ call'[q] = call[q],
         p \in Unread' => p \in Unread
  PROVE  /\ IsFiniteSet(Unread') /\ Cardinality(Unread') \in Nat
         /\ Cardinality(Unread) \in Nat /\ Cardinality(Unread') <= Cardinality(Unread)
         /\ p \in Unread /\ p \notin Unread' => Cardinality(Unread') = Cardinality(Unread) - 1
<1>1. IsFiniteSet(Unread) /\ Cardinality(Unread) \in Nat
  BY FS_CardinalityType DEF RevInv
<1>2. CASE p \in Unread /\ p \notin Unread'
  <2>1. Unread' = Unread \ {p}
    BY <1>2 DEF Unread
  <2>2. /\ IsFiniteSet(Unread \ {p})
        /\ Cardinality(Unread \ {p}) = Cardinality(Unread) - 1
    BY <1>1, <1>2, FS_RemoveElement
  <2>3. Cardinality(Unread \ {p}) \in Nat
    BY <2>2, FS_CardinalityType
  <2> QED BY <1>1, <1>2, <2>1, <2>2, <2>3
<1>3. CASE ~(p \in Unread /\ p \notin Unread')
  <2>1. Unread' = Unread
    BY <1>3 DEF Unread
  <2> QED BY <1>1, <1>3, <2>1
<1> QED BY <1>2, <1>3

\* Every step keeps the account of revisions.
LEMMA RevStep ==
  ASSUME TypeOK, TypeOK', CallInv, RevInv, [ExpectationNext]_expectationVars
  PROVE  RevInv'
<1> USE NoneIsNoRecord DEF TypeOK, Records, Labels
<1>1. ASSUME NEW p \in Processes, Declare(p) PROVE RevInv'
  <2>1. p \notin Unread /\ p \notin Unread' /\ edits' = edits
    BY <1>1 DEF Declare, Unread, CallInv
  <2>2. \A q \in Processes \ {p} : pc'[q] = pc[q] /\ call'[q] = call[q] /\ seen'[q] = seen[q]
    BY <1>1 DEF Declare
  <2>3. /\ IsFiniteSet(Unread') /\ Cardinality(Unread') \in Nat
        /\ Cardinality(Unread) \in Nat /\ Cardinality(Unread') <= Cardinality(Unread)
    BY <2>1, <2>2, UnreadStep
  <2>4. \/ open' = open /\ seen'[p] = None
        \/ open'.rev = 0 /\ seen'[p] = open'
    BY <1>1 DEF Declare
  <2> QED BY <2>1, <2>2, <2>3, <2>4 DEF RevInv
<1>2. ASSUME NEW p \in Processes, ReadClosed(p) PROVE RevInv'
  <2>1. /\ \A q \in Processes \ {p} : pc'[q] = pc[q] /\ call'[q] = call[q]
        /\ p \in Unread' => p \in Unread
    BY <1>2 DEF ReadClosed, Unread
  <2>2. /\ IsFiniteSet(Unread') /\ Cardinality(Unread') \in Nat
        /\ Cardinality(Unread) \in Nat /\ Cardinality(Unread') <= Cardinality(Unread)
    BY <2>1, UnreadStep
  <2>3. /\ edits' = edits /\ open' \in {open, None}
        /\ \A q \in Processes : seen'[q] \in {seen[q], open, None}
    BY <1>2 DEF ReadClosed
  <2> QED BY <2>2, <2>3 DEF RevInv
<1>3. ASSUME NEW p \in Processes, ReadOpen(p) PROVE RevInv'
  <2>0. /\ \A q \in Processes \ {p} : pc'[q] = pc[q] /\ call'[q] = call[q]
        /\ p \in Unread' => p \in Unread
    BY <1>3 DEF ReadOpen, Unread
  <2>1. /\ IsFiniteSet(Unread') /\ Cardinality(Unread') \in Nat
        /\ Cardinality(Unread) \in Nat /\ Cardinality(Unread') <= Cardinality(Unread)
        /\ p \in Unread /\ p \notin Unread' => Cardinality(Unread') = Cardinality(Unread) - 1
    BY <2>0, UnreadStep
  <2>2. edits' = edits /\ open' = open
    BY <1>3 DEF ReadOpen
  <2>3. CASE pc'[p] = "idle" \/ call[p] # "update"
    <3>1. \A q \in Processes : seen'[q] \in {seen[q], open, None}
      BY <1>3, <2>3 DEF ReadOpen
    <3> QED BY <2>1, <2>2, <3>1 DEF RevInv
  <2>4. CASE pc'[p] # "idle" /\ call[p] = "update"
    <3>1. /\ open \in Records
          /\ \E rec \in Records : rec.rev = open.rev + 1 /\ seen' = [seen EXCEPT ![p] = rec]
          /\ pc' = [pc EXCEPT ![p] = "recheck"]
      BY <1>3, <2>4, ReadOpenSees
    <3>2. p \in Unread /\ p \notin Unread'
      BY <1>3, <2>4, <3>1 DEF ReadOpen, Unread
    <3> QED BY <2>1, <2>2, <3>1, <3>2 DEF RevInv
  <2> QED BY <2>3, <2>4
<1>4. ASSUME NEW p \in Processes, CreateClosed(p) PROVE RevInv'
  <2>1. /\ \A q \in Processes \ {p} : pc'[q] = pc[q] /\ call'[q] = call[q]
        /\ p \in Unread' => p \in Unread
    BY <1>4 DEF CreateClosed, Unread
  <2>2. /\ IsFiniteSet(Unread') /\ Cardinality(Unread') \in Nat
        /\ Cardinality(Unread) \in Nat /\ Cardinality(Unread') <= Cardinality(Unread)
    BY <2>1, UnreadStep
  <2>3. /\ edits' = edits /\ open' \in {open, None}
        /\ \A q \in Processes : seen'[q] \in {seen[q], open, None}
    BY <1>4 DEF CreateClosed
  <2> QED BY <2>2, <2>3 DEF RevInv
<1>5. ASSUME NEW p \in Processes, FillClosed(p) PROVE RevInv'
  <2>1. /\ \A q \in Processes \ {p} : pc'[q] = pc[q] /\ call'[q] = call[q]
        /\ p \in Unread' => p \in Unread
    BY <1>5 DEF FillClosed, Unread
  <2>2. /\ IsFiniteSet(Unread') /\ Cardinality(Unread') \in Nat
        /\ Cardinality(Unread) \in Nat /\ Cardinality(Unread') <= Cardinality(Unread)
    BY <2>1, UnreadStep
  <2>3. /\ edits' = edits /\ open' \in {open, None}
        /\ \A q \in Processes : seen'[q] \in {seen[q], open, None}
    BY <1>5 DEF FillClosed
  <2> QED BY <2>2, <2>3 DEF RevInv
<1>6. ASSUME NEW p \in Processes, UnlinkOpen(p) PROVE RevInv'
  <2>1. /\ \A q \in Processes \ {p} : pc'[q] = pc[q] /\ call'[q] = call[q]
        /\ p \in Unread' => p \in Unread
    BY <1>6 DEF UnlinkOpen, Unread
  <2>2. /\ IsFiniteSet(Unread') /\ Cardinality(Unread') \in Nat
        /\ Cardinality(Unread) \in Nat /\ Cardinality(Unread') <= Cardinality(Unread)
    BY <2>1, UnreadStep
  <2>3. /\ edits' = edits /\ open' \in {open, None}
        /\ \A q \in Processes : seen'[q] \in {seen[q], open, None}
    BY <1>6 DEF UnlinkOpen
  <2> QED BY <2>2, <2>3 DEF RevInv
<1>7. ASSUME NEW p \in Processes, Recheck(p) PROVE RevInv'
  <2>1. /\ \A q \in Processes \ {p} : pc'[q] = pc[q] /\ call'[q] = call[q]
        /\ p \in Unread' => p \in Unread
    BY <1>7 DEF Recheck, Unread
  <2>2. /\ IsFiniteSet(Unread') /\ Cardinality(Unread') \in Nat
        /\ Cardinality(Unread) \in Nat /\ Cardinality(Unread') <= Cardinality(Unread)
    BY <2>1, UnreadStep
  <2>3. /\ edits' = edits /\ open' \in {open, None}
        /\ \A q \in Processes : seen'[q] \in {seen[q], open, None}
    BY <1>7 DEF Recheck
  <2> QED BY <2>2, <2>3 DEF RevInv
<1>8. ASSUME NEW p \in Processes, WriteOpen(p) PROVE RevInv'
  <2>1. /\ \A q \in Processes \ {p} : pc'[q] = pc[q] /\ call'[q] = call[q]
        /\ p \in Unread' => p \in Unread
    BY <1>8 DEF WriteOpen, Unread
  <2>2. /\ IsFiniteSet(Unread') /\ Cardinality(Unread') \in Nat
        /\ Cardinality(Unread) \in Nat /\ Cardinality(Unread') <= Cardinality(Unread)
    BY <2>1, UnreadStep
  <2>3. /\ edits' = edits /\ open' \in {open, None, seen[p]}
        /\ \A q \in Processes : seen'[q] \in {seen[q], open, None}
    BY <1>8 DEF WriteOpen
  <2> QED BY <2>2, <2>3 DEF RevInv
<1>9. ASSUME NEW p \in Processes, RecheckAfter(p) PROVE RevInv'
  <2>1. /\ \A q \in Processes \ {p} : pc'[q] = pc[q] /\ call'[q] = call[q]
        /\ p \in Unread' => p \in Unread
    BY <1>9 DEF RecheckAfter, Unread
  <2>2. /\ IsFiniteSet(Unread') /\ Cardinality(Unread') \in Nat
        /\ Cardinality(Unread) \in Nat /\ Cardinality(Unread') <= Cardinality(Unread)
    BY <2>1, UnreadStep
  <2>3. /\ edits' = edits /\ open' \in {open, None}
        /\ \A q \in Processes : seen'[q] \in {seen[q], open, None}
    BY <1>9 DEF RecheckAfter
  <2> QED BY <2>2, <2>3 DEF RevInv
<1>10. ASSUME NEW p \in Processes, UnlinkZombie(p) PROVE RevInv'
  <2>1. /\ \A q \in Processes \ {p} : pc'[q] = pc[q] /\ call'[q] = call[q]
        /\ p \in Unread' => p \in Unread
    BY <1>10 DEF UnlinkZombie, Unread
  <2>2. /\ IsFiniteSet(Unread') /\ Cardinality(Unread') \in Nat
        /\ Cardinality(Unread) \in Nat /\ Cardinality(Unread') <= Cardinality(Unread)
    BY <2>1, UnreadStep
  <2>3. /\ edits' = edits /\ open' \in {open, None}
        /\ \A q \in Processes : seen'[q] \in {seen[q], open, None}
    BY <1>10 DEF UnlinkZombie
  <2> QED BY <2>2, <2>3 DEF RevInv
<1>11. ASSUME NEW p \in Processes, ClaimLine(p) PROVE RevInv'
  <2>1. /\ \A q \in Processes \ {p} : pc'[q] = pc[q] /\ call'[q] = call[q]
        /\ p \in Unread' => p \in Unread
    BY <1>11 DEF ClaimLine, Unread
  <2>2. /\ IsFiniteSet(Unread') /\ Cardinality(Unread') \in Nat
        /\ Cardinality(Unread) \in Nat /\ Cardinality(Unread') <= Cardinality(Unread)
    BY <2>1, UnreadStep
  <2>3. /\ edits' = edits /\ open' \in {open, None}
        /\ \A q \in Processes : seen'[q] \in {seen[q], open, None}
    BY <1>11 DEF ClaimLine
  <2> QED BY <2>2, <2>3 DEF RevInv
<1>12. ASSUME NEW p \in Processes, AppendLine(p) PROVE RevInv'
  <2>1. /\ \A q \in Processes \ {p} : pc'[q] = pc[q] /\ call'[q] = call[q]
        /\ p \in Unread' => p \in Unread
    BY <1>12 DEF AppendLine, Unread
  <2>2. /\ IsFiniteSet(Unread') /\ Cardinality(Unread') \in Nat
        /\ Cardinality(Unread) \in Nat /\ Cardinality(Unread') <= Cardinality(Unread)
    BY <2>1, UnreadStep
  <2>3. /\ edits' = edits /\ open' \in {open, None}
        /\ \A q \in Processes : seen'[q] \in {seen[q], open, None}
    BY <1>12 DEF AppendLine
  <2> QED BY <2>2, <2>3 DEF RevInv
<1>13. ASSUME NEW p \in Processes, List(p) PROVE RevInv'
  <2>1. /\ \A q \in Processes \ {p} : pc'[q] = pc[q] /\ call'[q] = call[q]
        /\ p \in Unread' => p \in Unread
    BY <1>13 DEF List, Unread
  <2>2. /\ IsFiniteSet(Unread') /\ Cardinality(Unread') \in Nat
        /\ Cardinality(Unread) \in Nat /\ Cardinality(Unread') <= Cardinality(Unread)
    BY <2>1, UnreadStep
  <2>3. /\ edits' = edits /\ open' \in {open, None}
        /\ \A q \in Processes : seen'[q] \in {seen[q], open, None}
    BY <1>13 DEF List
  <2> QED BY <2>2, <2>3 DEF RevInv
<1>14. ASSUME NEW p \in Processes, NEW r \in Replies, BeginMatch(p, r) PROVE RevInv'
  <2>1. /\ \A q \in Processes \ {p} : pc'[q] = pc[q] /\ call'[q] = call[q]
        /\ p \in Unread' => p \in Unread
    BY <1>14 DEF BeginMatch, Unread
  <2>2. /\ IsFiniteSet(Unread') /\ Cardinality(Unread') \in Nat
        /\ Cardinality(Unread) \in Nat /\ Cardinality(Unread') <= Cardinality(Unread)
    BY <2>1, UnreadStep
  <2>3. /\ edits' = edits /\ open' \in {open, None}
        /\ \A q \in Processes : seen'[q] \in {seen[q], open, None}
    BY <1>14 DEF BeginMatch
  <2> QED BY <2>2, <2>3 DEF RevInv
<1>15. ASSUME NEW p \in Processes, BeginCancel(p) PROVE RevInv'
  <2>1. /\ \A q \in Processes \ {p} : pc'[q] = pc[q] /\ call'[q] = call[q]
        /\ p \in Unread' => p \in Unread
    BY <1>15 DEF BeginCancel, Unread
  <2>2. /\ IsFiniteSet(Unread') /\ Cardinality(Unread') \in Nat
        /\ Cardinality(Unread) \in Nat /\ Cardinality(Unread') <= Cardinality(Unread)
    BY <2>1, UnreadStep
  <2>3. /\ edits' = edits + 1 /\ open' \in {open, None}
        /\ \A q \in Processes : seen'[q] \in {seen[q], open, None}
    BY <1>15 DEF BeginCancel
  <2> QED BY <2>2, <2>3 DEF RevInv
<1>16. ASSUME NEW p \in Processes, BeginUpdate(p) PROVE RevInv'
  <2>1. Unread' = Unread \cup {p} /\ p \notin Unread /\ p \in Processes
    BY <1>16 DEF BeginUpdate, Unread
  <2>2. IsFiniteSet(Unread) /\ Cardinality(Unread) \in Nat
    BY FS_CardinalityType DEF RevInv
  <2>3. IsFiniteSet(Unread') /\ Cardinality(Unread') = Cardinality(Unread) + 1
    BY <2>1, <2>2, FS_AddElement
  <2> QED BY <2>2, <2>3, <1>16 DEF BeginUpdate, RevInv
<1>17. ASSUME NEW p \in Processes, Crash(p) PROVE RevInv'
  <2>1. /\ \A q \in Processes \ {p} : pc'[q] = pc[q] /\ call'[q] = call[q]
        /\ p \in Unread' => p \in Unread
    BY <1>17 DEF Crash, Unread
  <2>2. /\ IsFiniteSet(Unread') /\ Cardinality(Unread') \in Nat
        /\ Cardinality(Unread) \in Nat /\ Cardinality(Unread') <= Cardinality(Unread)
    BY <2>1, UnreadStep
  <2>3. /\ edits' = edits /\ open' \in {open, None}
        /\ \A q \in Processes : seen'[q] \in {seen[q], open, None}
    BY <1>17 DEF Crash
  <2> QED BY <2>2, <2>3 DEF RevInv
<1>18. ASSUME TimePasses PROVE RevInv'
  <2>1. UNCHANGED <<open, seen, Unread>>
    BY <1>18 DEF TimePasses, Unread
  <2> QED BY <2>1, <1>18 DEF TimePasses, RevInv
<1>19. CASE UNCHANGED expectationVars
  <2>1. UNCHANGED <<open, seen, Unread>>
    BY <1>19 DEF expectationVars, Unread
  <2> QED BY <2>1, <1>19 DEF expectationVars, RevInv
<1> QED BY <1>1, <1>2, <1>3, <1>4, <1>5, <1>6, <1>7, <1>8, <1>9, <1>10, <1>11, <1>12, <1>13,
      <1>14, <1>15, <1>16, <1>17, <1>18, <1>19 DEF ExpectationNext, CallStep, Consume

\* What is known of calls, replies and revisions.
CallsInv == TypeOK /\ CallInv /\ ReplyInv /\ RevInv

LEMMA CallsInvStep ==
  ASSUME CallsInv, [ExpectationNext]_expectationVars
  PROVE  CallsInv'
  BY TypeStep, CallsStep, RepliesStep, RevStep DEF CallsInv

\* Every run keeps it.
THEOREM ExpectationCallsInv == ExpectationSpec => []CallsInv
<1>1. ASSUME ExpectationInit PROVE CallsInv
  <2> USE ExpectationAssumption, <1>1 DEF ExpectationInit, ExpectationAssumption
  <2>1. pc \in [Processes -> Labels] /\ call \in [Processes -> {"none", "declare"}]
    BY DEF Labels
  <2>2. replies \in [Replies -> {"unsent", "pending"}]
    OBVIOUS
  <2>3. seen \in [Processes -> {None}]
    OBVIOUS
  <2>4. TypeOK
    <3>1. open \in Records \cup {None} /\ claims \subseteq Keys /\ journal \subseteq Lines
      OBVIOUS
    <3>2. /\ closed \in {"none", "torn"} \cup Final /\ winners \subseteq Replies \cup {"cancel"}
          /\ raced \in BOOLEAN
      OBVIOUS
    <3>3. now \in 0 .. MaxTime /\ edits \in 0 .. MaxEdits /\ mishaps \in 0 .. MaxMishaps
      OBVIOUS
    <3>4. call \in [Processes ->
                    {"none", "declare", "match", "rematch", "cancel", "update", "list"}]
      BY <2>1
    <3>5. replies \in [Replies -> {"unsent", "pending", "gone"} \cup Processes]
      BY <2>2
    <3>6. seen \in [Processes -> Records \cup {None}]
      BY <2>3
    <3> QED BY <2>1, <3>1, <3>2, <3>3, <3>4, <3>5, <3>6 DEF TypeOK
  <2>5. CallInv /\ ReplyInv
    BY <2>1, <2>2, <2>3 DEF CallInv, ReplyInv, Beyond, Labels
  <2>6. Unread = {}
    BY DEF Unread
  <2>7. RevInv
    BY <2>6, FS_EmptySet DEF RevInv
  <2> QED BY <2>4, <2>5, <2>7 DEF CallsInv
<1>2. CallsInv /\ [ExpectationNext]_expectationVars => CallsInv'
  BY CallsInvStep
<1> QED BY <1>1, <1>2, PTL DEF ExpectationSpec

\* The values stay in their types; no revision exceeds the number of updates begun.
THEOREM ExpectationTypeOK == ExpectationSpec => []TypeOK
  BY ExpectationCallsInv, PTL DEF CallsInv

-----------------------------------------------------------------------------
(* One end *)

\* The call has created the closed record and has not removed the open one.
Closing(p) == pc[p] \in {"fill", "unlink"}

\* One call closes the request; while it does, nobody is told that it has, and
\* afterwards what was told is what the record says.
ClosingInv ==
  \A p \in Processes :
    /\ Closing(p) => winners = {} /\ \A q \in Processes : Closing(q) => q = p
    /\ pc[p] = "fill" => closed = "torn"
    /\ pc[p] = "unlink" => closed = IF call[p] = "match" THEN "arrived" ELSE "cancelled"
    /\ pc[p] \in {"claim", "append"} /\ call[p] = "match" => closed = "arrived"

WinnerInv ==
  \A w \in winners :
    /\ \/ w \in Matching /\ closed = "arrived"
       \/ w = "cancel" /\ closed = "cancelled"
    /\ \A v \in winners : v = w

ArrivalInv == \A l \in journal : l.event = "arrived" => closed = "arrived"

\* Every step keeps them.
LEMMA ClosingStep ==
  ASSUME CallsInv, ClosingInv, WinnerInv, [ExpectationNext]_expectationVars
  PROVE  ClosingInv'
<1> USE DEF CallsInv, TypeOK, CallInv, ClosingInv, Closing
<1>1. ASSUME NEW p \in Processes, Declare(p) PROVE ClosingInv'
  BY <1>1 DEF Declare
<1>2. ASSUME NEW p \in Processes, ReadClosed(p) PROVE ClosingInv'
  BY <1>2 DEF ReadClosed
<1>3. ASSUME NEW p \in Processes, ReadOpen(p) PROVE ClosingInv'
  BY <1>3 DEF ReadOpen
<1>4. ASSUME NEW p \in Processes, CreateClosed(p) PROVE ClosingInv'
  BY <1>4 DEF CreateClosed, WinnerInv
<1>5. ASSUME NEW p \in Processes, FillClosed(p) PROVE ClosingInv'
  BY <1>5 DEF FillClosed
<1>6. ASSUME NEW p \in Processes, UnlinkOpen(p) PROVE ClosingInv'
  BY <1>6 DEF UnlinkOpen
<1>7. ASSUME NEW p \in Processes, Recheck(p) PROVE ClosingInv'
  BY <1>7 DEF Recheck
<1>8. ASSUME NEW p \in Processes, WriteOpen(p) PROVE ClosingInv'
  BY <1>8 DEF WriteOpen
<1>9. ASSUME NEW p \in Processes, RecheckAfter(p) PROVE ClosingInv'
  BY <1>9 DEF RecheckAfter
<1>10. ASSUME NEW p \in Processes, UnlinkZombie(p) PROVE ClosingInv'
  BY <1>10 DEF UnlinkZombie
<1>11. ASSUME NEW p \in Processes, ClaimLine(p) PROVE ClosingInv'
  BY <1>11 DEF ClaimLine
<1>12. ASSUME NEW p \in Processes, AppendLine(p) PROVE ClosingInv'
  BY <1>12 DEF AppendLine
<1>13. ASSUME NEW p \in Processes, List(p) PROVE ClosingInv'
  BY <1>13 DEF List
<1>14. ASSUME NEW p \in Processes, NEW r \in Replies, BeginMatch(p, r) PROVE ClosingInv'
  BY <1>14 DEF BeginMatch
<1>15. ASSUME NEW p \in Processes, BeginCancel(p) PROVE ClosingInv'
  BY <1>15 DEF BeginCancel
<1>16. ASSUME NEW p \in Processes, BeginUpdate(p) PROVE ClosingInv'
  BY <1>16 DEF BeginUpdate
<1>17. ASSUME NEW p \in Processes, Crash(p) PROVE ClosingInv'
  BY <1>17 DEF Crash
<1>18. ASSUME TimePasses PROVE ClosingInv'
  BY <1>18 DEF TimePasses
<1>19. CASE UNCHANGED expectationVars
  BY <1>19 DEF expectationVars
<1> QED BY <1>1, <1>2, <1>3, <1>4, <1>5, <1>6, <1>7, <1>8, <1>9, <1>10, <1>11, <1>12, <1>13,
      <1>14, <1>15, <1>16, <1>17, <1>18, <1>19 DEF ExpectationNext, CallStep, Consume

LEMMA WinnerStep ==
  ASSUME CallsInv, ClosingInv, WinnerInv, [ExpectationNext]_expectationVars
  PROVE  WinnerInv'
<1> USE DEF CallsInv, TypeOK, WinnerInv
<1>1. ASSUME NEW p \in Processes, Declare(p) PROVE WinnerInv'
  BY <1>1 DEF Declare
<1>2. ASSUME NEW p \in Processes, ReadClosed(p) PROVE WinnerInv'
  BY <1>2 DEF ReadClosed
<1>3. ASSUME NEW p \in Processes, ReadOpen(p) PROVE WinnerInv'
  BY <1>3 DEF ReadOpen
<1>4. ASSUME NEW p \in Processes, CreateClosed(p) PROVE WinnerInv'
  BY <1>4 DEF CreateClosed
<1>5. ASSUME NEW p \in Processes, FillClosed(p) PROVE WinnerInv'
  BY <1>5 DEF FillClosed, ClosingInv, Closing
<1>6. ASSUME NEW p \in Processes, UnlinkOpen(p) PROVE WinnerInv'
  <2>1. winners = {} /\ closed' = closed
    BY <1>6 DEF UnlinkOpen, ClosingInv, Closing
  <2>2. CASE call[p] = "match"
    <3>1. PICK r \in Matching : replies[r] = p
      BY <1>6, <2>2 DEF UnlinkOpen, ReplyInv, Fits, Beyond, Labels
    <3>2. winners' = {r}
      BY <1>6, <2>1, <2>2, <3>1, ExpectationAssumption DEF UnlinkOpen, ReplyInv,
        ExpectationAssumption
    <3>3. closed = "arrived"
      BY <1>6, <2>2 DEF UnlinkOpen, ClosingInv
    <3> QED BY <2>1, <3>1, <3>2, <3>3
  <2>3. CASE call[p] = "cancel"
    BY <1>6, <2>1, <2>3 DEF UnlinkOpen, ClosingInv
  <2> QED BY <1>6, <2>2, <2>3 DEF UnlinkOpen
<1>7. ASSUME NEW p \in Processes, Recheck(p) PROVE WinnerInv'
  BY <1>7 DEF Recheck
<1>8. ASSUME NEW p \in Processes, WriteOpen(p) PROVE WinnerInv'
  BY <1>8 DEF WriteOpen
<1>9. ASSUME NEW p \in Processes, RecheckAfter(p) PROVE WinnerInv'
  BY <1>9 DEF RecheckAfter
<1>10. ASSUME NEW p \in Processes, UnlinkZombie(p) PROVE WinnerInv'
  BY <1>10 DEF UnlinkZombie
<1>11. ASSUME NEW p \in Processes, ClaimLine(p) PROVE WinnerInv'
  BY <1>11 DEF ClaimLine
<1>12. ASSUME NEW p \in Processes, AppendLine(p) PROVE WinnerInv'
  BY <1>12 DEF AppendLine
<1>13. ASSUME NEW p \in Processes, List(p) PROVE WinnerInv'
  BY <1>13 DEF List
<1>14. ASSUME NEW p \in Processes, NEW r \in Replies, BeginMatch(p, r) PROVE WinnerInv'
  BY <1>14 DEF BeginMatch
<1>15. ASSUME NEW p \in Processes, BeginCancel(p) PROVE WinnerInv'
  BY <1>15 DEF BeginCancel
<1>16. ASSUME NEW p \in Processes, BeginUpdate(p) PROVE WinnerInv'
  BY <1>16 DEF BeginUpdate
<1>17. ASSUME NEW p \in Processes, Crash(p) PROVE WinnerInv'
  BY <1>17 DEF Crash
<1>18. ASSUME TimePasses PROVE WinnerInv'
  BY <1>18 DEF TimePasses
<1>19. CASE UNCHANGED expectationVars
  BY <1>19 DEF expectationVars
<1> QED BY <1>1, <1>2, <1>3, <1>4, <1>5, <1>6, <1>7, <1>8, <1>9, <1>10, <1>11, <1>12, <1>13,
      <1>14, <1>15, <1>16, <1>17, <1>18, <1>19 DEF ExpectationNext, CallStep, Consume

LEMMA ArrivalStep ==
  ASSUME CallsInv, ClosingInv, ArrivalInv, [ExpectationNext]_expectationVars
  PROVE  ArrivalInv'
<1> USE DEF ArrivalInv
<1>1. ASSUME NEW p \in Processes, Declare(p) PROVE ArrivalInv'
  BY <1>1 DEF Declare
<1>2. ASSUME NEW p \in Processes, ReadClosed(p) PROVE ArrivalInv'
  BY <1>2 DEF ReadClosed
<1>3. ASSUME NEW p \in Processes, ReadOpen(p) PROVE ArrivalInv'
  BY <1>3 DEF ReadOpen
<1>4. ASSUME NEW p \in Processes, CreateClosed(p) PROVE ArrivalInv'
  BY <1>4 DEF CreateClosed
<1>5. ASSUME NEW p \in Processes, FillClosed(p) PROVE ArrivalInv'
  BY <1>5 DEF FillClosed, ClosingInv, Closing
<1>6. ASSUME NEW p \in Processes, UnlinkOpen(p) PROVE ArrivalInv'
  BY <1>6 DEF UnlinkOpen
<1>7. ASSUME NEW p \in Processes, Recheck(p) PROVE ArrivalInv'
  BY <1>7 DEF Recheck
<1>8. ASSUME NEW p \in Processes, WriteOpen(p) PROVE ArrivalInv'
  BY <1>8 DEF WriteOpen
<1>9. ASSUME NEW p \in Processes, RecheckAfter(p) PROVE ArrivalInv'
  BY <1>9 DEF RecheckAfter
<1>10. ASSUME NEW p \in Processes, UnlinkZombie(p) PROVE ArrivalInv'
  BY <1>10 DEF UnlinkZombie
<1>11. ASSUME NEW p \in Processes, ClaimLine(p) PROVE ArrivalInv'
  BY <1>11 DEF ClaimLine
<1>12. ASSUME NEW p \in Processes, AppendLine(p) PROVE ArrivalInv'
  BY <1>12, KeyTypes DEF AppendLine, ClosingInv, CallsInv
<1>13. ASSUME NEW p \in Processes, List(p) PROVE ArrivalInv'
  BY <1>13 DEF List
<1>14. ASSUME NEW p \in Processes, NEW r \in Replies, BeginMatch(p, r) PROVE ArrivalInv'
  BY <1>14 DEF BeginMatch
<1>15. ASSUME NEW p \in Processes, BeginCancel(p) PROVE ArrivalInv'
  BY <1>15 DEF BeginCancel
<1>16. ASSUME NEW p \in Processes, BeginUpdate(p) PROVE ArrivalInv'
  BY <1>16 DEF BeginUpdate
<1>17. ASSUME NEW p \in Processes, Crash(p) PROVE ArrivalInv'
  BY <1>17 DEF Crash
<1>18. ASSUME TimePasses PROVE ArrivalInv'
  BY <1>18 DEF TimePasses
<1>19. CASE UNCHANGED expectationVars
  BY <1>19 DEF expectationVars
<1> QED BY <1>1, <1>2, <1>3, <1>4, <1>5, <1>6, <1>7, <1>8, <1>9, <1>10, <1>11, <1>12, <1>13,
      <1>14, <1>15, <1>16, <1>17, <1>18, <1>19 DEF ExpectationNext, CallStep, Consume

\* A request has one end, and the journal and everybody who is told agree on it.
THEOREM ExpectationOneOutcome == ExpectationSpec => []OneOutcome
<1> DEFINE OutcomeInv == ClosingInv /\ WinnerInv /\ ArrivalInv
<1>1. ExpectationInit => OutcomeInv
  BY DEF ExpectationInit, ClosingInv, Closing, WinnerInv, ArrivalInv
<1>2. CallsInv /\ OutcomeInv /\ [ExpectationNext]_expectationVars => OutcomeInv'
  BY ClosingStep, WinnerStep, ArrivalStep
<1>3. OutcomeInv => OneOutcome
  <2> SUFFICES ASSUME OutcomeInv PROVE Cardinality(winners) <= 1
    BY DEF OneOutcome, WinnerInv, ArrivalInv
  <2>1. CASE winners = {}
    BY <2>1, FS_EmptySet
  <2>2. CASE winners # {}
    <3>1. PICK w : winners = {w}
      BY <2>2 DEF WinnerInv
    <3>2. Cardinality({w}) = 1
      BY FS_Singleton
    <3> QED BY <3>1, <3>2
  <2> QED BY <2>1, <2>2
<1> QED BY <1>1, <1>2, <1>3, ExpectationCallsInv, PTL DEF ExpectationSpec

-----------------------------------------------------------------------------
(* The journal *)

KeyOf(l) == [event |-> l.event, rev |-> l.rev]

\* A line has been claimed, and its key is its own.
LineInv ==
  \A l \in journal :
    /\ KeyOf(l) \in claims
    /\ \A k \in journal : KeyOf(l) = KeyOf(k) => l = k

\* Who is about to append has claimed its line, alone, and the line is not there.
AppendInv ==
  \A p \in Processes : pc[p] = "append" =>
    /\ Key(p) \in claims
    /\ \A l \in journal : KeyOf(l) # Key(p)
    /\ \A q \in Processes : pc[q] = "append" /\ Key(q) = Key(p) => q = p

\* A time-out, announced or about to be, is after the deadline.
TimeoutInv ==
  /\ \A l \in journal : l.event = "timeout" => l.deadline < now
  /\ \A p \in Processes :
       pc[p] \in {"claim", "append"} /\ call[p] = "list" => seen[p].deadline < now

\* A call's key is made of what the call does and has seen.
LEMMA KeyFrame ==
  ASSUME NEW q \in Processes, call'[q] = call[q], seen'[q] = seen[q]
  PROVE  Key(q)' = Key(q)
  BY DEF Key, Event

\* A line's key is what its process has claimed.
LEMMA KeyOfLine ==
  ASSUME NEW p \in Processes
  PROVE  KeyOf(Line(p)) = Key(p)
  BY DEF KeyOf, Line, Key

\* Reading the open record changes nothing but the call that reads.
LEMMA ReadOpenFrame ==
  ASSUME CallsInv, NEW p \in Processes, ReadOpen(p)
  PROVE  /\ UNCHANGED <<files, winners, raced, now, edits, mishaps>>
         /\ pc'[p] \in {"idle", "create", "recheck"}
         /\ \A q \in Processes : q # p => /\ pc'[q] = pc[q]
                                          /\ call'[q] = call[q] /\ seen'[q] = seen[q]
<1>1. UNCHANGED <<files, winners, raced, now, edits, mishaps>>
  BY DEF ReadOpen
<1>2. CASE pc'[p] = "idle"
  BY <1>2 DEF ReadOpen, CallsInv, TypeOK
<1>3. CASE pc'[p] # "idle"
  <2>1. \/ pc' = [pc EXCEPT ![p] = "create"] /\ seen' = [seen EXCEPT ![p] = open]
        \/ /\ pc' = [pc EXCEPT ![p] = "recheck"]
           /\ \E rec \in Records : seen' = [seen EXCEPT ![p] = rec]
    BY <1>3, ReadOpenSees DEF CallsInv
  <2>2. call' = call
    BY <1>3, ReadOpenSees DEF CallsInv
  <2> QED BY <1>1, <2>1, <2>2 DEF CallsInv, TypeOK
<1> QED BY <1>1, <1>2, <1>3

\* Every step keeps them.
LEMMA LineStep ==
  ASSUME CallsInv, LineInv, AppendInv, [ExpectationNext]_expectationVars
  PROVE  LineInv' /\ AppendInv'
<1> DEFINE Kept == LineInv' /\ AppendInv'
<1> USE DEF CallsInv, TypeOK
<1>1. ASSUME NEW p \in Processes, Declare(p) PROVE Kept
  <2>1. UNCHANGED <<journal, claims>>
    BY <1>1 DEF Declare
  <2>2. LineInv'
    BY <2>1 DEF LineInv
  <2>3. /\ pc'[p] # "append"
        /\ \A q \in Processes : q # p => /\ pc'[q] = pc[q]
                                         /\ call'[q] = call[q] /\ seen'[q] = seen[q]
    BY <1>1 DEF Declare
  <2>4. \A q \in Processes : pc'[q] = "append" => pc[q] = "append" /\ Key(q)' = Key(q)
    BY <2>3, KeyFrame
  <2> QED BY <2>1, <2>2, <2>4 DEF AppendInv
<1>2. ASSUME NEW p \in Processes, ReadClosed(p) PROVE Kept
  <2>1. UNCHANGED <<journal, claims>>
    BY <1>2 DEF ReadClosed
  <2>2. LineInv'
    BY <2>1 DEF LineInv
  <2>3. /\ pc'[p] # "append"
        /\ \A q \in Processes : q # p => /\ pc'[q] = pc[q]
                                         /\ call'[q] = call[q] /\ seen'[q] = seen[q]
    BY <1>2 DEF ReadClosed
  <2>4. \A q \in Processes : pc'[q] = "append" => pc[q] = "append" /\ Key(q)' = Key(q)
    BY <2>3, KeyFrame
  <2> QED BY <2>1, <2>2, <2>4 DEF AppendInv
<1>3. ASSUME NEW p \in Processes, ReadOpen(p) PROVE Kept
  <2>1. UNCHANGED <<journal, claims>>
    BY <1>3, ReadOpenFrame
  <2>2. LineInv'
    BY <2>1 DEF LineInv
  <2>4. \A q \in Processes : pc'[q] = "append" => pc[q] = "append" /\ Key(q)' = Key(q)
    BY <1>3, ReadOpenFrame, KeyFrame
  <2> QED BY <2>1, <2>2, <2>4 DEF AppendInv
<1>4. ASSUME NEW p \in Processes, CreateClosed(p) PROVE Kept
  <2>1. UNCHANGED <<journal, claims>>
    BY <1>4 DEF CreateClosed
  <2>2. LineInv'
    BY <2>1 DEF LineInv
  <2>3. /\ pc'[p] # "append"
        /\ \A q \in Processes : q # p => /\ pc'[q] = pc[q]
                                         /\ call'[q] = call[q] /\ seen'[q] = seen[q]
    BY <1>4 DEF CreateClosed
  <2>4. \A q \in Processes : pc'[q] = "append" => pc[q] = "append" /\ Key(q)' = Key(q)
    BY <2>3, KeyFrame
  <2> QED BY <2>1, <2>2, <2>4 DEF AppendInv
<1>5. ASSUME NEW p \in Processes, FillClosed(p) PROVE Kept
  <2>1. UNCHANGED <<journal, claims>>
    BY <1>5 DEF FillClosed
  <2>2. LineInv'
    BY <2>1 DEF LineInv
  <2>3. /\ pc'[p] # "append"
        /\ \A q \in Processes : q # p => /\ pc'[q] = pc[q]
                                         /\ call'[q] = call[q] /\ seen'[q] = seen[q]
    BY <1>5 DEF FillClosed
  <2>4. \A q \in Processes : pc'[q] = "append" => pc[q] = "append" /\ Key(q)' = Key(q)
    BY <2>3, KeyFrame
  <2> QED BY <2>1, <2>2, <2>4 DEF AppendInv
<1>6. ASSUME NEW p \in Processes, UnlinkOpen(p) PROVE Kept
  <2>1. UNCHANGED <<journal, claims>>
    BY <1>6 DEF UnlinkOpen
  <2>2. LineInv'
    BY <2>1 DEF LineInv
  <2>3. /\ pc'[p] # "append"
        /\ \A q \in Processes : q # p => /\ pc'[q] = pc[q]
                                         /\ call'[q] = call[q] /\ seen'[q] = seen[q]
    BY <1>6 DEF UnlinkOpen
  <2>4. \A q \in Processes : pc'[q] = "append" => pc[q] = "append" /\ Key(q)' = Key(q)
    BY <2>3, KeyFrame
  <2> QED BY <2>1, <2>2, <2>4 DEF AppendInv
<1>7. ASSUME NEW p \in Processes, Recheck(p) PROVE Kept
  <2>1. UNCHANGED <<journal, claims>>
    BY <1>7 DEF Recheck
  <2>2. LineInv'
    BY <2>1 DEF LineInv
  <2>3. /\ pc'[p] # "append"
        /\ \A q \in Processes : q # p => /\ pc'[q] = pc[q]
                                         /\ call'[q] = call[q] /\ seen'[q] = seen[q]
    BY <1>7 DEF Recheck
  <2>4. \A q \in Processes : pc'[q] = "append" => pc[q] = "append" /\ Key(q)' = Key(q)
    BY <2>3, KeyFrame
  <2> QED BY <2>1, <2>2, <2>4 DEF AppendInv
<1>8. ASSUME NEW p \in Processes, WriteOpen(p) PROVE Kept
  <2>1. UNCHANGED <<journal, claims>>
    BY <1>8 DEF WriteOpen
  <2>2. LineInv'
    BY <2>1 DEF LineInv
  <2>3. /\ pc'[p] # "append"
        /\ \A q \in Processes : q # p => /\ pc'[q] = pc[q]
                                         /\ call'[q] = call[q] /\ seen'[q] = seen[q]
    BY <1>8 DEF WriteOpen
  <2>4. \A q \in Processes : pc'[q] = "append" => pc[q] = "append" /\ Key(q)' = Key(q)
    BY <2>3, KeyFrame
  <2> QED BY <2>1, <2>2, <2>4 DEF AppendInv
<1>9. ASSUME NEW p \in Processes, RecheckAfter(p) PROVE Kept
  <2>1. UNCHANGED <<journal, claims>>
    BY <1>9 DEF RecheckAfter
  <2>2. LineInv'
    BY <2>1 DEF LineInv
  <2>3. /\ pc'[p] # "append"
        /\ \A q \in Processes : q # p => /\ pc'[q] = pc[q]
                                         /\ call'[q] = call[q] /\ seen'[q] = seen[q]
    BY <1>9 DEF RecheckAfter
  <2>4. \A q \in Processes : pc'[q] = "append" => pc[q] = "append" /\ Key(q)' = Key(q)
    BY <2>3, KeyFrame
  <2> QED BY <2>1, <2>2, <2>4 DEF AppendInv
<1>10. ASSUME NEW p \in Processes, UnlinkZombie(p) PROVE Kept
  <2>1. UNCHANGED <<journal, claims>>
    BY <1>10 DEF UnlinkZombie
  <2>2. LineInv'
    BY <2>1 DEF LineInv
  <2>3. /\ pc'[p] # "append"
        /\ \A q \in Processes : q # p => /\ pc'[q] = pc[q]
                                         /\ call'[q] = call[q] /\ seen'[q] = seen[q]
    BY <1>10 DEF UnlinkZombie
  <2>4. \A q \in Processes : pc'[q] = "append" => pc[q] = "append" /\ Key(q)' = Key(q)
    BY <2>3, KeyFrame
  <2> QED BY <2>1, <2>2, <2>4 DEF AppendInv
<1>11. ASSUME NEW p \in Processes, ClaimLine(p) PROVE Kept
  <2>1. CASE pc'[p] # "append"
    <3>1. UNCHANGED <<journal, claims>>
      BY <1>11, <2>1 DEF ClaimLine
    <3>2. \A q \in Processes : q # p => /\ pc'[q] = pc[q]
                                        /\ call'[q] = call[q] /\ seen'[q] = seen[q]
      BY <1>11 DEF ClaimLine
    <3>3. \A q \in Processes : pc'[q] = "append" => pc[q] = "append" /\ Key(q)' = Key(q)
      BY <2>1, <3>2, KeyFrame
    <3> QED BY <3>1, <3>3 DEF LineInv, AppendInv
  <2>2. CASE pc'[p] = "append"
    <3>1. /\ UNCHANGED <<journal, call, seen>> /\ pc' = [pc EXCEPT ![p] = "append"]
          /\ Key(p) \notin claims /\ claims' = claims \cup {Key(p)}
      BY <1>11, <2>2 DEF ClaimLine
    <3>2. \A q \in Processes : Key(q)' = Key(q)
      BY <3>1, KeyFrame
    <3> QED BY <3>1, <3>2 DEF LineInv, AppendInv
  <2> QED BY <2>1, <2>2
<1>12. ASSUME NEW p \in Processes, AppendLine(p) PROVE Kept
  <2>1. /\ pc[p] = "append" /\ pc'[p] = "idle" /\ claims' = claims
        /\ journal' \in {journal, journal \cup {Line(p)}}
        /\ \A q \in Processes : q # p => /\ pc'[q] = pc[q]
                                         /\ call'[q] = call[q] /\ seen'[q] = seen[q]
    BY <1>12 DEF AppendLine
  <2>2. \A q \in Processes : pc'[q] = "append" => q # p /\ pc[q] = "append" /\ Key(q)' = Key(q)
    BY <2>1, KeyFrame
  <2>3. KeyOf(Line(p)) = Key(p)
    BY KeyOfLine
  <2> QED BY <2>1, <2>2, <2>3 DEF LineInv, AppendInv
<1>13. ASSUME NEW p \in Processes, List(p) PROVE Kept
  <2>1. UNCHANGED <<journal, claims>>
    BY <1>13 DEF List
  <2>2. LineInv'
    BY <2>1 DEF LineInv
  <2>3. /\ pc'[p] # "append"
        /\ \A q \in Processes : q # p => /\ pc'[q] = pc[q]
                                         /\ call'[q] = call[q] /\ seen'[q] = seen[q]
    BY <1>13 DEF List
  <2>4. \A q \in Processes : pc'[q] = "append" => pc[q] = "append" /\ Key(q)' = Key(q)
    BY <2>3, KeyFrame
  <2> QED BY <2>1, <2>2, <2>4 DEF AppendInv
<1>14. ASSUME NEW p \in Processes, NEW r \in Replies, BeginMatch(p, r) PROVE Kept
  <2>1. UNCHANGED <<journal, claims>>
    BY <1>14 DEF BeginMatch
  <2>2. LineInv'
    BY <2>1 DEF LineInv
  <2>3. /\ pc'[p] # "append"
        /\ \A q \in Processes : q # p => /\ pc'[q] = pc[q]
                                         /\ call'[q] = call[q] /\ seen'[q] = seen[q]
    BY <1>14 DEF BeginMatch
  <2>4. \A q \in Processes : pc'[q] = "append" => pc[q] = "append" /\ Key(q)' = Key(q)
    BY <2>3, KeyFrame
  <2> QED BY <2>1, <2>2, <2>4 DEF AppendInv
<1>15. ASSUME NEW p \in Processes, BeginCancel(p) PROVE Kept
  <2>1. UNCHANGED <<journal, claims>>
    BY <1>15 DEF BeginCancel
  <2>2. LineInv'
    BY <2>1 DEF LineInv
  <2>3. /\ pc'[p] # "append"
        /\ \A q \in Processes : q # p => /\ pc'[q] = pc[q]
                                         /\ call'[q] = call[q] /\ seen'[q] = seen[q]
    BY <1>15 DEF BeginCancel
  <2>4. \A q \in Processes : pc'[q] = "append" => pc[q] = "append" /\ Key(q)' = Key(q)
    BY <2>3, KeyFrame
  <2> QED BY <2>1, <2>2, <2>4 DEF AppendInv
<1>16. ASSUME NEW p \in Processes, BeginUpdate(p) PROVE Kept
  <2>1. UNCHANGED <<journal, claims>>
    BY <1>16 DEF BeginUpdate
  <2>2. LineInv'
    BY <2>1 DEF LineInv
  <2>3. /\ pc'[p] # "append"
        /\ \A q \in Processes : q # p => /\ pc'[q] = pc[q]
                                         /\ call'[q] = call[q] /\ seen'[q] = seen[q]
    BY <1>16 DEF BeginUpdate
  <2>4. \A q \in Processes : pc'[q] = "append" => pc[q] = "append" /\ Key(q)' = Key(q)
    BY <2>3, KeyFrame
  <2> QED BY <2>1, <2>2, <2>4 DEF AppendInv
<1>17. ASSUME NEW p \in Processes, Crash(p) PROVE Kept
  <2>1. UNCHANGED <<journal, claims>>
    BY <1>17 DEF Crash
  <2>2. LineInv'
    BY <2>1 DEF LineInv
  <2>3. /\ pc'[p] # "append"
        /\ \A q \in Processes : q # p => /\ pc'[q] = pc[q]
                                         /\ call'[q] = call[q] /\ seen'[q] = seen[q]
    BY <1>17 DEF Crash
  <2>4. \A q \in Processes : pc'[q] = "append" => pc[q] = "append" /\ Key(q)' = Key(q)
    BY <2>3, KeyFrame
  <2> QED BY <2>1, <2>2, <2>4 DEF AppendInv
<1>18. ASSUME TimePasses PROVE Kept
  <2>1. UNCHANGED <<journal, claims, pc, call, seen>>
    BY <1>18 DEF TimePasses
  <2>2. \A q \in Processes : Key(q)' = Key(q)
    BY <2>1, KeyFrame
  <2> QED BY <2>1, <2>2 DEF LineInv, AppendInv
<1>19. CASE UNCHANGED expectationVars
  <2>1. UNCHANGED <<journal, claims, pc, call, seen>>
    BY <1>19 DEF expectationVars
  <2>2. \A q \in Processes : Key(q)' = Key(q)
    BY <2>1, KeyFrame
  <2> QED BY <2>1, <2>2 DEF LineInv, AppendInv
<1> QED BY <1>1, <1>2, <1>3, <1>4, <1>5, <1>6, <1>7, <1>8, <1>9, <1>10, <1>11, <1>12, <1>13,
      <1>14, <1>15, <1>16, <1>17, <1>18, <1>19 DEF ExpectationNext, CallStep, Consume

LEMMA TimeoutStep ==
  ASSUME CallsInv, CallsInv', TimeoutInv, [ExpectationNext]_expectationVars
  PROVE  TimeoutInv'
<1> USE DEF CallsInv, TypeOK, CallInv, TimeoutInv, Labels
<1>1. ASSUME NEW p \in Processes, Declare(p) PROVE TimeoutInv'
  BY <1>1 DEF Declare
<1>2. ASSUME NEW p \in Processes, ReadClosed(p) PROVE TimeoutInv'
  BY <1>2 DEF ReadClosed
<1>3. ASSUME NEW p \in Processes, ReadOpen(p) PROVE TimeoutInv'
  BY <1>3, ReadOpenFrame
<1>4. ASSUME NEW p \in Processes, CreateClosed(p) PROVE TimeoutInv'
  BY <1>4 DEF CreateClosed
<1>5. ASSUME NEW p \in Processes, FillClosed(p) PROVE TimeoutInv'
  BY <1>5 DEF FillClosed
<1>6. ASSUME NEW p \in Processes, UnlinkOpen(p) PROVE TimeoutInv'
  BY <1>6 DEF UnlinkOpen
<1>7. ASSUME NEW p \in Processes, Recheck(p) PROVE TimeoutInv'
  BY <1>7 DEF Recheck
<1>8. ASSUME NEW p \in Processes, WriteOpen(p) PROVE TimeoutInv'
  BY <1>8 DEF WriteOpen
<1>9. ASSUME NEW p \in Processes, RecheckAfter(p) PROVE TimeoutInv'
  BY <1>9 DEF RecheckAfter
<1>10. ASSUME NEW p \in Processes, UnlinkZombie(p) PROVE TimeoutInv'
  BY <1>10 DEF UnlinkZombie
<1>11. ASSUME NEW p \in Processes, ClaimLine(p) PROVE TimeoutInv'
  BY <1>11 DEF ClaimLine
<1>12. ASSUME NEW p \in Processes, AppendLine(p) PROVE TimeoutInv'
  <2>1. Line(p) \in Lines /\ Line(p).deadline = seen[p].deadline
        /\ (Line(p).event = "timeout" => call[p] = "list")
    BY <1>12, KeyTypes DEF AppendLine
  <2> QED BY <1>12, <2>1 DEF AppendLine
<1>13. ASSUME NEW p \in Processes, List(p) PROVE TimeoutInv'
  BY <1>13 DEF List, Overdue
<1>14. ASSUME NEW p \in Processes, NEW r \in Replies, BeginMatch(p, r) PROVE TimeoutInv'
  BY <1>14 DEF BeginMatch
<1>15. ASSUME NEW p \in Processes, BeginCancel(p) PROVE TimeoutInv'
  BY <1>15 DEF BeginCancel
<1>16. ASSUME NEW p \in Processes, BeginUpdate(p) PROVE TimeoutInv'
  BY <1>16 DEF BeginUpdate
<1>17. ASSUME NEW p \in Processes, Crash(p) PROVE TimeoutInv'
  BY <1>17 DEF Crash
<1>18. ASSUME TimePasses PROVE TimeoutInv'
  <2>1. \A l \in Lines : l.deadline \in Nat
    BY ExpectationAssumption DEF Lines, ExpectationAssumption
  <2>2. \A p \in Processes : pc[p] \in {"claim", "append"} => seen[p].deadline \in Nat
    BY ExpectationAssumption DEF Beyond, Records, ExpectationAssumption
  <2> QED BY <2>1, <2>2, <1>18 DEF TimePasses
<1>19. CASE UNCHANGED expectationVars
  BY <1>19 DEF expectationVars
<1> QED BY <1>1, <1>2, <1>3, <1>4, <1>5, <1>6, <1>7, <1>8, <1>9, <1>10, <1>11, <1>12, <1>13,
      <1>14, <1>15, <1>16, <1>17, <1>18, <1>19 DEF ExpectationNext, CallStep, Consume

\* While the request is being declared there is nothing of it, and whoever looks
\* finds nothing.
DeclareInv ==
  \A p \in Processes : pc[p] = "declare" =>
    /\ open = None /\ closed = "none" /\ claims = {} /\ journal = {}
    /\ \A q \in Processes : q # p => pc[q] \in {"idle", "readClosed", "readOpen"}

LEMMA DeclareStep ==
  ASSUME CallsInv, DeclareInv, [ExpectationNext]_expectationVars
  PROVE  DeclareInv'
<1> USE DEF CallsInv, TypeOK, DeclareInv, Labels
<1>1. ASSUME NEW p \in Processes, Declare(p) PROVE DeclareInv'
  BY <1>1 DEF Declare
<1>2. ASSUME NEW p \in Processes, ReadClosed(p) PROVE DeclareInv'
  BY <1>2 DEF ReadClosed
<1>3. ASSUME NEW p \in Processes, ReadOpen(p) PROVE DeclareInv'
  BY <1>3 DEF ReadOpen
<1>4. ASSUME NEW p \in Processes, CreateClosed(p) PROVE DeclareInv'
  BY <1>4 DEF CreateClosed
<1>5. ASSUME NEW p \in Processes, FillClosed(p) PROVE DeclareInv'
  BY <1>5 DEF FillClosed
<1>6. ASSUME NEW p \in Processes, UnlinkOpen(p) PROVE DeclareInv'
  BY <1>6 DEF UnlinkOpen
<1>7. ASSUME NEW p \in Processes, Recheck(p) PROVE DeclareInv'
  BY <1>7 DEF Recheck
<1>8. ASSUME NEW p \in Processes, WriteOpen(p) PROVE DeclareInv'
  BY <1>8 DEF WriteOpen
<1>9. ASSUME NEW p \in Processes, RecheckAfter(p) PROVE DeclareInv'
  BY <1>9 DEF RecheckAfter
<1>10. ASSUME NEW p \in Processes, UnlinkZombie(p) PROVE DeclareInv'
  BY <1>10 DEF UnlinkZombie
<1>11. ASSUME NEW p \in Processes, ClaimLine(p) PROVE DeclareInv'
  BY <1>11 DEF ClaimLine
<1>12. ASSUME NEW p \in Processes, AppendLine(p) PROVE DeclareInv'
  BY <1>12 DEF AppendLine
<1>13. ASSUME NEW p \in Processes, List(p) PROVE DeclareInv'
  BY <1>13 DEF List, Overdue
<1>14. ASSUME NEW p \in Processes, NEW r \in Replies, BeginMatch(p, r) PROVE DeclareInv'
  BY <1>14 DEF BeginMatch
<1>15. ASSUME NEW p \in Processes, BeginCancel(p) PROVE DeclareInv'
  BY <1>15 DEF BeginCancel
<1>16. ASSUME NEW p \in Processes, BeginUpdate(p) PROVE DeclareInv'
  BY <1>16 DEF BeginUpdate
<1>17. ASSUME NEW p \in Processes, Crash(p) PROVE DeclareInv'
  BY <1>17 DEF Crash
<1>18. ASSUME TimePasses PROVE DeclareInv'
  BY <1>18 DEF TimePasses
<1>19. CASE UNCHANGED expectationVars
  BY <1>19 DEF expectationVars
<1> QED BY <1>1, <1>2, <1>3, <1>4, <1>5, <1>6, <1>7, <1>8, <1>9, <1>10, <1>11, <1>12, <1>13,
      <1>14, <1>15, <1>16, <1>17, <1>18, <1>19 DEF ExpectationNext, CallStep, Consume

\* The call has written, read or announced this record.
Bears(p) == pc[p] \in {"recheckAfter", "claim", "append"} /\ call[p] # "match"

\* A record of the request that was or is in the open file.
Written(rec) ==
  \/ open # None /\ rec = open
  \/ \E p \in Processes : Bears(p) /\ rec = seen[p]
  \/ \E l \in journal : l.event # "arrived" /\ rec = [rev |-> l.rev, deadline |-> l.deadline]

\* A revision has one deadline; the open record is the last, and an update under
\* way will exceed it.
RevisionsAgree ==
  \A rec \in Records : Written(rec) =>
    /\ open # None => rec.rev <= open.rev
    /\ \A other \in Records : Written(other) /\ other.rev = rec.rev => other = rec
    /\ \A p \in Processes : Revising(p) => rec.rev < seen[p].rev

RevisionInv == raced \/ RevisionsAgree

\* A step that writes no record, and after which no more calls bear or revise one.
LEMMA NothingWritten ==
  ASSUME RevisionInv, raced' = raced, open' \in {open, None}, journal' = journal,
         \A q \in Processes : Bears(q)' => Bears(q) /\ seen'[q] = seen[q],
         \A q \in Processes : Revising(q)' => Revising(q) /\ seen'[q] = seen[q]
  PROVE  RevisionInv'
<1>1. \A rec \in Records : Written(rec)' => Written(rec)
  BY DEF Written
<1> QED BY <1>1 DEF RevisionInv, RevisionsAgree

\* Every step keeps it.
LEMMA RevisionStep ==
  ASSUME CallsInv, CallsInv', DeclareInv, RevisionInv, [ExpectationNext]_expectationVars
  PROVE  RevisionInv'
<1> USE DEF CallsInv
<1>1. ASSUME NEW p \in Processes, Declare(p) PROVE RevisionInv'
  <2>1. /\ pc[p] = "declare" /\ call[p] = "declare" /\ open = None
        /\ journal' = {} /\ raced' = raced
        /\ \A q \in Processes : q # p => /\ pc'[q] \in {"idle", "readClosed", "readOpen"}
                                         /\ seen'[q] = seen[q]
    BY <1>1 DEF Declare, DeclareInv, TypeOK, CallInv
  <2>2. \/ open' = None /\ pc'[p] = "idle"
        \/ seen'[p] = open' /\ pc'[p] = "claim"
    BY <2>1, <1>1 DEF Declare, TypeOK
  <2>3. \A rec \in Records : Written(rec)' => rec = open' /\ open' # None
    BY <2>1, <2>2, NoneIsNoRecord DEF Written, Bears
  <2>4. \A q \in Processes : ~Revising(q)'
    BY <2>1, <2>2 DEF Revising
  <2>5. \A rec \in Records : rec.rev <= rec.rev
    BY ExpectationAssumption DEF Records, ExpectationAssumption
  <2> QED BY <2>3, <2>4, <2>5 DEF RevisionInv, RevisionsAgree
<1>2. ASSUME NEW p \in Processes, ReadClosed(p) PROVE RevisionInv'
  <2>1. /\ raced' = raced /\ journal' = journal /\ open' \in {open, None}
        /\ \A q \in Processes : Bears(q)' => Bears(q) /\ seen'[q] = seen[q]
        /\ \A q \in Processes : Revising(q)' => Revising(q) /\ seen'[q] = seen[q]
    BY <1>2 DEF ReadClosed, TypeOK, CallInv, Bears, Revising
  <2> QED BY <2>1, NothingWritten
<1>3. ASSUME NEW p \in Processes, ReadOpen(p) PROVE RevisionInv'
  <2>1. /\ UNCHANGED <<open, journal, raced>>
        /\ pc'[p] \in {"idle", "create", "recheck"}
        /\ \A q \in Processes : q # p => /\ pc'[q] = pc[q]
                                         /\ call'[q] = call[q] /\ seen'[q] = seen[q]
    BY <1>3, ReadOpenFrame DEF files
  <2>2. \A rec \in Records : Written(rec)' => Written(rec)
    BY <2>1 DEF Written, Bears
  <2>3. \A q \in Processes \ {p} : Revising(q)' => Revising(q) /\ seen'[q] = seen[q]
    BY <2>1 DEF Revising
  <2>4. Revising(p)' =>
          open # None /\ open \in Records /\ seen'[p] \in Records /\ seen'[p].rev = open.rev + 1
    BY <1>3, ReadOpenSees, NoneIsNoRecord DEF Revising, TypeOK
  <2>5. \A rec \in Records, x \in Records : x.rev <= rec.rev => x.rev < rec.rev + 1
    BY ExpectationAssumption DEF Records, ExpectationAssumption
  <2> QED BY <2>1, <2>2, <2>3, <2>4, <2>5 DEF RevisionInv, RevisionsAgree
<1>4. ASSUME NEW p \in Processes, CreateClosed(p) PROVE RevisionInv'
  <2>1. /\ raced' = raced /\ journal' = journal /\ open' \in {open, None}
        /\ \A q \in Processes : Bears(q)' => Bears(q) /\ seen'[q] = seen[q]
        /\ \A q \in Processes : Revising(q)' => Revising(q) /\ seen'[q] = seen[q]
    BY <1>4 DEF CreateClosed, TypeOK, CallInv, Bears, Revising
  <2> QED BY <2>1, NothingWritten
<1>5. ASSUME NEW p \in Processes, FillClosed(p) PROVE RevisionInv'
  <2>1. /\ raced' = raced /\ journal' = journal /\ open' \in {open, None}
        /\ \A q \in Processes : Bears(q)' => Bears(q) /\ seen'[q] = seen[q]
        /\ \A q \in Processes : Revising(q)' => Revising(q) /\ seen'[q] = seen[q]
    BY <1>5 DEF FillClosed, TypeOK, CallInv, Bears, Revising
  <2> QED BY <2>1, NothingWritten
<1>6. ASSUME NEW p \in Processes, UnlinkOpen(p) PROVE RevisionInv'
  <2>1. /\ raced' = raced /\ journal' = journal /\ open' \in {open, None}
        /\ \A q \in Processes : Bears(q)' => Bears(q) /\ seen'[q] = seen[q]
        /\ \A q \in Processes : Revising(q)' => Revising(q) /\ seen'[q] = seen[q]
    BY <1>6 DEF UnlinkOpen, TypeOK, CallInv, Bears, Revising
  <2> QED BY <2>1, NothingWritten
<1>7. ASSUME NEW p \in Processes, Recheck(p) PROVE RevisionInv'
  <2>1. /\ raced' = raced /\ journal' = journal /\ open' \in {open, None}
        /\ \A q \in Processes : Bears(q)' => Bears(q) /\ seen'[q] = seen[q]
        /\ \A q \in Processes : Revising(q)' => Revising(q) /\ seen'[q] = seen[q]
    BY <1>7 DEF Recheck, TypeOK, CallInv, Bears, Revising
  <2> QED BY <2>1, NothingWritten
<1>8. ASSUME NEW p \in Processes, WriteOpen(p) PROVE RevisionInv'
  <2>1. CASE open' = open /\ raced' = raced /\ pc'[p] = "idle"
    <3>1. /\ raced' = raced /\ journal' = journal /\ open' \in {open, None}
          /\ \A q \in Processes : Bears(q)' => Bears(q) /\ seen'[q] = seen[q]
          /\ \A q \in Processes : Revising(q)' => Revising(q) /\ seen'[q] = seen[q]
      BY <1>8, <2>1 DEF WriteOpen, TypeOK, Bears, Revising
    <3> QED BY <3>1, NothingWritten
  <2>2. CASE pc'[p] = "recheckAfter"
    <3>1. /\ open' = seen[p] /\ seen[p] \in Records /\ UNCHANGED <<journal, call, seen>>
          /\ pc' = [pc EXCEPT ![p] = "recheckAfter"] /\ Revising(p)
          /\ (~raced' => ~raced /\ \A q \in Processes \ {p} : ~Revising(q))
      BY <1>8, <2>2, NoneIsNoRecord DEF WriteOpen, TypeOK, CallInv, Beyond, Labels, Revising
    <3>2. \A rec \in Records : Written(rec)' => Written(rec) \/ rec = seen[p]
      BY <3>1 DEF Written, Bears, TypeOK
    <3>3. \A q \in Processes : q # p => (Revising(q)' <=> Revising(q))
      BY <3>1 DEF Revising, TypeOK
    <3>4. ~Revising(p)'
      BY <3>1 DEF Revising, TypeOK
    <3>5. SUFFICES ASSUME ~raced' PROVE RevisionsAgree'
      BY DEF RevisionInv
    <3>6. \A rec \in Records : Written(rec) => rec.rev < seen[p].rev /\ rec # seen[p]
      BY <3>1, <3>5, ExpectationAssumption DEF RevisionInv, RevisionsAgree, Records,
        ExpectationAssumption
    <3>7. \A rec, x \in Records :
            (x.rev <= x.rev) /\ (x.rev < rec.rev => x.rev <= rec.rev /\ x.rev # rec.rev)
      BY ExpectationAssumption DEF Records, ExpectationAssumption
    <3>8. RevisionsAgree
      BY <3>1, <3>5 DEF RevisionInv
    <3> QED BY <3>1, <3>2, <3>3, <3>4, <3>5, <3>6, <3>7, <3>8 DEF RevisionsAgree
  <2> QED BY <1>8, <2>1, <2>2 DEF WriteOpen, TypeOK
<1>9. ASSUME NEW p \in Processes, RecheckAfter(p) PROVE RevisionInv'
  <2>1. /\ raced' = raced /\ journal' = journal /\ open' \in {open, None}
        /\ \A q \in Processes : Bears(q)' => Bears(q) /\ seen'[q] = seen[q]
        /\ \A q \in Processes : Revising(q)' => Revising(q) /\ seen'[q] = seen[q]
    BY <1>9 DEF RecheckAfter, TypeOK, CallInv, Bears, Revising
  <2> QED BY <2>1, NothingWritten
<1>10. ASSUME NEW p \in Processes, UnlinkZombie(p) PROVE RevisionInv'
  <2>1. /\ raced' = raced /\ journal' = journal /\ open' \in {open, None}
        /\ \A q \in Processes : Bears(q)' => Bears(q) /\ seen'[q] = seen[q]
        /\ \A q \in Processes : Revising(q)' => Revising(q) /\ seen'[q] = seen[q]
    BY <1>10 DEF UnlinkZombie, TypeOK, CallInv, Bears, Revising
  <2> QED BY <2>1, NothingWritten
<1>11. ASSUME NEW p \in Processes, ClaimLine(p) PROVE RevisionInv'
  <2>1. /\ raced' = raced /\ journal' = journal /\ open' \in {open, None}
        /\ \A q \in Processes : Bears(q)' => Bears(q) /\ seen'[q] = seen[q]
        /\ \A q \in Processes : Revising(q)' => Revising(q) /\ seen'[q] = seen[q]
    BY <1>11 DEF ClaimLine, TypeOK, CallInv, Bears, Revising
  <2> QED BY <2>1, NothingWritten
<1>12. ASSUME NEW p \in Processes, AppendLine(p) PROVE RevisionInv'
  <2>1. /\ UNCHANGED <<open, raced>> /\ pc[p] = "append" /\ pc'[p] = "idle"
        /\ journal' \in {journal, journal \cup {Line(p)}}
        /\ \A q \in Processes : q # p => /\ pc'[q] = pc[q]
                                         /\ call'[q] = call[q] /\ seen'[q] = seen[q]
    BY <1>12 DEF AppendLine, TypeOK
  <2>2. Line(p).event # "arrived" =>
          call[p] # "match" /\ [rev |-> Line(p).rev, deadline |-> Line(p).deadline] = seen[p]
    BY <2>1, KeyTypes DEF CallInv, Beyond, Labels, Records
  <2>3. \A rec \in Records : Written(rec)' => Written(rec)
    BY <2>1, <2>2 DEF Written, Bears
  <2>4. \A q \in Processes : Revising(q)' => Revising(q) /\ seen'[q] = seen[q]
    BY <2>1 DEF Revising
  <2> QED BY <2>1, <2>3, <2>4 DEF RevisionInv, RevisionsAgree
<1>13. ASSUME NEW p \in Processes, List(p) PROVE RevisionInv'
  <2>1. /\ open # None /\ UNCHANGED <<open, journal, raced>>
        /\ seen'[p] = open /\ pc'[p] = "claim" /\ call'[p] = "list"
        /\ \A q \in Processes : q # p => /\ pc'[q] = pc[q]
                                         /\ call'[q] = call[q] /\ seen'[q] = seen[q]
    BY <1>13 DEF List, Overdue, TypeOK
  <2>2. \A rec \in Records : Written(rec)' => Written(rec)
    BY <2>1 DEF Written, Bears
  <2>3. \A q \in Processes : Revising(q)' => Revising(q) /\ seen'[q] = seen[q]
    BY <2>1 DEF Revising
  <2> QED BY <2>1, <2>2, <2>3 DEF RevisionInv, RevisionsAgree
<1>14. ASSUME NEW p \in Processes, NEW r \in Replies, BeginMatch(p, r) PROVE RevisionInv'
  <2>1. /\ raced' = raced /\ journal' = journal /\ open' \in {open, None}
        /\ \A q \in Processes : Bears(q)' => Bears(q) /\ seen'[q] = seen[q]
        /\ \A q \in Processes : Revising(q)' => Revising(q) /\ seen'[q] = seen[q]
    BY <1>14 DEF BeginMatch, TypeOK, CallInv, Bears, Revising
  <2> QED BY <2>1, NothingWritten
<1>15. ASSUME NEW p \in Processes, BeginCancel(p) PROVE RevisionInv'
  <2>1. /\ raced' = raced /\ journal' = journal /\ open' \in {open, None}
        /\ \A q \in Processes : Bears(q)' => Bears(q) /\ seen'[q] = seen[q]
        /\ \A q \in Processes : Revising(q)' => Revising(q) /\ seen'[q] = seen[q]
    BY <1>15 DEF BeginCancel, TypeOK, CallInv, Bears, Revising
  <2> QED BY <2>1, NothingWritten
<1>16. ASSUME NEW p \in Processes, BeginUpdate(p) PROVE RevisionInv'
  <2>1. /\ raced' = raced /\ journal' = journal /\ open' \in {open, None}
        /\ \A q \in Processes : Bears(q)' => Bears(q) /\ seen'[q] = seen[q]
        /\ \A q \in Processes : Revising(q)' => Revising(q) /\ seen'[q] = seen[q]
    BY <1>16 DEF BeginUpdate, TypeOK, CallInv, Bears, Revising
  <2> QED BY <2>1, NothingWritten
<1>17. ASSUME NEW p \in Processes, Crash(p) PROVE RevisionInv'
  <2>1. /\ raced' = raced /\ journal' = journal /\ open' \in {open, None}
        /\ \A q \in Processes : Bears(q)' => Bears(q) /\ seen'[q] = seen[q]
        /\ \A q \in Processes : Revising(q)' => Revising(q) /\ seen'[q] = seen[q]
    BY <1>17 DEF Crash, TypeOK, CallInv, Bears, Revising
  <2> QED BY <2>1, NothingWritten
<1>18. ASSUME TimePasses PROVE RevisionInv'
  <2>1. UNCHANGED <<open, journal, raced, pc, call, seen>>
    BY <1>18 DEF TimePasses
  <2> QED BY <2>1 DEF RevisionInv, RevisionsAgree, Written, Bears, Revising
<1>19. CASE UNCHANGED expectationVars
  <2>1. UNCHANGED <<open, journal, raced, pc, call, seen>>
    BY <1>19 DEF expectationVars
  <2> QED BY <2>1 DEF RevisionInv, RevisionsAgree, Written, Bears, Revising
<1> QED BY <1>1, <1>2, <1>3, <1>4, <1>5, <1>6, <1>7, <1>8, <1>9, <1>10, <1>11, <1>12, <1>13,
      <1>14, <1>15, <1>16, <1>17, <1>18, <1>19 DEF ExpectationNext, CallStep, Consume

\* A reader of the journal alone is not misled.
THEOREM ExpectationJournalTrue == ExpectationSpec => []JournalTrue
<1> DEFINE JournalInv == LineInv /\ AppendInv /\ TimeoutInv /\ DeclareInv /\ RevisionInv
<1>1. ASSUME ExpectationInit PROVE JournalInv
  <2>1. \A rec \in Records : ~Written(rec)
    BY <1>1 DEF ExpectationInit, Written, Bears
  <2>2. RevisionInv
    BY <2>1 DEF RevisionInv, RevisionsAgree
  <2> QED BY <1>1, <2>2 DEF ExpectationInit, LineInv, AppendInv, TimeoutInv, DeclareInv
<1>2. CallsInv /\ CallsInv' /\ JournalInv /\ [ExpectationNext]_expectationVars => JournalInv'
  BY LineStep, TimeoutStep, DeclareStep, RevisionStep
<1>3. CallsInv /\ JournalInv => JournalTrue
  <2> SUFFICES ASSUME CallsInv, JournalInv, NEW l \in journal, NEW k \in journal
               PROVE  /\ l.event = k.event /\ l.rev = k.rev => l = k
                      /\ l.event = "timeout" =>
                           /\ l.deadline < now
                           /\ k.event = "set" /\ k.rev = l.rev => (k.deadline = l.deadline \/ raced)
    BY DEF JournalTrue
  <2>1. l.event = k.event /\ l.rev = k.rev => l = k
    BY DEF LineInv, KeyOf
  <2>2. l.event = "timeout" => l.deadline < now
    BY DEF TimeoutInv
  <2>3. ASSUME l.event = "timeout", k.event = "set", k.rev = l.rev, ~raced
        PROVE  k.deadline = l.deadline
    <3> DEFINE lr == [rev |-> l.rev, deadline |-> l.deadline]
               kr == [rev |-> k.rev, deadline |-> k.deadline]
    <3>1. lr \in Records /\ kr \in Records /\ lr.rev = kr.rev
      BY <2>3 DEF CallsInv, TypeOK, Lines, Records
    <3>2. Written(lr) /\ Written(kr)
      BY <2>3 DEF Written
    <3>3. lr = kr
      BY <2>3, <3>1, <3>2 DEF RevisionInv, RevisionsAgree
    <3> QED BY <3>3
  <2> QED BY <2>1, <2>2, <2>3
<1> QED BY <1>1, <1>2, <1>3, ExpectationCallsInv, PTL DEF ExpectationSpec

-----------------------------------------------------------------------------
(* At rest *)

\* Without a mishap, whatever is unfinished has a process that will finish it: a
\* torn closed record, a request that is neither open nor closed, an open file
\* beside a closed one, an update that has found the request closed,
ClosingUnderWay ==
  /\ closed = "torn" => \E p \in Processes : pc[p] = "fill"
  /\ closed = "none" => open # None \/ \E p \in Processes : pc[p] = "declare"
  /\ open # None /\ closed # "none" =>
       \E p \in Processes : pc[p] \in {"fill", "unlink", "recheckAfter", "unlinkZombie"}
  /\ \A p \in Processes : pc[p] = "unlinkZombie" => closed \in Final

\* a claimed line,
LinesUnderWay ==
  \A key \in claims :
    \/ \E l \in journal : KeyOf(l) = key
    \/ \E p \in Processes : pc[p] = "append" /\ Key(p) = key

\* and an unclaimed one.
SetUnderWay ==
  open # None =>
    \/ [event |-> "set", rev |-> open.rev] \in claims
    \/ \E p \in Processes :
         \/ pc[p] = "unlinkZombie"
         \/ /\ pc[p] \in {"recheckAfter", "claim"} /\ call[p] \in {"declare", "update"}
            /\ seen[p].rev = open.rev

ArrivalUnderWay ==
  closed = "arrived" =>
    \/ [event |-> "arrived", rev |-> 0] \in claims
    \/ \E p \in Processes : pc[p] \in {"unlink", "claim"} /\ call[p] = "match"

\* A step of p: the other calls stay as they are.
Others(p) ==
  \A q \in Processes : q # p => pc'[q] = pc[q] /\ call'[q] = call[q] /\ seen'[q] = seen[q]

\* Only crashes and I/O errors are counted.
LEMMA MishapsStep ==
  ASSUME CallsInv, [ExpectationNext]_expectationVars, mishaps' = 0
  PROVE  mishaps = 0
<1> USE DEF CallsInv, TypeOK
<1>1. ASSUME NEW p \in Processes, Declare(p) PROVE mishaps = 0
  BY <1>1 DEF Declare
<1>2. ASSUME NEW p \in Processes, ReadClosed(p) PROVE mishaps = 0
  BY <1>2 DEF ReadClosed
<1>3. ASSUME NEW p \in Processes, ReadOpen(p) PROVE mishaps = 0
  BY <1>3 DEF ReadOpen
<1>4. ASSUME NEW p \in Processes, CreateClosed(p) PROVE mishaps = 0
  BY <1>4 DEF CreateClosed
<1>5. ASSUME NEW p \in Processes, FillClosed(p) PROVE mishaps = 0
  BY <1>5 DEF FillClosed
<1>6. ASSUME NEW p \in Processes, UnlinkOpen(p) PROVE mishaps = 0
  BY <1>6 DEF UnlinkOpen
<1>7. ASSUME NEW p \in Processes, Recheck(p) PROVE mishaps = 0
  BY <1>7 DEF Recheck
<1>8. ASSUME NEW p \in Processes, WriteOpen(p) PROVE mishaps = 0
  BY <1>8 DEF WriteOpen
<1>9. ASSUME NEW p \in Processes, RecheckAfter(p) PROVE mishaps = 0
  BY <1>9 DEF RecheckAfter
<1>10. ASSUME NEW p \in Processes, UnlinkZombie(p) PROVE mishaps = 0
  BY <1>10 DEF UnlinkZombie
<1>11. ASSUME NEW p \in Processes, ClaimLine(p) PROVE mishaps = 0
  BY <1>11 DEF ClaimLine
<1>12. ASSUME NEW p \in Processes, AppendLine(p) PROVE mishaps = 0
  BY <1>12 DEF AppendLine
<1>13. ASSUME NEW p \in Processes, List(p) PROVE mishaps = 0
  BY <1>13 DEF List
<1>14. ASSUME NEW p \in Processes, NEW r \in Replies, BeginMatch(p, r) PROVE mishaps = 0
  BY <1>14 DEF BeginMatch
<1>15. ASSUME NEW p \in Processes, BeginCancel(p) PROVE mishaps = 0
  BY <1>15 DEF BeginCancel
<1>16. ASSUME NEW p \in Processes, BeginUpdate(p) PROVE mishaps = 0
  BY <1>16 DEF BeginUpdate
<1>17. ASSUME NEW p \in Processes, Crash(p) PROVE mishaps = 0
  BY <1>17 DEF Crash
<1>18. ASSUME TimePasses PROVE mishaps = 0
  BY <1>18 DEF TimePasses
<1>19. CASE UNCHANGED expectationVars
  BY <1>19 DEF expectationVars
<1> QED BY <1>1, <1>2, <1>3, <1>4, <1>5, <1>6, <1>7, <1>8, <1>9, <1>10, <1>11, <1>12, <1>13,
      <1>14, <1>15, <1>16, <1>17, <1>18, <1>19 DEF ExpectationNext, CallStep, Consume

\* Every step without a mishap keeps them.
LEMMA ClosingUnderWayStep ==
  ASSUME CallsInv, ClosingInv, DeclareInv, ClosingUnderWay, [ExpectationNext]_expectationVars,
    mishaps' = 0
  PROVE  ClosingUnderWay'
<1> mishaps = 0
  BY MishapsStep
<1> USE DEF CallsInv, TypeOK, ClosingUnderWay
<1>1. ASSUME NEW p \in Processes, Declare(p) PROVE ClosingUnderWay'
  <2>1. CASE pc'[p] = "claim"
    <3>1. open' \in Records /\ closed' = closed /\ Others(p) /\ pc[p] = "declare"
      BY <1>1, <2>1, ExpectationAssumption DEF Declare, Others, Records, ExpectationAssumption
    <3>2. closed = "none"
      BY <3>1 DEF DeclareInv
    <3> QED BY <2>1, <3>1, <3>2, NoneIsNoRecord DEF Others
  <2> QED BY <1>1, <2>1 DEF Declare
<1>2. ASSUME NEW p \in Processes, ReadClosed(p) PROVE ClosingUnderWay'
  BY <1>2 DEF ReadClosed, Final
<1>3. ASSUME NEW p \in Processes, ReadOpen(p) PROVE ClosingUnderWay'
  <2>1. UNCHANGED <<open, closed>> /\ Others(p) /\ pc[p] = "readOpen" /\ pc'[p] # "unlinkZombie"
    BY <1>3, ReadOpenFrame DEF ReadOpen, Others, files
  <2> QED BY <2>1 DEF Others
<1>4. ASSUME NEW p \in Processes, CreateClosed(p) PROVE ClosingUnderWay'
  BY <1>4 DEF CreateClosed, Final
<1>5. ASSUME NEW p \in Processes, FillClosed(p) PROVE ClosingUnderWay'
  BY <1>5 DEF FillClosed, Final
<1>6. ASSUME NEW p \in Processes, UnlinkOpen(p) PROVE ClosingUnderWay'
  <2>1. open' = None /\ closed' = closed /\ closed \in Final /\ Others(p)
        /\ pc'[p] \in {"claim", "idle"}
    BY <1>6 DEF UnlinkOpen, ClosingInv, Final, Others
  <2> QED BY <2>1 DEF Others, Final
<1>7. ASSUME NEW p \in Processes, Recheck(p) PROVE ClosingUnderWay'
  BY <1>7 DEF Recheck, Final
<1>8. ASSUME NEW p \in Processes, WriteOpen(p) PROVE ClosingUnderWay'
  <2>1. /\ pc[p] = "write" /\ pc'[p] = "recheckAfter" /\ closed' = closed /\ open' = seen[p]
        /\ seen[p] \in Records /\ Others(p)
    BY <1>8 DEF WriteOpen, CallInv, Beyond, Labels, Others
  <2> QED BY <2>1, NoneIsNoRecord DEF Others
<1>9. ASSUME NEW p \in Processes, RecheckAfter(p) PROVE ClosingUnderWay'
  <2>1. /\ pc[p] = "recheckAfter" /\ UNCHANGED <<open, closed>> /\ Others(p)
        /\ pc'[p] = IF closed \in Final THEN "unlinkZombie" ELSE "claim"
    BY <1>9 DEF RecheckAfter, Readable, Others
  <2>2. CASE closed \in Final
    BY <2>1, <2>2 DEF Others, Final
  <2>3. CASE closed \notin Final
    BY <2>1, <2>3 DEF Others, Final
  <2> QED BY <2>2, <2>3
<1>10. ASSUME NEW p \in Processes, UnlinkZombie(p) PROVE ClosingUnderWay'
  <2>1. /\ pc[p] = "unlinkZombie" /\ pc'[p] = "idle" /\ closed' = closed /\ open' = None
        /\ closed \in Final /\ Others(p)
    BY <1>10 DEF UnlinkZombie, Others
  <2> QED BY <2>1 DEF Others, Final
<1>11. ASSUME NEW p \in Processes, ClaimLine(p) PROVE ClosingUnderWay'
  BY <1>11 DEF ClaimLine, Final
<1>12. ASSUME NEW p \in Processes, AppendLine(p) PROVE ClosingUnderWay'
  BY <1>12 DEF AppendLine, Final
<1>13. ASSUME NEW p \in Processes, List(p) PROVE ClosingUnderWay'
  BY <1>13 DEF List, Final
<1>14. ASSUME NEW p \in Processes, NEW r \in Replies, BeginMatch(p, r) PROVE ClosingUnderWay'
  BY <1>14 DEF BeginMatch, Final
<1>15. ASSUME NEW p \in Processes, BeginCancel(p) PROVE ClosingUnderWay'
  BY <1>15 DEF BeginCancel, Final
<1>16. ASSUME NEW p \in Processes, BeginUpdate(p) PROVE ClosingUnderWay'
  BY <1>16 DEF BeginUpdate, Final
<1>17. ASSUME NEW p \in Processes, Crash(p) PROVE ClosingUnderWay'
  BY <1>17 DEF Crash, Final
<1>18. ASSUME TimePasses PROVE ClosingUnderWay'
  BY <1>18 DEF TimePasses, Final
<1>19. CASE UNCHANGED expectationVars
  BY <1>19 DEF expectationVars
<1> QED BY <1>1, <1>2, <1>3, <1>4, <1>5, <1>6, <1>7, <1>8, <1>9, <1>10, <1>11, <1>12, <1>13,
      <1>14, <1>15, <1>16, <1>17, <1>18, <1>19 DEF ExpectationNext, CallStep, Consume

LEMMA LinesUnderWayStep ==
  ASSUME CallsInv, LinesUnderWay, [ExpectationNext]_expectationVars, mishaps' = 0
  PROVE  LinesUnderWay'
<1> mishaps = 0
  BY MishapsStep
<1> USE DEF CallsInv, TypeOK
<1>1. ASSUME NEW p \in Processes, Declare(p) PROVE LinesUnderWay'
  <2>1. /\ UNCHANGED <<claims, journal>> /\ Others(p) /\ pc[p] # "append"
    BY <1>1 DEF Declare, Others
  <2>2. \A q \in Processes : pc[q] = "append" => pc'[q] = "append" /\ Key(q)' = Key(q)
    BY <2>1, KeyFrame DEF Others
  <2> QED BY <2>1, <2>2 DEF LinesUnderWay
<1>2. ASSUME NEW p \in Processes, ReadClosed(p) PROVE LinesUnderWay'
  <2>1. /\ UNCHANGED <<claims, journal>> /\ Others(p) /\ pc[p] # "append"
    BY <1>2 DEF ReadClosed, Others
  <2>2. \A q \in Processes : pc[q] = "append" => pc'[q] = "append" /\ Key(q)' = Key(q)
    BY <2>1, KeyFrame DEF Others
  <2> QED BY <2>1, <2>2 DEF LinesUnderWay
<1>3. ASSUME NEW p \in Processes, ReadOpen(p) PROVE LinesUnderWay'
  <2>1. /\ UNCHANGED <<claims, journal>> /\ Others(p) /\ pc[p] # "append"
    BY <1>3, ReadOpenFrame DEF ReadOpen, Others, files
  <2>2. \A q \in Processes : pc[q] = "append" => pc'[q] = "append" /\ Key(q)' = Key(q)
    BY <2>1, KeyFrame DEF Others
  <2> QED BY <2>1, <2>2 DEF LinesUnderWay
<1>4. ASSUME NEW p \in Processes, CreateClosed(p) PROVE LinesUnderWay'
  <2>1. /\ UNCHANGED <<claims, journal>> /\ Others(p) /\ pc[p] # "append"
    BY <1>4 DEF CreateClosed, Others
  <2>2. \A q \in Processes : pc[q] = "append" => pc'[q] = "append" /\ Key(q)' = Key(q)
    BY <2>1, KeyFrame DEF Others
  <2> QED BY <2>1, <2>2 DEF LinesUnderWay
<1>5. ASSUME NEW p \in Processes, FillClosed(p) PROVE LinesUnderWay'
  <2>1. /\ UNCHANGED <<claims, journal>> /\ Others(p) /\ pc[p] # "append"
    BY <1>5 DEF FillClosed, Others
  <2>2. \A q \in Processes : pc[q] = "append" => pc'[q] = "append" /\ Key(q)' = Key(q)
    BY <2>1, KeyFrame DEF Others
  <2> QED BY <2>1, <2>2 DEF LinesUnderWay
<1>6. ASSUME NEW p \in Processes, UnlinkOpen(p) PROVE LinesUnderWay'
  <2>1. /\ UNCHANGED <<claims, journal>> /\ Others(p) /\ pc[p] # "append"
    BY <1>6 DEF UnlinkOpen, Others
  <2>2. \A q \in Processes : pc[q] = "append" => pc'[q] = "append" /\ Key(q)' = Key(q)
    BY <2>1, KeyFrame DEF Others
  <2> QED BY <2>1, <2>2 DEF LinesUnderWay
<1>7. ASSUME NEW p \in Processes, Recheck(p) PROVE LinesUnderWay'
  <2>1. /\ UNCHANGED <<claims, journal>> /\ Others(p) /\ pc[p] # "append"
    BY <1>7 DEF Recheck, Others
  <2>2. \A q \in Processes : pc[q] = "append" => pc'[q] = "append" /\ Key(q)' = Key(q)
    BY <2>1, KeyFrame DEF Others
  <2> QED BY <2>1, <2>2 DEF LinesUnderWay
<1>8. ASSUME NEW p \in Processes, WriteOpen(p) PROVE LinesUnderWay'
  <2>1. /\ UNCHANGED <<claims, journal>> /\ Others(p) /\ pc[p] # "append"
    BY <1>8 DEF WriteOpen, Others
  <2>2. \A q \in Processes : pc[q] = "append" => pc'[q] = "append" /\ Key(q)' = Key(q)
    BY <2>1, KeyFrame DEF Others
  <2> QED BY <2>1, <2>2 DEF LinesUnderWay
<1>9. ASSUME NEW p \in Processes, RecheckAfter(p) PROVE LinesUnderWay'
  <2>1. /\ UNCHANGED <<claims, journal>> /\ Others(p) /\ pc[p] # "append"
    BY <1>9 DEF RecheckAfter, Others
  <2>2. \A q \in Processes : pc[q] = "append" => pc'[q] = "append" /\ Key(q)' = Key(q)
    BY <2>1, KeyFrame DEF Others
  <2> QED BY <2>1, <2>2 DEF LinesUnderWay
<1>10. ASSUME NEW p \in Processes, UnlinkZombie(p) PROVE LinesUnderWay'
  <2>1. /\ UNCHANGED <<claims, journal>> /\ Others(p) /\ pc[p] # "append"
    BY <1>10 DEF UnlinkZombie, Others
  <2>2. \A q \in Processes : pc[q] = "append" => pc'[q] = "append" /\ Key(q)' = Key(q)
    BY <2>1, KeyFrame DEF Others
  <2> QED BY <2>1, <2>2 DEF LinesUnderWay
<1>11. ASSUME NEW p \in Processes, ClaimLine(p) PROVE LinesUnderWay'
  <2>1. /\ Others(p) /\ pc[p] = "claim" /\ journal' = journal
        /\ \/ claims' = claims
           \/ /\ claims' = claims \cup {Key(p)} /\ pc'[p] = "append"
              /\ call'[p] = call[p] /\ seen'[p] = seen[p]
    BY <1>11 DEF ClaimLine, Others
  <2>2. \A q \in Processes : pc[q] = "append" => pc'[q] = "append" /\ Key(q)' = Key(q)
    BY <2>1, KeyFrame DEF Others
  <2>3. \/ claims' = claims
        \/ (claims' = claims \cup {Key(p)} /\ pc'[p] = "append" /\ Key(p)' = Key(p))
    BY <2>1, KeyFrame
  <2> QED BY <2>1, <2>2, <2>3 DEF LinesUnderWay
<1>12. ASSUME NEW p \in Processes, AppendLine(p) PROVE LinesUnderWay'
  <2>1. /\ UNCHANGED claims /\ Others(p) /\ journal' = journal \cup {Line(p)}
    BY <1>12 DEF AppendLine, Others
  <2>2. \A q \in Processes : q # p /\ pc[q] = "append" => pc'[q] = "append" /\ Key(q)' = Key(q)
    BY <2>1, KeyFrame DEF Others
  <2>3. KeyOf(Line(p)) = Key(p)
    BY KeyOfLine
  <2> QED BY <2>1, <2>2, <2>3 DEF LinesUnderWay
<1>13. ASSUME NEW p \in Processes, List(p) PROVE LinesUnderWay'
  <2>1. /\ UNCHANGED <<claims, journal>> /\ Others(p) /\ pc[p] # "append"
    BY <1>13 DEF List, Others
  <2>2. \A q \in Processes : pc[q] = "append" => pc'[q] = "append" /\ Key(q)' = Key(q)
    BY <2>1, KeyFrame DEF Others
  <2> QED BY <2>1, <2>2 DEF LinesUnderWay
<1>14. ASSUME NEW p \in Processes, NEW r \in Replies, BeginMatch(p, r) PROVE LinesUnderWay'
  <2>1. /\ UNCHANGED <<claims, journal>> /\ Others(p) /\ pc[p] # "append"
    BY <1>14 DEF BeginMatch, Others
  <2>2. \A q \in Processes : pc[q] = "append" => pc'[q] = "append" /\ Key(q)' = Key(q)
    BY <2>1, KeyFrame DEF Others
  <2> QED BY <2>1, <2>2 DEF LinesUnderWay
<1>15. ASSUME NEW p \in Processes, BeginCancel(p) PROVE LinesUnderWay'
  <2>1. /\ UNCHANGED <<claims, journal>> /\ Others(p) /\ pc[p] # "append"
    BY <1>15 DEF BeginCancel, Others
  <2>2. \A q \in Processes : pc[q] = "append" => pc'[q] = "append" /\ Key(q)' = Key(q)
    BY <2>1, KeyFrame DEF Others
  <2> QED BY <2>1, <2>2 DEF LinesUnderWay
<1>16. ASSUME NEW p \in Processes, BeginUpdate(p) PROVE LinesUnderWay'
  <2>1. /\ UNCHANGED <<claims, journal>> /\ Others(p) /\ pc[p] # "append"
    BY <1>16 DEF BeginUpdate, Others
  <2>2. \A q \in Processes : pc[q] = "append" => pc'[q] = "append" /\ Key(q)' = Key(q)
    BY <2>1, KeyFrame DEF Others
  <2> QED BY <2>1, <2>2 DEF LinesUnderWay
<1>17. ASSUME NEW p \in Processes, Crash(p) PROVE LinesUnderWay'
  BY <1>17 DEF Crash
<1>18. ASSUME TimePasses PROVE LinesUnderWay'
  <2>1. UNCHANGED <<claims, journal, pc, call, seen>>
    BY <1>18 DEF TimePasses
  <2>2. \A q \in Processes : Key(q)' = Key(q)
    BY <2>1, KeyFrame
  <2> QED BY <2>1, <2>2 DEF LinesUnderWay
<1>19. CASE UNCHANGED expectationVars
  <2>1. UNCHANGED <<claims, journal, pc, call, seen>>
    BY <1>19 DEF expectationVars
  <2>2. \A q \in Processes : Key(q)' = Key(q)
    BY <2>1, KeyFrame
  <2> QED BY <2>1, <2>2 DEF LinesUnderWay
<1> QED BY <1>1, <1>2, <1>3, <1>4, <1>5, <1>6, <1>7, <1>8, <1>9, <1>10, <1>11, <1>12, <1>13,
      <1>14, <1>15, <1>16, <1>17, <1>18, <1>19 DEF ExpectationNext, CallStep, Consume

LEMMA SetUnderWayStep ==
  ASSUME CallsInv, SetUnderWay, [ExpectationNext]_expectationVars, mishaps' = 0
  PROVE  SetUnderWay'
<1> mishaps = 0
  BY MishapsStep
<1> USE DEF CallsInv, TypeOK, CallInv, SetUnderWay
<1>1. ASSUME NEW p \in Processes, Declare(p) PROVE SetUnderWay'
  BY <1>1 DEF Declare
<1>2. ASSUME NEW p \in Processes, ReadClosed(p) PROVE SetUnderWay'
  BY <1>2 DEF ReadClosed
<1>3. ASSUME NEW p \in Processes, ReadOpen(p) PROVE SetUnderWay'
  <2>1. UNCHANGED <<open, claims>> /\ Others(p) /\ pc[p] = "readOpen"
    BY <1>3, ReadOpenFrame DEF ReadOpen, Others, files
  <2> QED BY <2>1 DEF Others
<1>4. ASSUME NEW p \in Processes, CreateClosed(p) PROVE SetUnderWay'
  BY <1>4 DEF CreateClosed
<1>5. ASSUME NEW p \in Processes, FillClosed(p) PROVE SetUnderWay'
  BY <1>5 DEF FillClosed
<1>6. ASSUME NEW p \in Processes, UnlinkOpen(p) PROVE SetUnderWay'
  BY <1>6 DEF UnlinkOpen
<1>7. ASSUME NEW p \in Processes, Recheck(p) PROVE SetUnderWay'
  BY <1>7 DEF Recheck
<1>8. ASSUME NEW p \in Processes, WriteOpen(p) PROVE SetUnderWay'
  BY <1>8 DEF WriteOpen
<1>9. ASSUME NEW p \in Processes, RecheckAfter(p) PROVE SetUnderWay'
  BY <1>9 DEF RecheckAfter
<1>10. ASSUME NEW p \in Processes, UnlinkZombie(p) PROVE SetUnderWay'
  BY <1>10 DEF UnlinkZombie
<1>11. ASSUME NEW p \in Processes, ClaimLine(p) PROVE SetUnderWay'
  <2>1. call[p] \in {"declare", "update"} => Key(p) = [event |-> "set", rev |-> seen[p].rev]
    BY DEF Key, Event
  <2> QED BY <1>11, <2>1 DEF ClaimLine
<1>12. ASSUME NEW p \in Processes, AppendLine(p) PROVE SetUnderWay'
  BY <1>12 DEF AppendLine
<1>13. ASSUME NEW p \in Processes, List(p) PROVE SetUnderWay'
  BY <1>13 DEF List
<1>14. ASSUME NEW p \in Processes, NEW r \in Replies, BeginMatch(p, r) PROVE SetUnderWay'
  BY <1>14 DEF BeginMatch
<1>15. ASSUME NEW p \in Processes, BeginCancel(p) PROVE SetUnderWay'
  BY <1>15 DEF BeginCancel
<1>16. ASSUME NEW p \in Processes, BeginUpdate(p) PROVE SetUnderWay'
  BY <1>16 DEF BeginUpdate
<1>17. ASSUME NEW p \in Processes, Crash(p) PROVE SetUnderWay'
  BY <1>17 DEF Crash
<1>18. ASSUME TimePasses PROVE SetUnderWay'
  BY <1>18 DEF TimePasses
<1>19. CASE UNCHANGED expectationVars
  BY <1>19 DEF expectationVars
<1> QED BY <1>1, <1>2, <1>3, <1>4, <1>5, <1>6, <1>7, <1>8, <1>9, <1>10, <1>11, <1>12, <1>13,
      <1>14, <1>15, <1>16, <1>17, <1>18, <1>19 DEF ExpectationNext, CallStep, Consume

LEMMA ArrivalUnderWayStep ==
  ASSUME CallsInv, ClosingInv, ArrivalUnderWay, [ExpectationNext]_expectationVars, mishaps' = 0
  PROVE  ArrivalUnderWay'
<1> mishaps = 0
  BY MishapsStep
<1> USE DEF CallsInv, TypeOK, CallInv, ArrivalUnderWay
<1>1. ASSUME NEW p \in Processes, Declare(p) PROVE ArrivalUnderWay'
  BY <1>1 DEF Declare
<1>2. ASSUME NEW p \in Processes, ReadClosed(p) PROVE ArrivalUnderWay'
  BY <1>2 DEF ReadClosed
<1>3. ASSUME NEW p \in Processes, ReadOpen(p) PROVE ArrivalUnderWay'
  BY <1>3 DEF ReadOpen
<1>4. ASSUME NEW p \in Processes, CreateClosed(p) PROVE ArrivalUnderWay'
  BY <1>4 DEF CreateClosed
<1>5. ASSUME NEW p \in Processes, FillClosed(p) PROVE ArrivalUnderWay'
  BY <1>5 DEF FillClosed
<1>6. ASSUME NEW p \in Processes, UnlinkOpen(p) PROVE ArrivalUnderWay'
  BY <1>6 DEF UnlinkOpen
<1>7. ASSUME NEW p \in Processes, Recheck(p) PROVE ArrivalUnderWay'
  BY <1>7 DEF Recheck
<1>8. ASSUME NEW p \in Processes, WriteOpen(p) PROVE ArrivalUnderWay'
  BY <1>8 DEF WriteOpen
<1>9. ASSUME NEW p \in Processes, RecheckAfter(p) PROVE ArrivalUnderWay'
  BY <1>9 DEF RecheckAfter
<1>10. ASSUME NEW p \in Processes, UnlinkZombie(p) PROVE ArrivalUnderWay'
  BY <1>10 DEF UnlinkZombie
<1>11. ASSUME NEW p \in Processes, ClaimLine(p) PROVE ArrivalUnderWay'
  <2>1. call[p] = "match" => Key(p) = [event |-> "arrived", rev |-> 0]
    BY DEF Key, Event
  <2> QED BY <1>11, <2>1 DEF ClaimLine
<1>12. ASSUME NEW p \in Processes, AppendLine(p) PROVE ArrivalUnderWay'
  BY <1>12 DEF AppendLine
<1>13. ASSUME NEW p \in Processes, List(p) PROVE ArrivalUnderWay'
  BY <1>13 DEF List
<1>14. ASSUME NEW p \in Processes, NEW r \in Replies, BeginMatch(p, r) PROVE ArrivalUnderWay'
  BY <1>14 DEF BeginMatch
<1>15. ASSUME NEW p \in Processes, BeginCancel(p) PROVE ArrivalUnderWay'
  BY <1>15 DEF BeginCancel
<1>16. ASSUME NEW p \in Processes, BeginUpdate(p) PROVE ArrivalUnderWay'
  BY <1>16 DEF BeginUpdate
<1>17. ASSUME NEW p \in Processes, Crash(p) PROVE ArrivalUnderWay'
  BY <1>17 DEF Crash
<1>18. ASSUME TimePasses PROVE ArrivalUnderWay'
  BY <1>18 DEF TimePasses
<1>19. CASE UNCHANGED expectationVars
  BY <1>19 DEF expectationVars
<1> QED BY <1>1, <1>2, <1>3, <1>4, <1>5, <1>6, <1>7, <1>8, <1>9, <1>10, <1>11, <1>12, <1>13,
      <1>14, <1>15, <1>16, <1>17, <1>18, <1>19 DEF ExpectationNext, CallStep, Consume

\* Without a crash or an I/O error the files agree as soon as no call is under way.
THEOREM ExpectationAtRestAgree == ExpectationSpec => []AtRestAgree
<1> DEFINE UnderWay == ClosingUnderWay /\ LinesUnderWay /\ SetUnderWay /\ ArrivalUnderWay
           RestInv == ClosingInv /\ WinnerInv /\ DeclareInv /\ (mishaps = 0 => UnderWay)
<1>1. ExpectationInit => RestInv
  BY ExpectationAssumption DEF ExpectationInit, ClosingInv, Closing, WinnerInv, DeclareInv,
    ClosingUnderWay,
     LinesUnderWay, SetUnderWay, ArrivalUnderWay, ExpectationAssumption
<1>2. CallsInv /\ RestInv /\ [ExpectationNext]_expectationVars => RestInv'
  BY MishapsStep, ClosingStep, WinnerStep, DeclareStep, ClosingUnderWayStep, LinesUnderWayStep,
    SetUnderWayStep,
     ArrivalUnderWayStep
<1>3. RestInv => AtRestAgree
  BY DEF AtRestAgree, ClosingUnderWay, LinesUnderWay, SetUnderWay, ArrivalUnderWay, KeyOf
<1> QED BY <1>1, <1>2, <1>3, ExpectationCallsInv, PTL DEF ExpectationSpec
==============================================================================
