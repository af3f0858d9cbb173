--------------------------- MODULE Wakeups_proofs ---------------------------
(***************************************************************************)
(* What wakes an agent: the loops over letters, then the timers.           *)
(*                                                                         *)
(* Waking, for every set of sessions and letters, for both loops and for   *)
(* every bound: its types, that only an abandoned tick makes a letter be   *)
(* acknowledged unread, and in how many prompts a letter is.               *)
(*                                                                         *)
(* Timers, for every set of main sessions and every bound: the types, how  *)
(* often a round of a timer is sent, that an answered cancellation holds,  *)
(* and that a fired timer was sent.                                        *)
(***************************************************************************)
EXTENDS WakeDelivery, Timers, FiniteSetTheorems, TLAPS

USE DEF Goto, EndTick, Counters, Fault, Abandon, Lose

-----------------------------------------------------------------------------
(* Types *)

\* Every step keeps the types.
LEMMA TypeStep ==
  ASSUME TypeOK, [WakeNext]_wakeVars
  PROVE  TypeOK'
<1> USE WakeAssumption DEF TypeOK, LetterFiles, WakeAssumption
<1>1. ASSUME RestBegins PROVE TypeOK'
  BY <1>1 DEF RestBegins
<1>2. ASSUME RestEnds PROVE TypeOK'
  BY <1>2 DEF RestEnds
<1>3. ASSUME NEW l \in Letters, Deliver(l) PROVE TypeOK'
  BY <1>3 DEF Deliver
<1>4. ASSUME NEW l \in Letters, ClaimGrowsOld(l) PROVE TypeOK'
  BY <1>4 DEF ClaimGrowsOld
<1>5. ASSUME NEW s \in Sessions, Tick(s) PROVE TypeOK'
  BY <1>5 DEF Tick, Wanted, Claimable, Pending, StaleClaimed
<1>6. ASSUME NEW s \in Sessions, ReadLetters(s) PROVE TypeOK'
  <2>1. CASE listed[s] \cap Claimable # {}
    <3> DEFINE taken == listed[s] \cap Claimable
    <3>1. taken \in SUBSET Letters
      OBVIOUS
    <3>2. /\ batch' = [batch EXCEPT ![s] = taken] /\ todo' = [todo EXCEPT ![s] = taken]
          /\ pc' = [pc EXCEPT ![s] = "claim"] /\ listed' = listed
      BY <1>6, <2>1 DEF ReadLetters
    <3> HIDE DEF taken
    <3> QED BY <1>6, <3>1, <3>2 DEF ReadLetters
  <2>2. CASE listed[s] \cap Claimable = {}
    BY <1>6, <2>2 DEF ReadLetters
  <2> QED BY <2>1, <2>2
<1>7. ASSUME NEW s \in Sessions, Spawn(s) PROVE TypeOK'
  BY <1>7 DEF Spawn
<1>8. ASSUME NEW s \in Sessions, SpawnFails(s) PROVE TypeOK'
  <2>1. Left(s) \subseteq Letters
    BY DEF Left
  <2>2. abandoned' \subseteq Letters
    BY <1>8, <2>1 DEF SpawnFails
  <2> QED BY <1>8, <2>2 DEF SpawnFails
<1>9. ASSUME NEW s \in Sessions, WriteWakeState(s) PROVE TypeOK'
  BY <1>9 DEF WriteWakeState
<1>10. ASSUME NEW s \in Sessions, NEW l \in Letters, ClaimLetter(s, l) PROVE TypeOK'
  BY <1>10 DEF ClaimLetter
<1>11. ASSUME NEW s \in Sessions, NEW l \in Letters, AckClaimedBy(s, l) PROVE TypeOK'
  <2>1. letter' \in [Letters -> LetterFiles]
    BY <1>11 DEF AckClaimedBy
  <2>2. \A k \in Letters : letter'[k].status \in {"none", "pending"} <=> letter'[k].by = NoSession
    BY <1>11 DEF AckClaimedBy
  <2>3. /\ pc' \in [Sessions -> {"idle", "read", "claim", "spawn", "state", "ack"}]
        /\ listed' \in [Sessions -> SUBSET Letters]
        /\ batch' \in [Sessions -> SUBSET Letters]
        /\ todo' \in [Sessions -> SUBSET Letters]
    <3>1. CASE todo[s] = {l}
      BY <1>11, <3>1 DEF AckClaimedBy
    <3>2. CASE todo[s] # {l}
      BY <1>11, <3>2 DEF AckClaimedBy
    <3> QED BY <3>1, <3>2
  <2> QED BY <2>1, <2>2, <2>3, <1>11 DEF AckClaimedBy
<1>12. ASSUME NEW s \in Sessions, OwnerMoves(s) PROVE TypeOK'
  BY <1>12 DEF OwnerMoves
<1>13. ASSUME NEW s \in Sessions, Restart(s) PROVE TypeOK'
  BY <1>13 DEF Restart
<1>14. ASSUME NEW s \in Sessions, Crash(s) PROVE TypeOK'
  <2>1. Left(s) \subseteq Letters
    BY DEF Left
  <2>2. lost' \in [Letters -> Nat]
    BY <1>14 DEF Crash
  <2>3. abandoned' \subseteq Letters
    BY <1>14, <2>1 DEF Crash
  <2> QED BY <1>14, <2>2, <2>3 DEF Crash
<1>15. ASSUME NEW s \in Sessions, ClaimFails(s) PROVE TypeOK'
  <2>1. Left(s) \subseteq Letters
    BY DEF Left
  <2>2. abandoned' \subseteq Letters
    BY <1>15, <2>1 DEF ClaimFails
  <2> QED BY <1>15, <2>2 DEF ClaimFails
<1>16. ASSUME NEW s \in Sessions, WakeStateFails(s) PROVE TypeOK'
  BY <1>16 DEF WakeStateFails
<1>17. ASSUME NEW s \in Sessions, NEW l \in Letters, AckFails(s, l) PROVE TypeOK'
  <2>1. lost' \in [Letters -> Nat]
    BY <1>17 DEF AckFails
  <2>2. /\ pc' \in [Sessions -> {"idle", "read", "claim", "spawn", "state", "ack"}]
        /\ listed' \in [Sessions -> SUBSET Letters]
        /\ batch' \in [Sessions -> SUBSET Letters]
        /\ todo' \in [Sessions -> SUBSET Letters]
    <3>1. CASE todo[s] = {l}
      <4>1. EndTick(s)
        BY <1>17, <3>1 DEF AckFails
      <4> QED BY <4>1
    <3>2. CASE todo[s] # {l}
      <4>1. todo' = [todo EXCEPT ![s] = @ \ {l}] /\ UNCHANGED <<pc, listed, batch>>
        BY <1>17, <3>2 DEF AckFails
      <4> QED BY <4>1
    <3> QED BY <3>1, <3>2
  <2>3. failures' \in Nat /\ UNCHANGED <<letter, owner, ticking, resting, prompts, abandoned>>
    BY <1>17 DEF AckFails
  <2> QED BY <1>17, <2>1, <2>2, <2>3 DEF AckFails
<1>18. CASE UNCHANGED wakeVars
  BY <1>18 DEF wakeVars
<1> QED BY <1>1, <1>2, <1>3, <1>4, <1>5, <1>6, <1>7, <1>8, <1>9, <1>10, <1>11, <1>12, <1>13,
      <1>14, <1>15, <1>16, <1>17, <1>18 DEF WakeNext, TickStep

\* The values stay in their types: a letter's file names a claimer exactly when
\* the letter is claimed or acknowledged.
THEOREM WakeTypeOK == WakeSpec => []TypeOK
<1>1. ASSUME WakeInit PROVE TypeOK
  <2>1. NoLetter \in LetterFiles
    BY DEF NoLetter, LetterFiles
  <2>2. letter \in [Letters -> LetterFiles] /\ \A l \in Letters : letter[l] = NoLetter
    BY <1>1, <2>1 DEF WakeInit
  <2>3. ticking \in [Sessions -> BOOLEAN]
    BY <1>1 DEF WakeInit
  <2>4. lost \in [Letters -> Nat] /\ abandoned \subseteq Letters
    BY <1>1 DEF WakeInit
  <2>5. /\ prompts \in [Letters -> Nat]
        /\ crashes \in Nat /\ failures \in Nat /\ moves \in Nat /\ rests \in Nat
    BY <1>1 DEF WakeInit
  <2>6. /\ pc \in [Sessions -> {"idle", "read", "claim", "spawn", "state", "ack"}]
        /\ listed \in [Sessions -> SUBSET Letters]
        /\ batch \in [Sessions -> SUBSET Letters]
        /\ todo \in [Sessions -> SUBSET Letters]
    BY <1>1 DEF WakeInit
  <2>7. \A l \in Letters : letter[l].status \in {"none", "pending"} <=> letter[l].by = NoSession
    BY <2>2 DEF NoLetter
  <2> QED BY <1>1, <2>2, <2>3, <2>4, <2>5, <2>6, <2>7 DEF WakeInit, TypeOK
<1>2. TypeOK /\ [WakeNext]_wakeVars => TypeOK'
  BY TypeStep
<1> QED BY <1>1, <1>2, PTL DEF WakeSpec

-----------------------------------------------------------------------------
(* The locals of a tick *)

\* What a tick's locals hold at each of its steps.
Locals ==
  \A s \in Sessions :
    /\ pc[s] = "idle" => listed[s] = {}
    /\ pc[s] \in {"idle", "read"} => batch[s] = {}
    /\ pc[s] \in {"idle", "read", "spawn", "state"} => todo[s] = {}
    /\ pc[s] = "claim" => todo[s] \subseteq batch[s]

\* Every step keeps them.
LEMMA LocalsStep ==
  ASSUME TypeOK, Locals, [WakeNext]_wakeVars
  PROVE  Locals'
<1> USE DEF TypeOK, Locals
<1>1. ASSUME RestBegins PROVE Locals'
  BY <1>1 DEF RestBegins
<1>2. ASSUME RestEnds PROVE Locals'
  BY <1>2 DEF RestEnds
<1>3. ASSUME NEW l \in Letters, Deliver(l) PROVE Locals'
  BY <1>3 DEF Deliver
<1>4. ASSUME NEW l \in Letters, ClaimGrowsOld(l) PROVE Locals'
  BY <1>4 DEF ClaimGrowsOld
<1>5. ASSUME NEW s \in Sessions, Tick(s) PROVE Locals'
  BY <1>5 DEF Tick
<1>6. ASSUME NEW s \in Sessions, ReadLetters(s) PROVE Locals'
  BY <1>6 DEF ReadLetters
<1>7. ASSUME NEW s \in Sessions, Spawn(s) PROVE Locals'
  BY <1>7 DEF Spawn
<1>8. ASSUME NEW s \in Sessions, SpawnFails(s) PROVE Locals'
  BY <1>8 DEF SpawnFails
<1>9. ASSUME NEW s \in Sessions, WriteWakeState(s) PROVE Locals'
  BY <1>9 DEF WriteWakeState
<1>10. ASSUME NEW s \in Sessions, NEW l \in Letters, ClaimLetter(s, l) PROVE Locals'
  BY <1>10 DEF ClaimLetter
<1>11. ASSUME NEW s \in Sessions, NEW l \in Letters, AckClaimedBy(s, l) PROVE Locals'
  BY <1>11 DEF AckClaimedBy
<1>12. ASSUME NEW s \in Sessions, OwnerMoves(s) PROVE Locals'
  BY <1>12 DEF OwnerMoves
<1>13. ASSUME NEW s \in Sessions, Restart(s) PROVE Locals'
  BY <1>13 DEF Restart
<1>14. ASSUME NEW s \in Sessions, Crash(s) PROVE Locals'
  BY <1>14 DEF Crash
<1>15. ASSUME NEW s \in Sessions, ClaimFails(s) PROVE Locals'
  BY <1>15 DEF ClaimFails
<1>16. ASSUME NEW s \in Sessions, WakeStateFails(s) PROVE Locals'
  BY <1>16 DEF WakeStateFails
<1>17. ASSUME NEW s \in Sessions, NEW l \in Letters, AckFails(s, l) PROVE Locals'
  BY <1>17 DEF AckFails
<1>18. CASE UNCHANGED wakeVars
  BY <1>18 DEF wakeVars
<1> QED BY <1>1, <1>2, <1>3, <1>4, <1>5, <1>6, <1>7, <1>8, <1>9, <1>10, <1>11, <1>12, <1>13,
      <1>14, <1>15, <1>16, <1>17, <1>18 DEF WakeNext, TickStep

-----------------------------------------------------------------------------
(* Acknowledged means read *)

\* A letter that is acknowledged was in a prompt, and one that is claimed was, or
\* its claimer's tick is about to put it in one, or some tick abandoned it.
Read(l) ==
  \/ l \in abandoned
  \/ letter[l].status \in {"none", "pending"}
  \/ letter[l].status \in {"claimed", "acked"} /\ prompts[l] > 0
  \/ /\ letter[l].status = "claimed"
     /\ pc[letter[l].by] \in {"claim", "spawn"} /\ l \in batch[letter[l].by]

ReadInv == \A l \in Letters : Read(l)

\* Every step keeps it.
LEMMA ReadStep ==
  ASSUME TypeOK, TypeOK', Locals, ReadInv, [WakeNext]_wakeVars
  PROVE  ReadInv'
<1> USE DEF TypeOK, LetterFiles, ReadInv, Read, Locals
<1>1. ASSUME RestBegins PROVE ReadInv'
  BY <1>1 DEF RestBegins
<1>2. ASSUME RestEnds PROVE ReadInv'
  BY <1>2 DEF RestEnds
<1>3. ASSUME NEW l \in Letters, Deliver(l) PROVE ReadInv'
  BY <1>3 DEF Deliver
<1>4. ASSUME NEW l \in Letters, ClaimGrowsOld(l) PROVE ReadInv'
  BY <1>4 DEF ClaimGrowsOld
<1>5. ASSUME NEW s \in Sessions, Tick(s) PROVE ReadInv'
  BY <1>5 DEF Tick
<1>6. ASSUME NEW s \in Sessions, ReadLetters(s) PROVE ReadInv'
  <2>1. UNCHANGED <<letter, prompts, abandoned>>
    BY <1>6 DEF ReadLetters
  <2>2. \A t \in Sessions : t # s => pc'[t] = pc[t] /\ batch'[t] = batch[t]
    BY <1>6 DEF ReadLetters
  <2>3. pc[s] = "read"
    BY <1>6 DEF ReadLetters
  <2> QED BY <2>1, <2>2, <2>3 DEF LetterFiles
<1>7. ASSUME NEW s \in Sessions, Spawn(s) PROVE ReadInv'
  BY <1>7 DEF Spawn
<1>8. ASSUME NEW s \in Sessions, SpawnFails(s) PROVE ReadInv'
  BY <1>8 DEF SpawnFails, Left
<1>9. ASSUME NEW s \in Sessions, WriteWakeState(s) PROVE ReadInv'
  BY <1>9 DEF WriteWakeState
<1>10. ASSUME NEW s \in Sessions, NEW l \in Letters, ClaimLetter(s, l) PROVE ReadInv'
  BY <1>10 DEF ClaimLetter
<1>11. ASSUME NEW s \in Sessions, NEW l \in Letters, AckClaimedBy(s, l) PROVE ReadInv'
  <2>1. UNCHANGED <<prompts, abandoned>>
    BY <1>11 DEF AckClaimedBy
  <2>2. ASSUME NEW k \in Letters PROVE Read(k)'
    <3>1. letter'[k] = letter[k] \/ (letter[k].status = "claimed" /\ letter[k].by = s)
      BY <1>11 DEF AckClaimedBy
    <3>2. letter'[k].by = letter[k].by /\ letter'[k].status \in {letter[k].status, "acked"}
      BY <1>11 DEF AckClaimedBy, LetterFiles
    <3>3. \A t \in Sessions : t # s => pc'[t] = pc[t] /\ batch'[t] = batch[t]
      BY <1>11 DEF AckClaimedBy
    <3>4. pc[s] = "ack"
      BY <1>11 DEF AckClaimedBy
    <3>5. Read(k)
      BY DEF ReadInv
    <3> HIDE DEF Locals, ReadInv
    <3> QED BY <2>1, <3>1, <3>2, <3>3, <3>4, <3>5 DEF LetterFiles
  <2> QED BY <2>1, <2>2
<1>12. ASSUME NEW s \in Sessions, OwnerMoves(s) PROVE ReadInv'
  BY <1>12 DEF OwnerMoves
<1>13. ASSUME NEW s \in Sessions, Restart(s) PROVE ReadInv'
  BY <1>13 DEF Restart
<1>14. ASSUME NEW s \in Sessions, Crash(s) PROVE ReadInv'
  BY <1>14 DEF Crash, Left
<1>15. ASSUME NEW s \in Sessions, ClaimFails(s) PROVE ReadInv'
  BY <1>15 DEF ClaimFails, Left
<1>16. ASSUME NEW s \in Sessions, WakeStateFails(s) PROVE ReadInv'
  BY <1>16 DEF WakeStateFails, Left
<1>17. ASSUME NEW s \in Sessions, NEW l \in Letters, AckFails(s, l) PROVE ReadInv'
  BY <1>17 DEF AckFails, Left
<1>18. CASE UNCHANGED wakeVars
  BY <1>18 DEF wakeVars
<1> QED BY <1>1, <1>2, <1>3, <1>4, <1>5, <1>6, <1>7, <1>8, <1>9, <1>10, <1>11, <1>12, <1>13,
      <1>14, <1>15, <1>16, <1>17, <1>18 DEF WakeNext, TickStep

\* Only a letter that a failed or crashed tick left claimed before its prompt is
\* ever acknowledged unread.
THEOREM WakeUnreadOnlyIfAbandoned == WakeSpec => []UnreadOnlyIfAbandoned
<1>1. WakeInit => Locals /\ ReadInv
  BY DEF WakeInit, Locals, ReadInv, Read, NoLetter
<1>2. TypeOK /\ TypeOK' /\ Locals /\ ReadInv /\ [WakeNext]_wakeVars => Locals' /\ ReadInv'
  BY LocalsStep, ReadStep
<1>3. ReadInv => UnreadOnlyIfAbandoned
  BY DEF ReadInv, Read, UnreadOnlyIfAbandoned
<1> QED BY <1>1, <1>2, <1>3, WakeTypeOK, PTL DEF WakeSpec

-----------------------------------------------------------------------------
(* A letter's prompts *)

\* The tick of s may still put l in a prompt: l is in its batch, or in the list
\* it has not compared with the files yet.
Carries(s, l) == pc[s] \in {"claim", "spawn"} /\ l \in batch[s]
Holds(s, l) == Carries(s, l) \/ (pc[s] = "read" /\ l \in listed[s])

\* The sessions that the address has left and that may.
Former(l) == {s \in Sessions : s # owner /\ Holds(s, l)}

\* The owner's next tick may take l: it is not claimed, the claim is old, or it
\* may grow old because no running tick will see it through.
Free(l) ==
  \/ letter[l].status \in {"none", "pending"}
  \/ /\ letter[l].status = "claimed"
     /\ \/ letter[l].old
        \/ l \notin batch[letter[l].by]
        \/ pc[letter[l].by] = "ack" /\ l \notin todo[letter[l].by]

One(P) == IF P THEN 1 ELSE 0

\* The prompts that the owner may still cause: one as long as it is about to
\* claim l itself, otherwise that of its batch and that of its next tick.
Due(l) ==
  IF pc[owner] = "claim" /\ l \in todo[owner]
  THEN 1
  ELSE One(Carries(owner, l)) + One(Free(l))

\* The prompts that there were and those that may follow.
TokenInv ==
  \A l \in Letters :
    /\ IsFiniteSet(Former(l))
    /\ prompts[l] + Cardinality(Former(l)) + Due(l) <= 1 + lost[l] + moves

\* One tick takes a step: the others' holds stay, and its own it can only lose.
LEMMA FormerStep ==
  ASSUME NEW s \in Sessions, NEW k \in Letters, IsFiniteSet(Former(k)),
         owner' = owner,
         \A t \in Sessions \ {s} : Holds(t, k)' <=> Holds(t, k),
         s = owner \/ (Holds(s, k)' => Holds(s, k))
  PROVE  /\ IsFiniteSet(Former(k)') /\ Cardinality(Former(k)') \in Nat
         /\ Cardinality(Former(k)) \in Nat
         /\ Cardinality(Former(k)') = Cardinality(Former(k))
              - One(s # owner /\ Holds(s, k) /\ ~Holds(s, k)')
<1>1. CASE s # owner /\ Holds(s, k) /\ ~Holds(s, k)'
  <2>1. Former(k)' = Former(k) \ {s} /\ s \in Former(k)
    BY <1>1 DEF Former
  <2> QED BY <2>1, <1>1, FS_RemoveElement, FS_CardinalityType DEF One
<1>2. CASE ~(s # owner /\ Holds(s, k) /\ ~Holds(s, k)')
  <2>1. Former(k)' = Former(k)
    BY <1>2 DEF Former
  <2> QED BY <2>1, <1>2, FS_CardinalityType DEF One
<1> QED BY <1>1, <1>2

\* The address moves: the old owner's hold now counts, the new owner's no more.
LEMMA FormerMoves ==
  ASSUME NEW s \in Sessions, NEW k \in Letters, IsFiniteSet(Former(k)),
         owner \in Sessions, s # owner, owner' = s,
         \A t \in Sessions : Holds(t, k)' <=> Holds(t, k)
  PROVE  /\ IsFiniteSet(Former(k)') /\ Cardinality(Former(k)') \in Nat
         /\ Cardinality(Former(k)) \in Nat
         /\ Cardinality(Former(k)') = Cardinality(Former(k))
              + One(Holds(owner, k)) - One(Holds(s, k))
<1> DEFINE kept == Former(k) \ {s}
<1>1. IsFiniteSet(kept) /\ Cardinality(kept) \in Nat /\ Cardinality(Former(k)) \in Nat
      /\ Cardinality(kept) = Cardinality(Former(k)) - One(Holds(s, k))
  <2>1. IsFiniteSet(kept) /\ Cardinality(kept) \in Nat /\ Cardinality(Former(k)) \in Nat
    BY FS_RemoveElement, FS_CardinalityType
  <2>2. s \in Former(k) <=> Holds(s, k)
    BY DEF Former
  <2>3. Cardinality(kept) =
          IF s \in Former(k) THEN Cardinality(Former(k)) - 1 ELSE Cardinality(Former(k))
    BY FS_RemoveElement
  <2> QED BY <2>1, <2>2, <2>3 DEF One
<1>2. owner \notin kept
  BY DEF Former
<1>3. CASE Holds(owner, k)
  <2>1. Former(k)' = kept \cup {owner}
    BY <1>3 DEF Former
  <2> QED BY <2>1, <1>1, <1>2, <1>3, FS_AddElement, FS_CardinalityType DEF One
<1>4. CASE ~Holds(owner, k)
  <2>1. Former(k)' = kept
    BY <1>4 DEF Former
  <2> QED BY <2>1, <1>1, <1>4 DEF One
<1> QED BY <1>3, <1>4

\* Every step keeps the account.
LEMMA TokenStep ==
  ASSUME TypeOK, TypeOK', Locals, Locals', TokenInv, [WakeNext]_wakeVars
  PROVE  TokenInv'
<1> USE DEF TypeOK, LetterFiles
<1> DEFINE Kept(k) == /\ IsFiniteSet(Former(k)')
                      /\ prompts'[k] + Cardinality(Former(k)') + Due(k)' <= 1 + lost'[k] + moves'
<1>1. ASSUME RestBegins PROVE TokenInv'
  <2> SUFFICES ASSUME NEW k \in Letters PROVE Kept(k)
    BY DEF TokenInv
  <2>1. Former(k)' = Former(k) /\ Cardinality(Former(k)) \in Nat
    BY <1>1, FS_CardinalityType DEF Former, RestBegins, Holds, Carries, Locals, TokenInv
  <2> QED BY <2>1, <1>1 DEF RestBegins, Due, Free, Holds, Carries, One, Locals, TokenInv
<1>2. ASSUME RestEnds PROVE TokenInv'
  <2> SUFFICES ASSUME NEW k \in Letters PROVE Kept(k)
    BY DEF TokenInv
  <2>1. Former(k)' = Former(k) /\ Cardinality(Former(k)) \in Nat
    BY <1>2, FS_CardinalityType DEF Former, RestEnds, Holds, Carries, Locals, TokenInv
  <2> QED BY <2>1, <1>2 DEF RestEnds, Due, Free, Holds, Carries, One, Locals, TokenInv
<1>3. ASSUME NEW l \in Letters, Deliver(l) PROVE TokenInv'
  <2> SUFFICES ASSUME NEW k \in Letters PROVE Kept(k)
    BY DEF TokenInv
  <2>1. Former(k)' = Former(k) /\ Cardinality(Former(k)) \in Nat
    BY <1>3, FS_CardinalityType DEF Former, Deliver, Holds, Carries, Locals, TokenInv
  <2> QED BY <2>1, <1>3 DEF Deliver, Due, Free, Holds, Carries, One, Locals, TokenInv
<1>4. ASSUME NEW l \in Letters, ClaimGrowsOld(l) PROVE TokenInv'
  <2> SUFFICES ASSUME NEW k \in Letters PROVE Kept(k)
    BY DEF TokenInv
  <2>1. Former(k)' = Former(k) /\ Cardinality(Former(k)) \in Nat
    BY <1>4, FS_CardinalityType DEF Former, ClaimGrowsOld, Holds, Carries, Locals, TokenInv
  <2> QED BY <2>1, <1>4 DEF ClaimGrowsOld, Due, Free, Holds, Carries, One, Locals, TokenInv
<1>5. ASSUME NEW s \in Sessions, Tick(s) PROVE TokenInv'
  <2> SUFFICES ASSUME NEW k \in Letters PROVE Kept(k)
    BY DEF TokenInv
  <2>1. /\ IsFiniteSet(Former(k)') /\ Cardinality(Former(k)') \in Nat
        /\ Cardinality(Former(k)) \in Nat
        /\ Cardinality(Former(k)') = Cardinality(Former(k))
             - One(s # owner /\ Holds(s, k) /\ ~Holds(s, k)')
    BY <1>5, FormerStep DEF Tick, Holds, Carries, Locals, TokenInv
  <2> QED BY <2>1, <1>5 DEF Tick, Due, Free, Holds, Carries, One, Locals, TokenInv
<1>6. ASSUME NEW s \in Sessions, ReadLetters(s) PROVE TokenInv'
  <2> SUFFICES ASSUME NEW k \in Letters PROVE Kept(k)
    BY DEF TokenInv
  <2>1. /\ pc[s] = "read" /\ UNCHANGED <<letter, owner, prompts, lost, moves>>
        /\ \A t \in Sessions : t # s => /\ pc'[t] = pc[t] /\ listed'[t] = listed[t]
                                        /\ batch'[t] = batch[t] /\ todo'[t] = todo[t]
    BY <1>6 DEF ReadLetters
  <2>2. \/ pc'[s] = "idle"
        \/ /\ pc'[s] = "claim"
           /\ batch'[s] = listed[s] \cap Claimable /\ todo'[s] = batch'[s]
    <3> DEFINE taken == listed[s] \cap Claimable
    <3>1. CASE taken # {}
      <4>1. /\ batch' = [batch EXCEPT ![s] = taken] /\ todo' = [todo EXCEPT ![s] = taken]
            /\ pc' = [pc EXCEPT ![s] = "claim"]
        BY <1>6, <3>1 DEF ReadLetters
      <4> QED BY <4>1
    <3>2. CASE taken = {}
      BY <1>6, <3>2 DEF ReadLetters
    <3> QED BY <3>1, <3>2
  <2>3. k \in Claimable => Free(k)
    BY DEF Claimable, Pending, StaleClaimed, Free
  <2>4. Free(k)' => Free(k)
    BY <2>1, <2>2 DEF Free, Locals
  <2>5. Holds(s, k)' => Holds(s, k)
    BY <2>1, <2>2 DEF Holds, Carries
  <2>6. \A t \in Sessions \ {s} : Holds(t, k)' <=> Holds(t, k)
    BY <2>1 DEF Holds, Carries
  <2>7. /\ IsFiniteSet(Former(k)') /\ Cardinality(Former(k)') \in Nat
        /\ Cardinality(Former(k)) \in Nat
        /\ Cardinality(Former(k)') <= Cardinality(Former(k))
    BY <2>1, <2>5, <2>6, FormerStep DEF TokenInv, One
  <2>8. Due(k)' <= Due(k) /\ Due(k) \in Nat /\ Due(k)' \in Nat
    BY <2>1, <2>2, <2>3, <2>4 DEF Due, Carries, One
  <2> QED BY <2>1, <2>7, <2>8 DEF TokenInv
<1>7. ASSUME NEW s \in Sessions, Spawn(s) PROVE TokenInv'
  <2> SUFFICES ASSUME NEW k \in Letters PROVE Kept(k)
    BY DEF TokenInv
  <2>1. /\ IsFiniteSet(Former(k)') /\ Cardinality(Former(k)') \in Nat
        /\ Cardinality(Former(k)) \in Nat
        /\ Cardinality(Former(k)') = Cardinality(Former(k))
             - One(s # owner /\ Holds(s, k) /\ ~Holds(s, k)')
    BY <1>7, FormerStep DEF Spawn, Holds, Carries, Locals, TokenInv
  <2> QED BY <2>1, <1>7 DEF Spawn, Due, Free, Holds, Carries, One, Locals, TokenInv
<1>8. ASSUME NEW s \in Sessions, SpawnFails(s) PROVE TokenInv'
  <2> SUFFICES ASSUME NEW k \in Letters PROVE Kept(k)
    BY DEF TokenInv
  <2>1. /\ IsFiniteSet(Former(k)') /\ Cardinality(Former(k)') \in Nat
        /\ Cardinality(Former(k)) \in Nat
        /\ Cardinality(Former(k)') = Cardinality(Former(k))
             - One(s # owner /\ Holds(s, k) /\ ~Holds(s, k)')
    BY <1>8, FormerStep DEF SpawnFails, Holds, Carries, Locals, TokenInv
  <2> QED BY <2>1, <1>8 DEF SpawnFails, Left, Due, Free, Holds, Carries, One, Locals, TokenInv
<1>9. ASSUME NEW s \in Sessions, WriteWakeState(s) PROVE TokenInv'
  <2> SUFFICES ASSUME NEW k \in Letters PROVE Kept(k)
    BY DEF TokenInv
  <2>1. /\ IsFiniteSet(Former(k)') /\ Cardinality(Former(k)') \in Nat
        /\ Cardinality(Former(k)) \in Nat
        /\ Cardinality(Former(k)') = Cardinality(Former(k))
             - One(s # owner /\ Holds(s, k) /\ ~Holds(s, k)')
    BY <1>9, FormerStep DEF WriteWakeState, Holds, Carries, Locals, TokenInv
  <2> QED BY <2>1, <1>9 DEF WriteWakeState, Due, Free, Holds, Carries, One, Locals, TokenInv
<1>10. ASSUME NEW s \in Sessions, NEW l \in Letters, ClaimLetter(s, l) PROVE TokenInv'
  <2> SUFFICES ASSUME NEW k \in Letters PROVE Kept(k)
    BY DEF TokenInv
  <2>1. /\ IsFiniteSet(Former(k)') /\ Cardinality(Former(k)') \in Nat
        /\ Cardinality(Former(k)) \in Nat
        /\ Cardinality(Former(k)') = Cardinality(Former(k))
             - One(s # owner /\ Holds(s, k) /\ ~Holds(s, k)')
    BY <1>10, FormerStep DEF ClaimLetter, Holds, Carries, Locals, TokenInv
  <2> QED BY <2>1, <1>10 DEF ClaimLetter, Due, Free, Holds, Carries, One, Locals, TokenInv
<1>11. ASSUME NEW s \in Sessions, NEW l \in Letters, AckClaimedBy(s, l) PROVE TokenInv'
  <2> SUFFICES ASSUME NEW k \in Letters PROVE Kept(k)
    BY DEF TokenInv
  <2>1. /\ pc[s] = "ack" /\ UNCHANGED <<owner, prompts, lost, moves>>
        /\ pc'[s] \in {"idle", "ack"}
        /\ \A t \in Sessions : t # s => /\ pc'[t] = pc[t] /\ listed'[t] = listed[t]
                                        /\ batch'[t] = batch[t] /\ todo'[t] = todo[t]
    <3>1. pc[s] = "ack" /\ UNCHANGED <<owner, prompts, lost, moves>>
      BY <1>11 DEF AckClaimedBy
    <3>2. CASE todo[s] = {l}
      BY <1>11, <3>1, <3>2 DEF AckClaimedBy
    <3>3. CASE todo[s] # {l}
      <4>1. todo' = [todo EXCEPT ![s] = @ \ {l}] /\ UNCHANGED <<pc, listed, batch>>
        BY <1>11, <3>3 DEF AckClaimedBy
      <4> QED BY <3>1, <4>1
    <3> QED BY <3>2, <3>3
  <2>2. Former(k)' = Former(k) /\ IsFiniteSet(Former(k)) /\ Cardinality(Former(k)) \in Nat
    <3>1. \A t \in Sessions : Holds(t, k)' <=> Holds(t, k)
      BY <2>1 DEF Holds, Carries
    <3>2. Former(k)' = Former(k)
      BY <2>1, <3>1 DEF Former
    <3> QED BY <3>2, FS_CardinalityType DEF TokenInv
  <2>3. Free(k)' => Free(k)
    <3>1. CASE todo[s] = {l}
      BY <1>11, <2>1, <3>1 DEF AckClaimedBy, Free
    <3>2. CASE todo[s] # {l}
      BY <1>11, <2>1, <3>2 DEF AckClaimedBy, Free
    <3> QED BY <3>1, <3>2
  <2>4. Due(k)' <= Due(k) /\ Due(k) \in Nat /\ Due(k)' \in Nat
    BY <2>1, <2>3 DEF Due, Carries, One
  <2> QED BY <2>1, <2>2, <2>4 DEF TokenInv
<1>12. ASSUME NEW s \in Sessions, OwnerMoves(s) PROVE TokenInv'
  <2> SUFFICES ASSUME NEW k \in Letters PROVE Kept(k)
    BY DEF TokenInv
  <2>1. /\ IsFiniteSet(Former(k)') /\ Cardinality(Former(k)') \in Nat
        /\ Cardinality(Former(k)) \in Nat
        /\ Cardinality(Former(k)') = Cardinality(Former(k))
             + One(Holds(owner, k)) - One(Holds(s, k))
    BY <1>12, FormerMoves DEF OwnerMoves, Holds, Carries, Locals, TokenInv
  <2> QED BY <2>1, <1>12 DEF OwnerMoves, Due, Free, Holds, Carries, One, Locals, TokenInv
<1>13. ASSUME NEW s \in Sessions, Restart(s) PROVE TokenInv'
  <2> SUFFICES ASSUME NEW k \in Letters PROVE Kept(k)
    BY DEF TokenInv
  <2>1. Former(k)' = Former(k) /\ Cardinality(Former(k)) \in Nat
    BY <1>13, FS_CardinalityType DEF Former, Restart, Holds, Carries, Locals, TokenInv
  <2> QED BY <2>1, <1>13 DEF Restart, Due, Free, Holds, Carries, One, Locals, TokenInv
<1>14. ASSUME NEW s \in Sessions, Crash(s) PROVE TokenInv'
  <2> SUFFICES ASSUME NEW k \in Letters PROVE Kept(k)
    BY DEF TokenInv
  <2>1. /\ IsFiniteSet(Former(k)') /\ Cardinality(Former(k)') \in Nat
        /\ Cardinality(Former(k)) \in Nat
        /\ Cardinality(Former(k)') = Cardinality(Former(k))
             - One(s # owner /\ Holds(s, k) /\ ~Holds(s, k)')
    BY <1>14, FormerStep DEF Crash, Holds, Carries, Locals, TokenInv
  <2> QED BY <2>1, <1>14 DEF Crash, Left, Due, Free, Holds, Carries, One, Locals, TokenInv
<1>15. ASSUME NEW s \in Sessions, ClaimFails(s) PROVE TokenInv'
  <2> SUFFICES ASSUME NEW k \in Letters PROVE Kept(k)
    BY DEF TokenInv
  <2>1. /\ IsFiniteSet(Former(k)') /\ Cardinality(Former(k)') \in Nat
        /\ Cardinality(Former(k)) \in Nat
        /\ Cardinality(Former(k)') = Cardinality(Former(k))
             - One(s # owner /\ Holds(s, k) /\ ~Holds(s, k)')
    BY <1>15, FormerStep DEF ClaimFails, Holds, Carries, Locals, TokenInv
  <2> QED BY <2>1, <1>15 DEF ClaimFails, Left, Due, Free, Holds, Carries, One, Locals, TokenInv
<1>16. ASSUME NEW s \in Sessions, WakeStateFails(s) PROVE TokenInv'
  <2> SUFFICES ASSUME NEW k \in Letters PROVE Kept(k)
    BY DEF TokenInv
  <2>1. /\ IsFiniteSet(Former(k)') /\ Cardinality(Former(k)') \in Nat
        /\ Cardinality(Former(k)) \in Nat
        /\ Cardinality(Former(k)') = Cardinality(Former(k))
             - One(s # owner /\ Holds(s, k) /\ ~Holds(s, k)')
    BY <1>16, FormerStep DEF WakeStateFails, Holds, Carries, Locals, TokenInv
  <2> QED BY <2>1, <1>16 DEF WakeStateFails, Left, Due, Free, Holds, Carries, One, Locals, TokenInv
<1>17. ASSUME NEW s \in Sessions, NEW l \in Letters, AckFails(s, l) PROVE TokenInv'
  <2> SUFFICES ASSUME NEW k \in Letters PROVE Kept(k)
    BY DEF TokenInv
  <2>1. /\ IsFiniteSet(Former(k)') /\ Cardinality(Former(k)') \in Nat
        /\ Cardinality(Former(k)) \in Nat
        /\ Cardinality(Former(k)') = Cardinality(Former(k))
             - One(s # owner /\ Holds(s, k) /\ ~Holds(s, k)')
    BY <1>17, FormerStep DEF AckFails, Holds, Carries, Locals, TokenInv
  <2> QED BY <2>1, <1>17 DEF AckFails, Left, Due, Free, Holds, Carries, One, Locals, TokenInv
<1>18. CASE UNCHANGED wakeVars
  <2> SUFFICES ASSUME NEW k \in Letters PROVE Kept(k)
    BY DEF TokenInv
  <2>1. Former(k)' = Former(k) /\ Cardinality(Former(k)) \in Nat
    BY <1>18, FS_CardinalityType DEF Former, wakeVars, Holds, Carries, Locals, TokenInv
  <2> QED BY <2>1, <1>18 DEF wakeVars, Due, Free, Holds, Carries, One, Locals, TokenInv
<1> QED BY <1>1, <1>2, <1>3, <1>4, <1>5, <1>6, <1>7, <1>8, <1>9, <1>10, <1>11, <1>12, <1>13,
      <1>14, <1>15, <1>16, <1>17, <1>18 DEF WakeNext, TickStep

\* A letter is in one prompt, and in one more for each change of owner and for
\* each tick that prompted it and then left it claimed.
THEOREM WakePromptsAccounted == WakeSpec => []PromptsAccounted
<1>1. WakeInit => Locals /\ TokenInv
  <2> SUFFICES ASSUME WakeInit PROVE Locals /\ TokenInv
    OBVIOUS
  <2>1. Locals
    BY DEF WakeInit, Locals, NoLetter
  <2>2. ASSUME NEW l \in Letters PROVE Former(l) = {} /\ Due(l) = 1
    BY DEF WakeInit, Former, Holds, Carries, Due, Free, One, NoLetter
  <2> QED BY <2>1, <2>2, FS_EmptySet DEF TokenInv, WakeInit
<1>2. TypeOK /\ TypeOK' /\ Locals /\ TokenInv /\ [WakeNext]_wakeVars
      => Locals' /\ TokenInv'
  BY LocalsStep, TokenStep
<1>3. TypeOK /\ TokenInv => PromptsAccounted
  <2> SUFFICES ASSUME TypeOK, TokenInv, NEW l \in Letters PROVE prompts[l] <= 1 + lost[l] + moves
    BY DEF PromptsAccounted
  <2>1. Cardinality(Former(l)) \in Nat /\ Due(l) \in Nat
    BY FS_CardinalityType DEF TokenInv, Due, One
  <2> QED BY <2>1 DEF TokenInv, TypeOK
<1> QED BY <1>1, <1>2, <1>3, WakeTypeOK, PTL DEF WakeSpec

-----------------------------------------------------------------------------
(* Timers: sizes *)

USE DEF StepTo, Begin, End, Idle, Unworldly, Unwritten, history, IsPending

\* A part of a finite set is finite, and no larger.
LEMMA SizeOfPart ==
  ASSUME NEW S, IsFiniteSet(S), NEW T, T \subseteq S
  PROVE  /\ IsFiniteSet(T)
         /\ Cardinality(T) \in Nat /\ Cardinality(S) \in Nat
         /\ Cardinality(T) <= Cardinality(S)
<1>1. T \in SUBSET S
  OBVIOUS
<1> QED BY <1>1, FS_Subset, FS_CardinalityType

\* What two finite sets hold together is no more than both.
LEMMA SizeOfUnion ==
  ASSUME NEW S, IsFiniteSet(S), NEW T, IsFiniteSet(T), NEW U, U \subseteq S \cup T
  PROVE  /\ IsFiniteSet(U)
         /\ Cardinality(U) \in Nat /\ Cardinality(S) \in Nat /\ Cardinality(T) \in Nat
         /\ Cardinality(U) <= Cardinality(S) + Cardinality(T)
<1>1. IsFiniteSet(S \cup T) /\ IsFiniteSet(S \cap T)
  BY FS_Union, FS_Intersection
<1>2. /\ Cardinality(S \cup T) = Cardinality(S) + Cardinality(T) - Cardinality(S \cap T)
      /\ Cardinality(S) \in Nat /\ Cardinality(T) \in Nat /\ Cardinality(S \cap T) \in Nat
  BY <1>1, FS_Union, FS_CardinalityType
<1>3. Cardinality(U) \in Nat /\ Cardinality(U) <= Cardinality(S \cup T) /\ IsFiniteSet(U)
  BY <1>1, SizeOfPart
<1> QED BY <1>2, <1>3

\* One element more at most.
LEMMA SizeOfAdded ==
  ASSUME NEW S, IsFiniteSet(S), NEW x, NEW U, U \subseteq S \cup {x}
  PROVE  /\ IsFiniteSet(U)
         /\ Cardinality(U) \in Nat /\ Cardinality(S) \in Nat
         /\ Cardinality(U) <= Cardinality(S) + 1
<1>1. IsFiniteSet({x}) /\ Cardinality({x}) = 1
  BY FS_Singleton
<1> QED BY <1>1, SizeOfUnion

\* Every step of a timer keeps the types.
LEMMA TimerTypeStep ==
  ASSUME TimerTypeOK, [TimersNext]_timerVars
  PROVE  TimerTypeOK'
<1> USE TimerAssumption DEF TimerTypeOK, TimerAssumption, Labels
<1>r. NoTimer \in Timers
  BY DEF NoTimer, Timers, Rounds, Processes
<1>1. ASSUME NEW s \in Processes, Pump(s) PROVE TimerTypeOK'
  BY <1>1 DEF Pump
<1>2. ASSUME NEW s \in Processes, Judge(s) PROVE TimerTypeOK'
  BY <1>2, <1>r DEF Judge
<1>3. ASSUME NEW s \in Processes, Reread(s) PROVE TimerTypeOK'
  <2>1. [file EXCEPT !.status = "skipped"] \in Timers
    BY DEF Timers
  <2> QED BY <1>3, <1>r, <2>1 DEF Reread
<1>4. ASSUME NEW s \in Processes, Send(s) PROVE TimerTypeOK'
  <2>1. copy[s] \in Timers /\ copy[s].due \in Rounds /\ now + 1 \in Rounds
    BY DEF Timers, Rounds
  <2>2. Fired(s, copy[s]) \in Timers
    BY <2>1 DEF Timers, Fired
  <2>3. sends' \in [Rounds -> Nat]
    BY <1>4, <2>1 DEF Send
  <2> QED BY <1>4, <2>2, <2>3 DEF Send
<1>5. ASSUME NEW s \in Processes, WriteTmp(s) PROVE TimerTypeOK'
  BY <1>5 DEF WriteTmp
<1>6. ASSUME NEW s \in Processes, Rename(s) PROVE TimerTypeOK'
  <2>1. CASE tmp = NoTimer
    BY <1>6, <1>r, <2>1 DEF Rename
  <2>2. CASE tmp # NoTimer
    <3>1. cancelled' \in BOOLEAN /\ overlapped' \in BOOLEAN
      BY <1>6, <2>2 DEF Rename, Overlaps
    <3> QED BY <1>6, <1>r, <2>2, <3>1 DEF Rename
  <2> QED BY <2>1, <2>2
<1>7. ASSUME NEW s \in Processes, Remove(s) PROVE TimerTypeOK'
  <2>1. [file EXCEPT !.status = "gone"] \in Timers
    BY DEF Timers
  <2> QED BY <1>7, <2>1 DEF Remove
<1>8. ASSUME NEW s \in Processes, NEW r \in Timers, Set(s, r) PROVE TimerTypeOK'
  BY <1>8 DEF Set
<1>9. ASSUME NEW s \in Processes, Cancel(s) PROVE TimerTypeOK'
  <2>1. [file EXCEPT !.status = "cancelled"] \in Timers
    BY DEF Timers
  <2> QED BY <1>9, <2>1 DEF Cancel
<1>10. ASSUME NEW s \in Processes, SweepRead(s) PROVE TimerTypeOK'
  BY <1>10 DEF SweepRead
<1>11. ASSUME NEW s \in Processes, CallFails(s) PROVE TimerTypeOK'
  BY <1>11, <1>r DEF CallFails, Mishap
<1>12. ASSUME NEW s \in Processes, ProcessDies(s) PROVE TimerTypeOK'
  BY <1>12, <1>r DEF ProcessDies, Mishap
<1>13. ASSUME NEW s \in Processes, ProcessStarts(s) PROVE TimerTypeOK'
  BY <1>13 DEF ProcessStarts
<1>14. ASSUME NEW s \in Processes, HeartbeatGoesStale(s) PROVE TimerTypeOK'
  BY <1>14 DEF HeartbeatGoesStale, Mishap
<1>15. ASSUME TimePasses PROVE TimerTypeOK'
  BY <1>15 DEF TimePasses
<1>16. ASSUME TargetEnds PROVE TimerTypeOK'
  BY <1>16 DEF TargetEnds
<1>17. CASE UNCHANGED timerVars
  BY <1>17 DEF timerVars
<1> QED
  BY <1>1, <1>2, <1>3, <1>4, <1>5, <1>6, <1>7, <1>8, <1>9, <1>10, <1>11, <1>12, <1>13, <1>14,
     <1>15, <1>16, <1>17
  DEF TimersNext, CallStep

\* A timer's state has its type.
THEOREM TimersTypeOK == TimersSpec => []TimerTypeOK
<1>1. ASSUME TimersInit PROVE TimerTypeOK
  <2>1. NoTimer \in Timers
    BY TimerAssumption DEF TimerAssumption, NoTimer, Timers, Rounds, Processes
  <2>2. /\ step \in [Processes -> Labels] /\ copy \in [Processes -> Timers]
        /\ sends \in [Rounds -> Nat]
    BY <1>1, <2>1 DEF TimersInit, Labels
  <2>3. up \subseteq Processes /\ beating \subseteq Mains
    BY <1>1 DEF TimersInit
  <2>4. now \in 0 .. MaxTime /\ mishaps \in 0 .. MaxMishaps
    BY <1>1, TimerAssumption DEF TimersInit, TimerAssumption
  <2> QED BY <1>1, <2>1, <2>2, <2>3, <2>4 DEF TimersInit, TimerTypeOK
<1>2. TimerTypeOK /\ [TimersNext]_timerVars => TimerTypeOK'
  BY TimerTypeStep
<1> QED BY <1>1, <1>2, PTL DEF TimersSpec

-----------------------------------------------------------------------------
(* The records *)

\* Between the listing and the send; between the send, or the cancellation, and the rename.
Asking(s) == step[s] \in {"judge", "reread", "send"}
Storing(s) == step[s] \in {"write", "rename"}

\* A record that a tick of s may have read in the directory it looks at, or made there.
InReach(s, r) ==
  /\ r.box = file.box
  /\ IF r.box = "root" THEN s \in Mains /\ r.owner \in Mains ELSE s = Tab

\* All records are of the file's directory; a tick's are due by now, and what it stores is its own.
TimerShape ==
  /\ file = NoTimer <=> file.status = "none"
  /\ file = NoTimer =>
       /\ tmp = NoTimer
       /\ \A s \in Processes : step[s] = "idle"
       /\ \A d \in Rounds : sends[d] = 0
  /\ file.box = "root" => file = NoTimer \/ file.owner \in Mains
  /\ tmp = NoTimer <=> tmp.status = "none"
  /\ tmp # NoTimer => tmp.box = file.box /\ (tmp.box = "root" => tmp.owner \in Mains)
  /\ \A s \in Processes :
       /\ Asking(s) => IsPending(copy[s]) /\ copy[s].due <= now /\ InReach(s, copy[s])
       /\ Storing(s) =>
            /\ copy[s].status # "none" /\ copy[s].box = file.box
            /\ copy[s].box = "root" => copy[s].owner \in Mains
            /\ IsPending(copy[s]) => InReach(s, copy[s]) /\ (s # Tab => copy[s].owner = s)
  /\ \A d \in Rounds : d > now => sends[d] = 0

\* Every step keeps the records in their directory and in the right hands.
LEMMA TimerShapeStep ==
  ASSUME TimerTypeOK, TimerShape, [TimersNext]_timerVars
  PROVE  TimerShape'
<1> USE TimerAssumption DEF TimerTypeOK, TimerShape, TimerAssumption, Asking, Storing, InReach
<1>r. NoTimer.status = "none" /\ NoTimer.box = "root"
  BY DEF NoTimer
<1>1. ASSUME NEW s \in Processes, Pump(s) PROVE TimerShape'
  BY <1>1, <1>r DEF Pump, IsDue, Processes
<1>2. ASSUME NEW s \in Processes, Judge(s) PROVE TimerShape'
  BY <1>2 DEF Judge
<1>3. ASSUME NEW s \in Processes, Reread(s) PROVE TimerShape'
  BY <1>3 DEF Reread, Timers
<1>4. ASSUME NEW s \in Processes, Send(s) PROVE TimerShape'
  <2>1. /\ copy[s] \in Timers /\ IsPending(copy[s]) /\ copy[s].due <= now
        /\ InReach(s, copy[s]) /\ file # NoTimer
    BY <1>4, <1>r DEF Send
  <2> DEFINE r == Fired(s, copy[s])
  <2>2. /\ r.status \in {"pending", "fired"} /\ r.box = file.box
        /\ r.box = "root" => r.owner \in Mains
        /\ IsPending(r) => InReach(s, r) /\ (s # Tab => r.owner = s)
    BY <2>1 DEF Fired, Timers, Processes
  <2>3. \A t \in Processes : copy'[t] = IF t = s THEN r ELSE copy[t]
    BY <1>4 DEF Send
  <2>4. \A d \in Rounds : d > now => sends'[d] = 0
    BY <1>4, <2>1 DEF Send, Rounds, Timers
  <2> HIDE DEF r
  <2> QED BY <1>4, <2>1, <2>2, <2>3, <2>4 DEF Send
<1>5. ASSUME NEW s \in Processes, WriteTmp(s) PROVE TimerShape'
  BY <1>5, <1>r DEF WriteTmp
<1>6. ASSUME NEW s \in Processes, Rename(s) PROVE TimerShape'
  BY <1>6, <1>r DEF Rename
<1>7. ASSUME NEW s \in Processes, Remove(s) PROVE TimerShape'
  BY <1>7, <1>r DEF Remove, Timers
<1>8. ASSUME NEW s \in Processes, NEW r \in Timers, Set(s, r) PROVE TimerShape'
  BY <1>8, <1>r DEF Set, Processes
<1>9. ASSUME NEW s \in Processes, Cancel(s) PROVE TimerShape'
  BY <1>9, <1>r DEF Cancel, Timers
<1>10. ASSUME NEW s \in Processes, SweepRead(s) PROVE TimerShape'
  BY <1>10, <1>r DEF SweepRead, Removable, Terminal
<1>11. ASSUME NEW s \in Processes, CallFails(s) PROVE TimerShape'
  BY <1>11 DEF CallFails
<1>12. ASSUME NEW s \in Processes, ProcessDies(s) PROVE TimerShape'
  BY <1>12 DEF ProcessDies
<1>13. ASSUME NEW s \in Processes, ProcessStarts(s) PROVE TimerShape'
  BY <1>13 DEF ProcessStarts
<1>14. ASSUME NEW s \in Processes, HeartbeatGoesStale(s) PROVE TimerShape'
  BY <1>14 DEF HeartbeatGoesStale
<1>15. ASSUME TimePasses PROVE TimerShape'
  BY <1>15 DEF TimePasses, Rounds, Timers
<1>16. ASSUME TargetEnds PROVE TimerShape'
  BY <1>16 DEF TargetEnds
<1>17. CASE UNCHANGED timerVars
  BY <1>17 DEF timerVars
<1> QED
  BY <1>1, <1>2, <1>3, <1>4, <1>5, <1>6, <1>7, <1>8, <1>9, <1>10, <1>11, <1>12, <1>13, <1>14,
     <1>15, <1>16, <1>17
  DEF TimersNext, CallStep

-----------------------------------------------------------------------------
(* Fired and cancelled *)

\* Whoever holds a record of a fired timer, its message was sent.
FiredInv ==
  /\ file.status = "fired" \/ tmp.status = "fired" => Sent
  /\ \A s \in Processes : copy[s].status = "fired" => Sent

\* After a cancellation that nothing overlapped nobody is past its last look at the timer.
CancelInv ==
  cancelled /\ ~overlapped =>
    /\ file.status \in {"cancelled", "gone"}
    /\ \A s \in Processes : step[s] \notin {"send", "write", "rename"}

\* A step that makes a fired record has sent, or has copied one.
LEMMA FiredStep ==
  ASSUME TimerTypeOK, FiredInv, [TimersNext]_timerVars
  PROVE  FiredInv'
<1> USE DEF TimerTypeOK, FiredInv, Sent
<1>r. NoTimer.status = "none"
  BY DEF NoTimer
<1>1. ASSUME NEW s \in Processes, Pump(s) PROVE FiredInv'
  BY <1>1, <1>r DEF Pump
<1>2. ASSUME NEW s \in Processes, Judge(s) PROVE FiredInv'
  BY <1>2, <1>r DEF Judge
<1>3. ASSUME NEW s \in Processes, Reread(s) PROVE FiredInv'
  <2>1. /\ UNCHANGED <<file, tmp, sends>>
        /\ \A t \in Processes : copy'[t].status = "fired" => copy[t].status = "fired"
    BY <1>3, <1>r DEF Reread, Timers
  <2> QED BY <2>1
<1>4. ASSUME NEW s \in Processes, Send(s) PROVE FiredInv'
  <2>1. copy[s].due \in Rounds
    BY DEF Timers
  <2>2. sends'[copy[s].due] > 0
    BY <1>4, <2>1 DEF Send
  <2> QED BY <1>4, <2>1, <2>2 DEF Send
<1>5. ASSUME NEW s \in Processes, WriteTmp(s) PROVE FiredInv'
  BY <1>5, <1>r DEF WriteTmp
<1>6. ASSUME NEW s \in Processes, Rename(s) PROVE FiredInv'
  BY <1>6, <1>r DEF Rename
<1>7. ASSUME NEW s \in Processes, Remove(s) PROVE FiredInv'
  BY <1>7, <1>r DEF Remove, Timers
<1>8. ASSUME NEW s \in Processes, NEW r \in Timers, Set(s, r) PROVE FiredInv'
  BY <1>8, <1>r DEF Set
<1>9. ASSUME NEW s \in Processes, Cancel(s) PROVE FiredInv'
  BY <1>9, <1>r DEF Cancel, Timers
<1>10. ASSUME NEW s \in Processes, SweepRead(s) PROVE FiredInv'
  BY <1>10, <1>r DEF SweepRead
<1>11. ASSUME NEW s \in Processes, CallFails(s) PROVE FiredInv'
  BY <1>11, <1>r DEF CallFails
<1>12. ASSUME NEW s \in Processes, ProcessDies(s) PROVE FiredInv'
  BY <1>12, <1>r DEF ProcessDies
<1>13. ASSUME NEW s \in Processes, ProcessStarts(s) PROVE FiredInv'
  BY <1>13, <1>r DEF ProcessStarts
<1>14. ASSUME NEW s \in Processes, HeartbeatGoesStale(s) PROVE FiredInv'
  BY <1>14, <1>r DEF HeartbeatGoesStale
<1>15. ASSUME TimePasses PROVE FiredInv'
  BY <1>15, <1>r DEF TimePasses
<1>16. ASSUME TargetEnds PROVE FiredInv'
  BY <1>16, <1>r DEF TargetEnds
<1>17. CASE UNCHANGED timerVars
  BY <1>17, <1>r DEF timerVars
<1> QED
  BY <1>1, <1>2, <1>3, <1>4, <1>5, <1>6, <1>7, <1>8, <1>9, <1>10, <1>11, <1>12, <1>13, <1>14,
     <1>15, <1>16, <1>17
  DEF TimersNext, CallStep

\* After such a cancellation no step gets past its look at the timer.
LEMMA CancelStep ==
  ASSUME TimerTypeOK, CancelInv, [TimersNext]_timerVars
  PROVE  CancelInv'
<1> USE DEF TimerTypeOK, CancelInv
<1>r. NoTimer.status = "none"
  BY DEF NoTimer
<1>1. ASSUME NEW s \in Processes, Pump(s) PROVE CancelInv'
  BY <1>1, <1>r DEF Pump, IsDue
<1>2. ASSUME NEW s \in Processes, Judge(s) PROVE CancelInv'
  BY <1>2, <1>r DEF Judge
<1>3. ASSUME NEW s \in Processes, Reread(s) PROVE CancelInv'
  BY <1>3, <1>r DEF Reread
<1>4. ASSUME NEW s \in Processes, Send(s) PROVE CancelInv'
  BY <1>4, <1>r DEF Send
<1>5. ASSUME NEW s \in Processes, WriteTmp(s) PROVE CancelInv'
  BY <1>5, <1>r DEF WriteTmp
<1>6. ASSUME NEW s \in Processes, Rename(s) PROVE CancelInv'
  BY <1>6, <1>r DEF Rename, Overlaps
<1>7. ASSUME NEW s \in Processes, Remove(s) PROVE CancelInv'
  BY <1>7, <1>r DEF Remove, Timers
<1>8. ASSUME NEW s \in Processes, NEW r \in Timers, Set(s, r) PROVE CancelInv'
  BY <1>8, <1>r DEF Set
<1>9. ASSUME NEW s \in Processes, Cancel(s) PROVE CancelInv'
  BY <1>9, <1>r DEF Cancel
<1>10. ASSUME NEW s \in Processes, SweepRead(s) PROVE CancelInv'
  BY <1>10, <1>r DEF SweepRead, Removable, Terminal
<1>11. ASSUME NEW s \in Processes, CallFails(s) PROVE CancelInv'
  BY <1>11, <1>r DEF CallFails
<1>12. ASSUME NEW s \in Processes, ProcessDies(s) PROVE CancelInv'
  BY <1>12, <1>r DEF ProcessDies
<1>13. ASSUME NEW s \in Processes, ProcessStarts(s) PROVE CancelInv'
  BY <1>13, <1>r DEF ProcessStarts
<1>14. ASSUME NEW s \in Processes, HeartbeatGoesStale(s) PROVE CancelInv'
  BY <1>14, <1>r DEF HeartbeatGoesStale
<1>15. ASSUME TimePasses PROVE CancelInv'
  BY <1>15, <1>r DEF TimePasses
<1>16. ASSUME TargetEnds PROVE CancelInv'
  BY <1>16, <1>r DEF TargetEnds
<1>17. CASE UNCHANGED timerVars
  BY <1>17, <1>r DEF timerVars
<1> QED
  BY <1>1, <1>2, <1>3, <1>4, <1>5, <1>6, <1>7, <1>8, <1>9, <1>10, <1>11, <1>12, <1>13, <1>14,
     <1>15, <1>16, <1>17
  DEF TimersNext, CallStep

-----------------------------------------------------------------------------
(* Sessions that others take for dead *)

\* Its heartbeat is old, or will be: it does not run.
Loose(o) == o \notin beating \/ o \notin up
LooseMains == {o \in Mains : Loose(o)}

\* A session gets there by a mishap only.
LooseInv == Cardinality(LooseMains) <= mishaps

\* Each step that makes a session loose is a mishap.
LEMMA LooseStep ==
  ASSUME TimerTypeOK, LooseInv, [TimersNext]_timerVars
  PROVE  LooseInv'
<1> USE TimerAssumption DEF TimerTypeOK, TimerAssumption
<1>f. IsFiniteSet(LooseMains)
  BY FS_Subset DEF LooseMains
<1>m. mishaps \in Nat
  OBVIOUS
<1>1. CASE LooseMains' \subseteq LooseMains /\ mishaps' \in {mishaps, mishaps + 1}
  BY <1>f, <1>m, <1>1, SizeOfPart DEF LooseInv
<1>2. ASSUME NEW s \in Processes, LooseMains' \subseteq LooseMains \cup {s}, mishaps' = mishaps + 1
      PROVE  LooseInv'
  BY <1>f, <1>m, <1>2, SizeOfAdded DEF LooseInv
<1>3. \/ LooseMains' \subseteq LooseMains /\ mishaps' \in {mishaps, mishaps + 1}
      \/ \E s \in Processes : LooseMains' \subseteq LooseMains \cup {s} /\ mishaps' = mishaps + 1
  <2> USE DEF LooseMains, Loose
  <2>1. ASSUME NEW s \in Processes, Pump(s) PROVE <1>3!:
    BY <2>1 DEF Pump
  <2>2. ASSUME NEW s \in Processes, Judge(s) PROVE <1>3!:
    BY <2>2 DEF Judge
  <2>3. ASSUME NEW s \in Processes, Reread(s) PROVE <1>3!:
    BY <2>3 DEF Reread
  <2>4. ASSUME NEW s \in Processes, Send(s) PROVE <1>3!:
    BY <2>4 DEF Send
  <2>5. ASSUME NEW s \in Processes, WriteTmp(s) PROVE <1>3!:
    BY <2>5 DEF WriteTmp
  <2>6. ASSUME NEW s \in Processes, Rename(s) PROVE <1>3!:
    BY <2>6 DEF Rename
  <2>7. ASSUME NEW s \in Processes, Remove(s) PROVE <1>3!:
    BY <2>7 DEF Remove
  <2>8. ASSUME NEW s \in Processes, NEW r \in Timers, Set(s, r) PROVE <1>3!:
    BY <2>8 DEF Set
  <2>9. ASSUME NEW s \in Processes, Cancel(s) PROVE <1>3!:
    BY <2>9 DEF Cancel
  <2>10. ASSUME NEW s \in Processes, SweepRead(s) PROVE <1>3!:
    BY <2>10 DEF SweepRead
  <2>11. ASSUME NEW s \in Processes, CallFails(s) PROVE <1>3!:
    BY <2>11 DEF CallFails, Mishap
  <2>12. ASSUME NEW s \in Processes, ProcessDies(s) PROVE <1>3!:
    BY <2>12 DEF ProcessDies, Mishap
  <2>13. ASSUME NEW s \in Processes, ProcessStarts(s) PROVE <1>3!:
    BY <2>13 DEF ProcessStarts
  <2>14. ASSUME NEW s \in Processes, HeartbeatGoesStale(s) PROVE <1>3!:
    BY <2>14 DEF HeartbeatGoesStale, Mishap
  <2>15. ASSUME TimePasses PROVE <1>3!:
    BY <2>15 DEF TimePasses
  <2>16. ASSUME TargetEnds PROVE <1>3!:
    BY <2>16 DEF TargetEnds
  <2>17. CASE UNCHANGED timerVars
    BY <2>17 DEF timerVars
  <2> QED
    BY <2>1, <2>2, <2>3, <2>4, <2>5, <2>6, <2>7, <2>8, <2>9, <2>10, <2>11, <2>12, <2>13, <2>14,
       <2>15, <2>16, <2>17
    DEF TimersNext, CallStep
<1> QED BY <1>1, <1>2, <1>3

-----------------------------------------------------------------------------
(* An owner and its records *)

\* A record of the root directory by which o will send round d.
Own(r, o, d) == IsPending(r) /\ r.due = d /\ r.owner = o /\ r.box = "root"

\* One of them is in the .tmp, and another in the file or judged by somebody.
Doubled(o, d) ==
  /\ Own(tmp, o, d)
  /\ Own(file, o, d) \/ \E t \in Processes : step[t] = "judge" /\ Own(copy[t], o, d)

\* Then o holds no third one, and is not about to make one.
NoTriple ==
  \A o \in Mains, d \in Rounds : Doubled(o, d) =>
    /\ ~(step[o] = "write" /\ Own(copy[o], o, d))
    /\ d > now => ~Asking(o)

\* No step gives an owner a third record of a round.
LEMMA TripleStep ==
  ASSUME TimerTypeOK, TimerShape, NoTriple, [TimersNext]_timerVars
  PROVE  NoTriple'
<1> USE DEF TimerTypeOK, Doubled, Own, Asking
<1> SUFFICES ASSUME NEW o \in Mains, NEW d \in Rounds, Doubled(o, d)'
             PROVE  /\ ~(step[o] = "write" /\ Own(copy[o], o, d))'
                    /\ (d > now => ~Asking(o))'
  BY DEF NoTriple
<1> DEFINE Kept == /\ ~(step'[o] = "write" /\ Own(copy'[o], o, d))
                   /\ d > now' => ~(step'[o] \in {"judge", "reread", "send"})
<1>o. o \in Processes /\ d \in Nat /\ now \in Nat
  BY TimerAssumption DEF TimerAssumption, Processes, Rounds
<1>i. Doubled(o, d) => ~(step[o] = "write" /\ Own(copy[o], o, d)) /\ (d > now => ~Asking(o))
  BY DEF NoTriple
<1>1. ASSUME NEW s \in Processes, Pump(s) PROVE Kept
  BY <1>1, <1>o, <1>i DEF Pump, TimerShape, IsDue, Storing
<1>2. ASSUME NEW s \in Processes, Judge(s) PROVE Kept
  BY <1>2, <1>o, <1>i DEF Judge
<1>3. ASSUME NEW s \in Processes, Reread(s) PROVE Kept
  BY <1>3, <1>o, <1>i DEF Reread, Timers
<1>4. ASSUME NEW s \in Processes, Send(s) PROVE Kept
  BY <1>4, <1>o, <1>i DEF Send, TimerShape, Fired, Timers
<1>5. ASSUME NEW s \in Processes, WriteTmp(s) PROVE Kept
  BY <1>5, <1>o, <1>i, TimerAssumption DEF WriteTmp, TimerShape, InReach, Storing, TimerAssumption
<1>6. ASSUME NEW s \in Processes, Rename(s) PROVE Kept
  BY <1>6, <1>o, <1>i DEF Rename, TimerShape, NoTimer
<1>7. ASSUME NEW s \in Processes, Remove(s) PROVE Kept
  BY <1>7, <1>o, <1>i DEF Remove, Timers
<1>8. ASSUME NEW s \in Processes, NEW r \in Timers, Set(s, r) PROVE Kept
  BY <1>8, <1>o, <1>i DEF Set, TimerShape, NoTimer
<1>9. ASSUME NEW s \in Processes, Cancel(s) PROVE Kept
  BY <1>9, <1>o, <1>i DEF Cancel, Timers
<1>10. ASSUME NEW s \in Processes, SweepRead(s) PROVE Kept
  BY <1>10, <1>o, <1>i DEF SweepRead
<1>11. ASSUME NEW s \in Processes, CallFails(s) PROVE Kept
  BY <1>11, <1>o, <1>i DEF CallFails
<1>12. ASSUME NEW s \in Processes, ProcessDies(s) PROVE Kept
  BY <1>12, <1>o, <1>i DEF ProcessDies
<1>13. ASSUME NEW s \in Processes, ProcessStarts(s) PROVE Kept
  BY <1>13, <1>o, <1>i DEF ProcessStarts
<1>14. ASSUME NEW s \in Processes, HeartbeatGoesStale(s) PROVE Kept
  BY <1>14, <1>o, <1>i DEF HeartbeatGoesStale
<1>15. ASSUME TimePasses PROVE Kept
  BY <1>15, <1>o, <1>i DEF TimePasses
<1>16. ASSUME TargetEnds PROVE Kept
  BY <1>16, <1>o, <1>i DEF TargetEnds
<1>17. CASE UNCHANGED timerVars
  BY <1>17, <1>i DEF timerVars
<1> QED
  BY <1>1, <1>2, <1>3, <1>4, <1>5, <1>6, <1>7, <1>8, <1>9, <1>10, <1>11, <1>12, <1>13, <1>14,
     <1>15, <1>16, <1>17
  DEF TimersNext, CallStep

-----------------------------------------------------------------------------
(* Without mishaps *)

\* The one session that fires the timer.
Actor == IF file.box = "mail" THEN Tab ELSE file.owner

\* Only the actor gets past the judgement, and makes records that wait; one in the .tmp is there
\* because the actor is about to rename.
Chain ==
  mishaps = 0 =>
    /\ up = Processes /\ beating = Mains
    /\ tmp # NoTimer => tmp.owner = file.owner
    /\ \A s \in Processes :
         /\ Asking(s) \/ Storing(s) => copy[s].owner = file.owner
         /\ step[s] \in {"reread", "send"} \/ (Storing(s) /\ IsPending(copy[s])) => s = Actor
    /\ IsPending(tmp) => step[Actor] = "rename"

\* Without mishaps every step leaves the timer to the actor.
LEMMA ChainStep ==
  ASSUME TimerTypeOK, TimerShape, Chain, [TimersNext]_timerVars
  PROVE  Chain'
<1> USE DEF TimerTypeOK, Chain, Asking, Storing, Actor, TimerShape
<1>m. mishaps \in Nat
  BY TimerAssumption DEF TimerAssumption
<1>1. ASSUME NEW s \in Processes, Pump(s) PROVE Chain'
  BY <1>1, <1>m DEF Pump, IsDue, Processes
<1>2. ASSUME NEW s \in Processes, Judge(s) PROVE Chain'
  <2>1. CASE copy[s].owner \in beating
    <3>1. /\ step'[s] = "idle" /\ step[s] = "judge"
          /\ \A t \in Processes \ {s} : step'[t] = step[t] /\ copy'[t] = copy[t]
          /\ UNCHANGED <<up, beating, tmp, file, mishaps>>
      BY <1>2, <2>1 DEF Judge
    <3>2. Actor \in Processes
      BY DEF Timers, Processes
    <3> QED BY <1>m, <3>1, <3>2
  <2>2. CASE copy[s].owner \notin beating
    <3>1. mishaps = 0 => copy[s].box = "mail" /\ s = Tab /\ file.box = "mail"
      BY <1>2, <2>2 DEF Judge, InReach, Timers
    <3> QED BY <1>2, <1>m, <2>2, <3>1 DEF Judge
  <2> QED BY <2>1, <2>2
<1>3. ASSUME NEW s \in Processes, Reread(s) PROVE Chain'
  BY <1>3, <1>m DEF Reread, Timers
<1>4. ASSUME NEW s \in Processes, Send(s) PROVE Chain'
  BY <1>4, <1>m DEF Send, Fired, Timers
<1>5. ASSUME NEW s \in Processes, WriteTmp(s) PROVE Chain'
  BY <1>5, <1>m DEF WriteTmp, InReach
<1>6. ASSUME NEW s \in Processes, Rename(s) PROVE Chain'
  BY <1>6, <1>m DEF Rename, NoTimer
<1>7. ASSUME NEW s \in Processes, Remove(s) PROVE Chain'
  BY <1>7, <1>m DEF Remove, Timers
<1>8. ASSUME NEW s \in Processes, NEW r \in Timers, Set(s, r) PROVE Chain'
  BY <1>8, <1>m DEF Set, NoTimer
<1>9. ASSUME NEW s \in Processes, Cancel(s) PROVE Chain'
  BY <1>9, <1>m DEF Cancel, Timers
<1>10. ASSUME NEW s \in Processes, SweepRead(s) PROVE Chain'
  BY <1>10, <1>m DEF SweepRead
<1>11. ASSUME NEW s \in Processes, CallFails(s) PROVE Chain'
  BY <1>11, <1>m DEF CallFails, Mishap
<1>12. ASSUME NEW s \in Processes, ProcessDies(s) PROVE Chain'
  BY <1>12, <1>m DEF ProcessDies, Mishap
<1>13. ASSUME NEW s \in Processes, ProcessStarts(s) PROVE Chain'
  BY <1>13, <1>m DEF ProcessStarts
<1>14. ASSUME NEW s \in Processes, HeartbeatGoesStale(s) PROVE Chain'
  BY <1>14, <1>m DEF HeartbeatGoesStale, Mishap
<1>15. ASSUME TimePasses PROVE Chain'
  BY <1>15, <1>m DEF TimePasses
<1>16. ASSUME TargetEnds PROVE Chain'
  BY <1>16, <1>m DEF TargetEnds
<1>17. CASE UNCHANGED timerVars
  BY <1>17, <1>m DEF timerVars
<1> QED
  BY <1>1, <1>2, <1>3, <1>4, <1>5, <1>6, <1>7, <1>8, <1>9, <1>10, <1>11, <1>12, <1>13, <1>14,
     <1>15, <1>16, <1>17
  DEF TimersNext, CallStep

-----------------------------------------------------------------------------
(* What may still be sent in a round *)

Awaits(r, d) == IsPending(r) /\ r.due = d

\* A record in the file lets t send: the tab in its mailbox; its owner, or anyone if it is loose.
MaySend(t, r) ==
  IF r.box = "mail" THEN t = Tab ELSE t \in Mains /\ (t = r.owner \/ Loose(r.owner))

\* A record in the hands of a session will let others send once it is in the .tmp ...
ByHand(d) ==
  {x \in Processes \X Processes :
     step[x[1]] = "write" /\ Awaits(copy[x[1]], d) /\ MaySend(x[2], copy[x[1]])}

\* ... and there, once it is in the file.
ByTmp(d) == {t \in Processes : Awaits(tmp, d) /\ MaySend(t, tmp)}

\* A session has listed the round, or may yet list it: it is not about to write the file anew.
Lists(t, d) ==
  \/ step[t] = "judge" /\ Awaits(copy[t], d) /\ MaySend(t, copy[t])
  \/ step[t] \in {"reread", "send"} /\ Awaits(copy[t], d)
MayList(t, d) ==
  /\ Awaits(file, d) /\ MaySend(t, file)
  /\ step[t] # "write" /\ ~(step[t] = "rename" /\ tmp # NoTimer)
ByFile(d) == {t \in Processes : Lists(t, d) \/ MayList(t, d)}

\* How often a round has been sent, and may be with no further mishap.
Potential(d) ==
  sends[d] + Cardinality(ByHand(d)) + Cardinality(ByTmp(d)) + Cardinality(ByFile(d))

\* There are finitely many sessions, and a main one.
LEMMA ProcessesFinite ==
  /\ IsFiniteSet(Processes) /\ IsFiniteSet(Mains)
  /\ Cardinality(Mains) \in Nat \ {0}
<1> USE TimerAssumption DEF TimerAssumption, Processes
<1>1. IsFiniteSet(Mains \cup {Tab})
  BY FS_AddElement
<1>2. Cardinality(Mains) \in Nat /\ Cardinality(Mains) # 0
  BY FS_CardinalityType, FS_EmptySet
<1> QED BY <1>1, <1>2

\* The three sets of the potential are finite.
LEMMA PotentialParts ==
  ASSUME NEW d \in Rounds
  PROVE  /\ IsFiniteSet(ByHand(d)) /\ Cardinality(ByHand(d)) \in Nat
         /\ IsFiniteSet(ByTmp(d)) /\ Cardinality(ByTmp(d)) \in Nat
         /\ IsFiniteSet(ByFile(d)) /\ Cardinality(ByFile(d)) \in Nat
<1>1. IsFiniteSet(Processes) /\ IsFiniteSet(Processes \X Processes)
  BY ProcessesFinite, FS_Product
<1>2. ByHand(d) \subseteq Processes \X Processes
  BY DEF ByHand
<1>3. ByTmp(d) \subseteq Processes /\ ByFile(d) \subseteq Processes
  BY DEF ByTmp, ByFile
<1> QED BY <1>1, <1>2, <1>3, SizeOfPart

\* Nothing new to send.
LEMMA PotentialKept ==
  ASSUME TimerTypeOK, NEW d \in Rounds, sends'[d] = sends[d],
         ByHand(d)' \subseteq ByHand(d), ByTmp(d)' \subseteq ByTmp(d),
         ByFile(d)' \subseteq ByFile(d)
  PROVE  Potential(d)' <= Potential(d)
<1>1. sends[d] \in Nat
  BY DEF TimerTypeOK
<1>2. /\ Cardinality(ByHand(d)') \in Nat /\ Cardinality(ByHand(d)') <= Cardinality(ByHand(d))
      /\ Cardinality(ByTmp(d)') \in Nat /\ Cardinality(ByTmp(d)') <= Cardinality(ByTmp(d))
      /\ Cardinality(ByFile(d)') \in Nat /\ Cardinality(ByFile(d)') <= Cardinality(ByFile(d))
  BY PotentialParts, SizeOfPart
<1> QED BY <1>1, <1>2, PotentialParts DEF Potential

\* At most k more to send, of what the sets X, Y, Z hold.
LEMMA PotentialGrows ==
  ASSUME TimerTypeOK, NEW d \in Rounds, sends'[d] = sends[d],
         NEW X, NEW Y, NEW Z, IsFiniteSet(X), IsFiniteSet(Y), IsFiniteSet(Z),
         ByHand(d)' \subseteq ByHand(d) \cup X, ByTmp(d)' \subseteq ByTmp(d) \cup Y,
         ByFile(d)' \subseteq ByFile(d) \cup Z
  PROVE  /\ Potential(d)' \in Nat
         /\ Potential(d)' <= Potential(d) + Cardinality(X) + Cardinality(Y) + Cardinality(Z)
<1>1. sends[d] \in Nat
  BY DEF TimerTypeOK
<1>2. /\ Cardinality(ByHand(d)') \in Nat /\ Cardinality(X) \in Nat
      /\ Cardinality(ByHand(d)') <= Cardinality(ByHand(d)) + Cardinality(X)
  BY PotentialParts, SizeOfUnion
<1>3. /\ Cardinality(ByTmp(d)') \in Nat /\ Cardinality(Y) \in Nat
      /\ Cardinality(ByTmp(d)') <= Cardinality(ByTmp(d)) + Cardinality(Y)
  BY PotentialParts, SizeOfUnion
<1>4. /\ Cardinality(ByFile(d)') \in Nat /\ Cardinality(Z) \in Nat
      /\ Cardinality(ByFile(d)') <= Cardinality(ByFile(d)) + Cardinality(Z)
  BY PotentialParts, SizeOfUnion
<1> QED BY <1>1, <1>2, <1>3, <1>4, PotentialParts DEF Potential

\* Steps that write nothing and send nothing.
LEMMA QuietStep ==
  ASSUME TimerTypeOK, TimerShape, NEW d \in Rounds, d <= now,
         NEW s \in Processes,
         \/ Pump(s) \/ Judge(s) \/ Reread(s) \/ Cancel(s) \/ SweepRead(s) \/ Remove(s)
         \/ ProcessStarts(s) \/ (s \notin up /\ HeartbeatGoesStale(s))
         \/ TimePasses \/ TargetEnds \/ UNCHANGED timerVars
  PROVE  Potential(d)' <= Potential(d)
<1> USE DEF TimerTypeOK, ByHand, ByTmp, ByFile, Lists, MayList, MaySend, Loose, Awaits
<1> SUFFICES /\ sends'[d] = sends[d]
             /\ ByHand(d)' \subseteq ByHand(d) /\ ByTmp(d)' \subseteq ByTmp(d)
             /\ ByFile(d)' \subseteq ByFile(d)
  BY PotentialKept
<1>1. CASE Pump(s)
  BY <1>1 DEF Pump, IsDue, Processes
<1>2. CASE Judge(s)
  <2>1. CASE copy[s].owner \in beating
    BY <1>2, <2>1 DEF Judge
  <2>2. CASE copy[s].owner \notin beating
    <3>1. MaySend(s, copy[s])
      BY <1>2, <2>2 DEF Judge, TimerShape, Asking, InReach, Timers
    <3> QED BY <1>2, <2>2, <3>1 DEF Judge
  <2> QED BY <2>1, <2>2
<1>3. CASE Reread(s)
  BY <1>3 DEF Reread, Timers
<1>4. CASE Cancel(s)
  BY <1>4 DEF Cancel, Timers
<1>5. CASE SweepRead(s)
  BY <1>5 DEF SweepRead
<1>6. CASE Remove(s)
  BY <1>6 DEF Remove, Timers
<1>7. CASE ProcessStarts(s)
  BY <1>7 DEF ProcessStarts
<1>8. CASE s \notin up /\ HeartbeatGoesStale(s)
  BY <1>8 DEF HeartbeatGoesStale
<1>9. CASE TimePasses
  BY <1>9 DEF TimePasses
<1>10. CASE TargetEnds
  BY <1>10 DEF TargetEnds
<1>11. CASE UNCHANGED timerVars
  BY <1>11 DEF timerVars
<1> QED BY <1>1, <1>2, <1>3, <1>4, <1>5, <1>6, <1>7, <1>8, <1>9, <1>10, <1>11

\* A send spends what the listing promised; its own record is for a later round.
LEMMA SendStep ==
  ASSUME TimerTypeOK, TimerShape, NEW d \in Rounds, d <= now,
         NEW s \in Processes, Send(s)
  PROVE  Potential(d)' <= Potential(d)
<1> USE DEF TimerTypeOK, ByHand, ByTmp, ByFile, Lists, MayList, MaySend, Loose, Awaits
<1>1. copy[s] \in Timers /\ IsPending(copy[s]) /\ ~Awaits(Fired(s, copy[s]), d)
  <2>1. copy[s] \in Timers /\ IsPending(copy[s]) /\ now \in Nat
    BY TimerAssumption DEF Send, TimerShape, Asking, TimerAssumption
  <2> QED BY <2>1 DEF Fired, Timers, Rounds
<1>2. ByHand(d)' \subseteq ByHand(d) /\ ByTmp(d)' \subseteq ByTmp(d)
  BY <1>1 DEF Send
<1>3. ByFile(d)' \subseteq ByFile(d) \ {s}
  BY DEF Send
<1>4. CASE copy[s].due # d
  BY <1>2, <1>3, <1>4, PotentialKept DEF Send
<1>5. CASE copy[s].due = d
  <2>1. sends'[d] = sends[d] + 1 /\ sends[d] \in Nat
    BY <1>5 DEF Send
  <2>2. s \in ByFile(d)
    BY <1>1, <1>5 DEF Send
  <2>3. /\ IsFiniteSet(ByFile(d) \ {s})
        /\ Cardinality(ByFile(d) \ {s}) = Cardinality(ByFile(d)) - 1
    BY <2>2, PotentialParts, FS_RemoveElement
  <2> HIDE DEF ByHand, ByTmp, ByFile
  <2>4. /\ Cardinality(ByHand(d)') \in Nat /\ Cardinality(ByHand(d)') <= Cardinality(ByHand(d))
        /\ Cardinality(ByTmp(d)') \in Nat /\ Cardinality(ByTmp(d)') <= Cardinality(ByTmp(d))
        /\ Cardinality(ByFile(d)') \in Nat
        /\ Cardinality(ByFile(d)') <= Cardinality(ByFile(d)) - 1
    BY <1>2, <1>3, <2>3, PotentialParts, SizeOfPart
  <2> QED BY <2>1, <2>4, PotentialParts DEF Potential
<1> QED BY <1>4, <1>5

\* Whom the record in s's hands will let send, the record in the .tmp now will.
LEMMA WriteStep ==
  ASSUME TimerTypeOK, TimerShape, NEW d \in Rounds,
         NEW s \in Processes, WriteTmp(s)
  PROVE  Potential(d)' <= Potential(d)
<1> USE DEF TimerTypeOK, ByHand, ByTmp, ByFile, Lists, MayList, MaySend, Loose, Awaits
<1>1. tmp' # NoTimer
  BY DEF WriteTmp, TimerShape, Storing, NoTimer
<1>2. ByFile(d)' \subseteq ByFile(d) /\ sends'[d] = sends[d] /\ sends[d] \in Nat
  BY <1>1 DEF WriteTmp
<1> DEFINE spent == {s} \X ByTmp(d)'
<1>3. spent \subseteq ByHand(d) /\ ByHand(d)' \subseteq ByHand(d) \ spent
  BY DEF WriteTmp
<1> HIDE DEF ByHand, ByTmp, ByFile
<1>4. IsFiniteSet(spent) /\ Cardinality(spent) = Cardinality(ByTmp(d)')
      /\ Cardinality(ByTmp(d)') \in Nat
  <2>1. IsFiniteSet({s}) /\ Cardinality({s}) = 1
    BY FS_Singleton
  <2>2. IsFiniteSet(Processes) /\ ByTmp(d)' \subseteq Processes
    BY ProcessesFinite DEF ByTmp
  <2>3. IsFiniteSet(ByTmp(d)') /\ Cardinality(ByTmp(d)') \in Nat
    BY <2>2, SizeOfPart
  <2> QED BY <2>1, <2>3, FS_Product
<1>5. Cardinality(ByHand(d) \ spent) = Cardinality(ByHand(d)) - Cardinality(spent)
      /\ IsFiniteSet(ByHand(d) \ spent)
  <2>1. ByHand(d) \cap spent = spent
    BY <1>3
  <2>2. IsFiniteSet(ByHand(d))
    BY PotentialParts
  <2> HIDE DEF spent
  <2> QED BY <2>1, <2>2, FS_Difference
<1>6. /\ Cardinality(ByHand(d)') \in Nat
      /\ Cardinality(ByHand(d)') <= Cardinality(ByHand(d)) - Cardinality(ByTmp(d)')
  BY <1>3, <1>4, <1>5, SizeOfPart
<1>7. Cardinality(ByFile(d)') \in Nat /\ Cardinality(ByFile(d)') <= Cardinality(ByFile(d))
  BY <1>2, PotentialParts, SizeOfPart
<1> QED BY <1>2, <1>4, <1>6, <1>7, PotentialParts DEF Potential

\* Whom the record in the .tmp will let send, the file now does.
LEMMA RenameStep ==
  ASSUME TimerTypeOK, TimerShape, NEW d \in Rounds,
         NEW s \in Processes, Rename(s)
  PROVE  Potential(d)' <= Potential(d)
<1> USE DEF TimerTypeOK, ByHand, ByTmp, ByFile, Lists, MayList, MaySend, Loose, Awaits
<1>1. ByHand(d)' \subseteq ByHand(d) /\ sends'[d] = sends[d] /\ sends[d] \in Nat
  BY DEF Rename
<1>2. CASE tmp = NoTimer
  <2>1. ByTmp(d)' \subseteq ByTmp(d) /\ ByFile(d)' \subseteq ByFile(d)
    BY <1>2 DEF Rename
  <2> QED BY <1>1, <2>1, PotentialKept
<1>3. CASE tmp # NoTimer
  <2>1. ByTmp(d)' = {}
    BY <1>3 DEF Rename, NoTimer
  <2>2. ByFile(d)' \subseteq ByFile(d) \cup ByTmp(d)
    BY <1>3 DEF Rename
  <2> HIDE DEF ByHand, ByTmp, ByFile
  <2>3. Cardinality(ByTmp(d)') = 0
    BY <2>1, FS_EmptySet
  <2>4. /\ Cardinality(ByFile(d)') \in Nat
        /\ Cardinality(ByFile(d)') <= Cardinality(ByFile(d)) + Cardinality(ByTmp(d))
    BY <2>2, PotentialParts, SizeOfUnion
  <2>5. Cardinality(ByHand(d)') \in Nat /\ Cardinality(ByHand(d)') <= Cardinality(ByHand(d))
    BY <1>1, PotentialParts, SizeOfPart
  <2> QED BY <1>1, <2>3, <2>4, <2>5, PotentialParts DEF Potential
<1> QED BY <1>2, <1>3

\* A record that a session is about to write, and that waits, is its own.
LEMMA HandOwned ==
  ASSUME TimerTypeOK, TimerShape, NEW o \in Processes, NEW d,
         step[o] = "write", Awaits(copy[o], d)
  PROVE  \/ copy[o].box = "mail"
         \/ copy[o].box = "root" /\ copy[o].owner = o /\ o \in Mains
BY TimerAssumption
DEF TimerTypeOK, TimerShape, Storing, InReach, Awaits, Timers, Processes, TimerAssumption

\* The failed call's session may send again: it may have sent before it failed.
LEMMA FailStep ==
  ASSUME TimerTypeOK, TimerShape, NEW d \in Rounds,
         NEW s \in Processes, CallFails(s)
  PROVE  Potential(d)' <= Potential(d) + 1
<1>1. /\ sends'[d] = sends[d]
      /\ ByHand(d)' \subseteq ByHand(d) \cup {} /\ ByTmp(d)' \subseteq ByTmp(d) \cup {}
      /\ ByFile(d)' \subseteq ByFile(d) \cup {s}
  BY DEF TimerTypeOK, CallFails, ByHand, ByTmp, ByFile, Lists, MayList, MaySend, Loose, Awaits
<1>2. /\ IsFiniteSet({}) /\ Cardinality({}) = 0
      /\ IsFiniteSet({s}) /\ Cardinality({s}) = 1
  BY FS_EmptySet, FS_Singleton
<1>3. /\ Potential(d)' \in Nat
      /\ Potential(d)' <= Potential(d)
           + Cardinality({}) + Cardinality({}) + Cardinality({s})
  BY <1>1, <1>2, PotentialGrows
<1>4. sends[d] \in Nat
  BY DEF TimerTypeOK
<1>5. Potential(d) \in Nat
  BY <1>4, PotentialParts DEF Potential
<1> QED BY <1>2, <1>3, <1>5

\* A dead session's record lets all others send, from the file and from the .tmp.
LEMMA DeathStep ==
  ASSUME TimerTypeOK, TimerShape, NEW d \in Rounds,
         NEW s \in Processes, ProcessDies(s)
  PROVE  Potential(d)' <= Potential(d) + 2 * Cardinality(Mains)
<1> USE DEF TimerTypeOK, ByHand, ByTmp, ByFile, Lists, MayList, MaySend, Loose, Awaits
<1>1. sends'[d] = sends[d] /\ sends[d] \in Nat
  BY DEF ProcessDies
<1>2. ByHand(d)' \subseteq ByHand(d) \cup {}
  BY HandOwned DEF ProcessDies
<1>3. PICK Z : /\ IsFiniteSet(Z) /\ Cardinality(Z) <= Cardinality(Mains)
               /\ Cardinality(Z) \in Nat
               /\ ByTmp(d)' \subseteq ByTmp(d) \cup Z /\ ByFile(d)' \subseteq ByFile(d) \cup Z
  <2>1. CASE file.box = "mail"
    <3>1. ByTmp(d)' \subseteq ByTmp(d) \cup {s} /\ ByFile(d)' \subseteq ByFile(d) \cup {s}
      BY <2>1 DEF ProcessDies, TimerShape, Asking, InReach, NoTimer
    <3>2. IsFiniteSet({s}) /\ Cardinality({s}) = 1
      BY FS_Singleton
    <3> QED BY <3>1, <3>2, ProcessesFinite
  <2>2. CASE file.box # "mail"
    <3>1. ByTmp(d)' \subseteq ByTmp(d) \cup Mains /\ ByFile(d)' \subseteq ByFile(d) \cup Mains
      BY <2>2 DEF ProcessDies, TimerShape, Asking, InReach, NoTimer, Timers
    <3> QED BY <3>1, ProcessesFinite
  <2> QED BY <2>1, <2>2
<1> HIDE DEF ByHand, ByTmp, ByFile
<1>4. IsFiniteSet({}) /\ Cardinality({}) = 0
  BY FS_EmptySet
<1>5. /\ Potential(d)' \in Nat
      /\ Potential(d)' <= Potential(d)
           + Cardinality({}) + Cardinality(Z) + Cardinality(Z)
  BY <1>1, <1>2, <1>3, <1>4, PotentialGrows
<1>6. Potential(d) \in Nat /\ Cardinality(Mains) \in Nat
  BY <1>1, PotentialParts, ProcessesFinite DEF Potential
<1> QED BY <1>3, <1>4, <1>5, <1>6

\* The records of a session with a late heartbeat let all others send: two of them at most.
LEMMA LateStep ==
  ASSUME TimerTypeOK, TimerShape, NoTriple, NEW d \in Rounds, d <= now,
         NEW s \in Processes, HeartbeatGoesStale(s)
  PROVE  Potential(d)' <= Potential(d) + 2 * Cardinality(Mains)
<1> USE DEF TimerTypeOK, ByHand, ByTmp, ByFile, Lists, MayList, MaySend, Loose, Awaits
<1> DEFINE X == {s} \X Mains
<1>1. sends'[d] = sends[d] /\ sends[d] \in Nat /\ s \in Mains
  BY DEF HeartbeatGoesStale
<1>2. /\ ByHand(d)' \subseteq ByHand(d) \cup X
      /\ ~(step[s] = "write" /\ Own(copy[s], s, d)) => ByHand(d)' \subseteq ByHand(d) \cup {}
  BY <1>1, HandOwned DEF HeartbeatGoesStale, Own
<1>3. /\ ByTmp(d)' \subseteq ByTmp(d) \cup Mains
      /\ ~Own(tmp, s, d) => ByTmp(d)' \subseteq ByTmp(d) \cup {}
  BY <1>1 DEF HeartbeatGoesStale, Own, Timers
<1>4. /\ ByFile(d)' \subseteq ByFile(d) \cup Mains
      /\ ~(Own(file, s, d) \/ \E t \in Processes : step[t] = "judge" /\ Own(copy[t], s, d))
           => ByFile(d)' \subseteq ByFile(d) \cup {}
  BY <1>1 DEF HeartbeatGoesStale, Own, Timers
<1>5. \/ ByHand(d)' \subseteq ByHand(d) \cup {}
      \/ ByTmp(d)' \subseteq ByTmp(d) \cup {}
      \/ ByFile(d)' \subseteq ByFile(d) \cup {}
  BY <1>1, <1>2, <1>3, <1>4 DEF NoTriple, Doubled
<1>6. /\ IsFiniteSet({}) /\ Cardinality({}) = 0
      /\ IsFiniteSet(Mains) /\ Cardinality(Mains) \in Nat
  BY FS_EmptySet, ProcessesFinite
<1>7. IsFiniteSet(X) /\ Cardinality(X) = Cardinality(Mains)
  <2>1. IsFiniteSet({s}) /\ Cardinality({s}) = 1
    BY FS_Singleton
  <2> QED BY <1>6, <2>1, FS_Product
<1> HIDE DEF ByHand, ByTmp, ByFile, X
<1>8. Potential(d) \in Nat
  BY <1>1, PotentialParts DEF Potential
<1>9. CASE ByHand(d)' \subseteq ByHand(d) \cup {}
  <2>1. /\ Potential(d)' \in Nat
        /\ Potential(d)' <= Potential(d)
             + Cardinality({}) + Cardinality(Mains) + Cardinality(Mains)
    BY <1>1, <1>3, <1>4, <1>6, <1>9, PotentialGrows
  <2> QED BY <2>1, <1>6, <1>8
<1>10. CASE ByTmp(d)' \subseteq ByTmp(d) \cup {}
  <2>1. /\ Potential(d)' \in Nat
        /\ Potential(d)' <= Potential(d)
             + Cardinality(X) + Cardinality({}) + Cardinality(Mains)
    BY <1>1, <1>2, <1>4, <1>6, <1>7, <1>10, PotentialGrows
  <2> QED BY <2>1, <1>6, <1>7, <1>8
<1>11. CASE ByFile(d)' \subseteq ByFile(d) \cup {}
  <2>1. /\ Potential(d)' \in Nat
        /\ Potential(d)' <= Potential(d)
             + Cardinality(X) + Cardinality(Mains) + Cardinality({})
    BY <1>1, <1>2, <1>3, <1>6, <1>7, <1>11, PotentialGrows
  <2> QED BY <2>1, <1>6, <1>7, <1>8
<1> QED BY <1>5, <1>9, <1>10, <1>11

-----------------------------------------------------------------------------
(* A round that nobody has sent or listed *)

Unlisted(d) == sends[d] = 0 /\ \A s \in Processes : ~Lists(s, d)

\* What mishaps allow.
Allowed == IF mishaps = 0 THEN 1 ELSE Cardinality(Mains) * (1 + 2 * mishaps)

\* A set of at most one element.
LEMMA SizeOfOne ==
  ASSUME NEW x, NEW S, S \subseteq {x}
  PROVE  Cardinality(S) \in Nat /\ Cardinality(S) <= 1 /\ (S = {} => Cardinality(S) = 0)
<1>1. IsFiniteSet({x}) /\ Cardinality({x}) = 1
  BY FS_Singleton
<1> QED BY <1>1, SizeOfPart, FS_EmptySet

\* Without mishaps the actor alone may send, and by one record.
LEMMA EntryWithoutMishaps ==
  ASSUME TimerTypeOK, TimerShape, Chain, mishaps = 0, NEW d \in Rounds, Unlisted(d)
  PROVE  Potential(d) <= 1
<1> USE DEF TimerTypeOK
<1>1. /\ (\/ Awaits(file, d) \/ Awaits(tmp, d)
          \/ \E s \in Processes : Awaits(copy[s], d) /\ Storing(s))
           => file.box = "mail" \/ (file.box = "root" /\ file.owner \in Mains)
      /\ \A o \in Mains : ~Loose(o)
      /\ Actor \in Processes
  BY DEF Chain, TimerShape, Loose, Actor, Awaits, Storing, InReach, Timers, Processes, NoTimer
<1>2. ByHand(d) \subseteq {<<Actor, Actor>>} /\ (ByHand(d) # {} => step[Actor] = "write")
  <2> SUFFICES ASSUME NEW x \in ByHand(d)
               PROVE  x = <<Actor, Actor>> /\ step[Actor] = "write"
    OBVIOUS
  <2>1. /\ x \in Processes \X Processes /\ step[x[1]] = "write" /\ Awaits(copy[x[1]], d)
        /\ MaySend(x[2], copy[x[1]])
    BY DEF ByHand
  <2>2. /\ Storing(x[1]) /\ x[1] = Actor /\ copy[x[1]].owner = file.owner
        /\ copy[x[1]].box = file.box
    BY <2>1 DEF Chain, TimerShape, Storing, Awaits
  <2>3. x[2] = Actor
    BY <1>1, <2>1, <2>2 DEF MaySend, Actor
  <2> QED BY <2>1, <2>2, <2>3
<1>3. ByTmp(d) \subseteq {Actor} /\ (ByTmp(d) # {} => step[Actor] = "rename" /\ tmp # NoTimer)
  BY <1>1 DEF ByTmp, Awaits, MaySend, Chain, TimerShape, Actor, NoTimer
<1>4. /\ ByFile(d) \subseteq {Actor}
      /\ ByFile(d) # {} => step[Actor] # "write" /\ ~(step[Actor] = "rename" /\ tmp # NoTimer)
  BY <1>1 DEF ByFile, MayList, Unlisted, Awaits, MaySend, Actor
<1>5. /\ Cardinality(ByHand(d)) \in Nat /\ Cardinality(ByHand(d)) <= 1
      /\ Cardinality(ByTmp(d)) \in Nat /\ Cardinality(ByTmp(d)) <= 1
      /\ Cardinality(ByFile(d)) \in Nat /\ Cardinality(ByFile(d)) <= 1
      /\ ByHand(d) = {} => Cardinality(ByHand(d)) = 0
      /\ ByTmp(d) = {} => Cardinality(ByTmp(d)) = 0
      /\ ByFile(d) = {} => Cardinality(ByFile(d)) = 0
  BY <1>2, <1>3, <1>4, SizeOfOne
<1> QED BY <1>2, <1>3, <1>4, <1>5 DEF Potential, Unlisted

\* In a mailbox the tab alone may send.
LEMMA EntryInMailbox ==
  ASSUME TimerTypeOK, TimerShape, file.box = "mail", NEW d \in Rounds, Unlisted(d)
  PROVE  Potential(d) <= 3
<1>1. /\ ByHand(d) \subseteq {<<Tab, Tab>>} /\ ByTmp(d) \subseteq {Tab} /\ ByFile(d) \subseteq {Tab}
  BY DEF TimerTypeOK, TimerShape, Storing, InReach, ByHand, ByTmp, ByFile, MayList, Awaits,
         MaySend, Unlisted, NoTimer
<1>2. /\ Cardinality(ByHand(d)) \in Nat /\ Cardinality(ByHand(d)) <= 1
      /\ Cardinality(ByTmp(d)) \in Nat /\ Cardinality(ByTmp(d)) <= 1
      /\ Cardinality(ByFile(d)) \in Nat /\ Cardinality(ByFile(d)) <= 1
  BY <1>1, SizeOfOne
<1> QED BY <1>2 DEF Potential, Unlisted

\* Loose sessions that hold a record of the round.
LooseHands(d) == {o \in LooseMains : step[o] = "write" /\ Own(copy[o], o, d)}

\* By hand a firm session lets itself send, a loose one everybody.
LEMMA HandBound ==
  ASSUME TimerTypeOK, TimerShape, file.box = "root", NEW d \in Rounds
  PROVE  Cardinality(ByHand(d)) <=
           Cardinality(Mains) - Cardinality(LooseMains)
             + Cardinality(LooseHands(d)) * Cardinality(Mains)
<1> DEFINE firm == {<<o, o>> : o \in Mains \ LooseMains}
           f == [o \in Mains \ LooseMains |-> <<o, o>>]
<1>1. ByHand(d) \subseteq firm \cup (LooseHands(d) \X Mains)
  <2> SUFFICES ASSUME NEW x \in ByHand(d) PROVE x \in firm \cup (LooseHands(d) \X Mains)
    OBVIOUS
  <2>1. /\ x \in Processes \X Processes /\ step[x[1]] = "write" /\ Awaits(copy[x[1]], d)
        /\ MaySend(x[2], copy[x[1]])
    BY DEF ByHand
  <2>2. copy[x[1]].box = "root" /\ copy[x[1]].owner = x[1] /\ x[1] \in Mains
    BY <2>1, HandOwned DEF TimerShape, Storing
  <2>3. x = <<x[1], x[2]>> /\ x[2] \in Mains /\ (x[2] = x[1] \/ x[1] \in LooseMains)
    BY <2>1, <2>2 DEF MaySend, LooseMains
  <2>4. CASE x[1] \in LooseMains
    BY <2>1, <2>2, <2>3, <2>4 DEF LooseHands, Own, Awaits
  <2>5. CASE x[1] \notin LooseMains
    BY <2>2, <2>3, <2>5
  <2> QED BY <2>4, <2>5
<1>2. /\ IsFiniteSet(Mains) /\ IsFiniteSet(LooseMains) /\ IsFiniteSet(LooseHands(d))
      /\ LooseMains \subseteq Mains
  BY ProcessesFinite, FS_Subset DEF LooseMains, LooseHands
<1>3. /\ IsFiniteSet(Mains \ LooseMains)
      /\ Cardinality(Mains \ LooseMains) = Cardinality(Mains) - Cardinality(LooseMains)
  <2>1. Mains \cap LooseMains = LooseMains
    BY <1>2
  <2> QED BY <1>2, <2>1, FS_Difference
<1>4. IsFiniteSet(firm) /\ Cardinality(firm) <= Cardinality(Mains) - Cardinality(LooseMains)
  <2>1. f \in Surjection(Mains \ LooseMains, firm)
    BY DEF Surjection
  <2> HIDE DEF f, firm
  <2> QED BY <1>3, <2>1, FS_Surjection
<1>5. /\ IsFiniteSet(LooseHands(d) \X Mains)
      /\ Cardinality(LooseHands(d) \X Mains) = Cardinality(LooseHands(d)) * Cardinality(Mains)
  BY <1>2, FS_Product
<1>6. /\ Cardinality(ByHand(d)) \in Nat /\ Cardinality(firm) \in Nat
      /\ Cardinality(LooseHands(d) \X Mains) \in Nat
      /\ Cardinality(ByHand(d)) <= Cardinality(firm) + Cardinality(LooseHands(d) \X Mains)
  BY <1>1, <1>4, <1>5, SizeOfUnion
<1>7. Cardinality(Mains) \in Nat /\ Cardinality(LooseMains) \in Nat
  BY <1>2, FS_CardinalityType
<1> HIDE DEF firm
<1>8. \A h, k, p, q \in Nat : \A i \in Int : h <= k + p /\ k <= i /\ p = q => h <= i + q
  OBVIOUS
<1>9. Cardinality(LooseHands(d)) * Cardinality(Mains) \in Nat
  BY <1>5, <1>6
<1> QED BY <1>4, <1>5, <1>6, <1>7, <1>8, <1>9

\* The .tmp's record lets its owner send, or all of them if the owner is loose.
LEMMA TmpBound ==
  ASSUME TimerTypeOK, TimerShape, file.box = "root", NEW d \in Rounds
  PROVE  /\ Cardinality(ByTmp(d)) \in Nat
         /\ Cardinality(ByTmp(d)) <= Cardinality(Mains)
         /\ ~(tmp.owner \in LooseMains /\ Own(tmp, tmp.owner, d)) => Cardinality(ByTmp(d)) <= 1
<1>1. ByTmp(d) \subseteq Mains
  BY DEF TimerShape, ByTmp, MaySend, Awaits, NoTimer
<1>2. ASSUME ~(tmp.owner \in LooseMains /\ Own(tmp, tmp.owner, d))
      PROVE  ByTmp(d) \subseteq {tmp.owner}
  BY <1>2 DEF TimerShape, ByTmp, MaySend, Awaits, NoTimer, Own, LooseMains
<1> QED BY <1>1, <1>2, ProcessesFinite, SizeOfPart, SizeOfOne

\* So does the file's, while nobody has listed it.
LEMMA FileBound ==
  ASSUME TimerTypeOK, TimerShape, file.box = "root", NEW d \in Rounds, Unlisted(d)
  PROVE  /\ Cardinality(ByFile(d)) \in Nat
         /\ Cardinality(ByFile(d)) <= Cardinality(Mains)
         /\ ~(file.owner \in LooseMains /\ Own(file, file.owner, d)) => Cardinality(ByFile(d)) <= 1
<1>1. ByFile(d) \subseteq Mains
  BY DEF TimerShape, ByFile, MayList, Unlisted, MaySend, Awaits, NoTimer
<1>2. ASSUME ~(file.owner \in LooseMains /\ Own(file, file.owner, d))
      PROVE  ByFile(d) \subseteq {file.owner}
  BY <1>2 DEF TimerShape, ByFile, MayList, Unlisted, MaySend, Awaits, NoTimer, Own, LooseMains
<1> QED BY <1>1, <1>2, ProcessesFinite, SizeOfPart, SizeOfOne

\* k loose sessions of n, after m mishaps.
LEMMA RootArithmetic ==
  ASSUME NEW n \in Nat, n >= 1, NEW m \in Nat, m >= 1, NEW k \in Nat, k <= m,
         NEW h \in Nat, NEW t \in Nat, NEW f \in Nat, NEW j \in Nat, j <= k,
         h <= n - k + j * n, t <= n, f <= n,
         k = 0 => t <= 1 /\ f <= 1,
         k = 1 => j = 0 \/ t <= 1 \/ f <= 1
  PROVE  h + t + f <= n * (1 + 2 * m)
<1>1. /\ j * n \in Nat /\ m * n \in Nat /\ k * n \in Nat /\ j * n <= k * n
      /\ k * n <= m * n /\ n * (1 + 2 * m) = n + 2 * (m * n)
  <2>1. \A a, b \in Nat : a <= b => a * n \in Nat /\ b * n \in Nat /\ a * n <= b * n
    <3> TAKE a \in Nat, b \in Nat
    <3> HAVE a <= b
    <3>1. /\ a * n \in Nat /\ (b - a) * n \in Nat
          /\ b * n = a * n + (b - a) * n
      OBVIOUS
    <3> QED BY <3>1
  <2> QED BY <2>1
<1>2. CASE k = 0
  BY <1>1, <1>2
<1>3. CASE k = 1
  <2>1. n <= m * n
    BY <1>1, <1>3
  <2>2. j = 0 \/ j = 1
    BY <1>3
  <2>3. CASE j = 0
    <3>1. h <= n - 1
      BY <1>3, <2>3
    <3> QED BY <1>1, <2>1, <3>1
  <2>4. CASE j = 1
    <3>1. h <= n - 1 + n
      BY <1>3, <2>4
    <3> QED BY <1>1, <1>3, <2>1, <2>4, <3>1
  <2> QED BY <2>2, <2>3, <2>4
<1>4. CASE k >= 2
  <2>1. n + n <= m * n
    <3>1. /\ (m - 2) * n \in Nat /\ m * n = n + n + (m - 2) * n
      BY <1>4
    <3> QED BY <1>1, <3>1
  <2> QED BY <1>1, <1>4, <2>1
<1> QED BY <1>2, <1>3, <1>4

\* In the root directory all may send, each by its own record, and by those of loose sessions:
\* of a single one there are not three.
LEMMA EntryInRoot ==
  ASSUME TimerTypeOK, TimerShape, LooseInv, NoTriple, file.box = "root", mishaps # 0,
         NEW d \in Rounds, Unlisted(d)
  PROVE  Potential(d) <= Cardinality(Mains) * (1 + 2 * mishaps)
<1> DEFINE n == Cardinality(Mains)
           k == Cardinality(LooseMains)
           j == Cardinality(LooseHands(d))
<1>1. /\ n \in Nat /\ n >= 1 /\ mishaps \in Nat /\ mishaps >= 1
      /\ IsFiniteSet(LooseMains) /\ k \in Nat /\ k <= mishaps /\ j \in Nat /\ j <= k
  <2>1. IsFiniteSet(Mains) /\ n \in Nat /\ n >= 1
    BY ProcessesFinite
  <2>2. IsFiniteSet(LooseMains) /\ k \in Nat
    BY <2>1, SizeOfPart DEF LooseMains
  <2>3. j \in Nat /\ j <= k
    BY <2>2, SizeOfPart DEF LooseHands
  <2>4. mishaps \in Nat /\ mishaps >= 1
    BY DEF TimerTypeOK
  <2> QED BY <2>1, <2>2, <2>3, <2>4 DEF LooseInv
<1>2. Cardinality(ByHand(d)) \in Nat /\ Cardinality(ByHand(d)) <= n - k + j * n
  BY HandBound, PotentialParts
<1>3. k = 0 => LooseMains = {}
  BY <1>1, FS_EmptySet
<1>4. k = 1 => \E o \in Mains : LooseMains = {o}
  <2>1. k = 1 => \E o : LooseMains = {o}
    BY <1>1, FS_Singleton
  <2> QED BY <2>1 DEF LooseMains
<1>5. /\ Cardinality(ByTmp(d)) \in Nat /\ Cardinality(ByTmp(d)) <= n
      /\ Cardinality(ByFile(d)) \in Nat /\ Cardinality(ByFile(d)) <= n
  BY TmpBound, FileBound
<1>6. k = 0 => Cardinality(ByTmp(d)) <= 1 /\ Cardinality(ByFile(d)) <= 1
  BY <1>3, TmpBound, FileBound
<1>7. k = 1 => j = 0 \/ Cardinality(ByTmp(d)) <= 1 \/ Cardinality(ByFile(d)) <= 1
  <2> SUFFICES ASSUME k = 1, ~(Cardinality(ByTmp(d)) <= 1), ~(Cardinality(ByFile(d)) <= 1)
               PROVE  j = 0
    OBVIOUS
  <2>1. PICK o \in Mains : LooseMains = {o}
    BY <1>4
  <2>2. Own(tmp, o, d) /\ Own(file, o, d)
    BY <2>1, TmpBound, FileBound
  <2>3. LooseHands(d) = {}
    BY <2>1, <2>2 DEF NoTriple, Doubled, LooseHands
  <2> QED BY <2>3, FS_EmptySet
<1>8. Cardinality(ByHand(d)) + Cardinality(ByTmp(d)) + Cardinality(ByFile(d))
        <= n * (1 + 2 * mishaps)
  <2> HIDE DEF n, k, j
  <2> QED BY <1>1, <1>2, <1>5, <1>6, <1>7, RootArithmetic
<1> QED BY <1>2, <1>5, <1>8 DEF Potential, Unlisted

\* When a round comes it may be sent as often as the mishaps allow.
LEMMA EntryBound ==
  ASSUME TimerTypeOK, TimerShape, LooseInv, NoTriple, Chain, NEW d \in Rounds, Unlisted(d)
  PROVE  Potential(d) <= Allowed
<1>1. CASE mishaps = 0
  BY <1>1, EntryWithoutMishaps DEF Allowed
<1>2. CASE mishaps # 0 /\ file.box = "mail"
  <2>1. Potential(d) <= 3 /\ Potential(d) \in Nat
    BY <1>2, EntryInMailbox, PotentialParts DEF Potential, Unlisted
  <2>2. \A n \in Nat \ {0}, m \in Nat \ {0} : 3 <= n * (1 + 2 * m) /\ n * (1 + 2 * m) \in Nat
    <3> TAKE n \in Nat \ {0}, m \in Nat \ {0}
    <3>1. /\ (n - 1) * (1 + 2 * m) \in Nat
          /\ n * (1 + 2 * m) = (1 + 2 * m) + (n - 1) * (1 + 2 * m)
      OBVIOUS
    <3> QED BY <3>1
  <2>3. mishaps \in Nat \ {0}
    BY <1>2 DEF TimerTypeOK
  <2> QED BY <1>2, <2>1, <2>2, <2>3, ProcessesFinite DEF Allowed
<1>3. CASE mishaps # 0 /\ file.box = "root"
  BY <1>3, EntryInRoot DEF Allowed
<1> QED BY <1>1, <1>2, <1>3 DEF TimerTypeOK, Timers

-----------------------------------------------------------------------------
(* Once a round *)

PotentialInv == \A d \in Rounds : Potential(d) <= Allowed

\* A round that has not come, or whose timer is not set, is not listed; a round that is not
\* listed is within what mishaps allow.
EntryInv ==
  \A d \in Rounds :
    /\ Potential(d) \in Nat
    /\ d > now \/ file = NoTimer => Unlisted(d)
    /\ Unlisted(d) => Potential(d) <= Allowed

\* It follows from the shape of the records and from what mishaps leave behind.
LEMMA EntryHolds ==
  TimerTypeOK /\ TimerShape /\ LooseInv /\ NoTriple /\ Chain => EntryInv
<1> SUFFICES ASSUME TimerTypeOK, TimerShape, LooseInv, NoTriple, Chain, NEW d \in Rounds
             PROVE  /\ Potential(d) \in Nat
                    /\ d > now \/ file = NoTimer => Unlisted(d)
                    /\ Unlisted(d) => Potential(d) <= Allowed
  BY DEF EntryInv
<1>1. sends[d] \in Nat
  BY DEF TimerTypeOK
<1>2. Potential(d) \in Nat
  BY <1>1, PotentialParts DEF Potential
<1>3. d > now \/ file = NoTimer => Unlisted(d)
  BY DEF TimerTypeOK, TimerShape, Unlisted, Lists, Asking, Awaits, Timers, Rounds
<1> QED BY <1>2, <1>3, EntryBound

\* A mishap lets a round be sent by each session twice more.
LEMMA MoreAllowed ==
  ASSUME TimerTypeOK, NEW p \in Nat, p <= Allowed, mishaps' = mishaps + 1,
         NEW q \in Nat, q <= p + 2 * Cardinality(Mains)
  PROVE  q <= Allowed'
<1> DEFINE n == Cardinality(Mains)
<1>1. n \in Nat \ {0} /\ mishaps \in Nat
  BY ProcessesFinite DEF TimerTypeOK
<1>2. Allowed <= n * (1 + 2 * mishaps) /\ Allowed \in Nat /\ n * (1 + 2 * mishaps) \in Nat
  <2>1. CASE mishaps = 0
    BY <1>1, <2>1 DEF Allowed
  <2>2. CASE mishaps # 0
    <3>1. n * (1 + 2 * mishaps) \in Nat
      BY <1>1
    <3> QED BY <2>2, <3>1 DEF Allowed
  <2> QED BY <2>1, <2>2
<1>3. Allowed' = n * (1 + 2 * (mishaps + 1))
  BY <1>1 DEF Allowed
<1>4. n * (1 + 2 * (mishaps + 1)) = n * (1 + 2 * mishaps) + 2 * n
  BY <1>1
<1> HIDE DEF n
<1> QED BY <1>1, <1>2, <1>3, <1>4 DEF n

\* No step raises a round's potential beyond what the mishaps so far allow.
LEMMA PotentialStep ==
  ASSUME TimerTypeOK, TimerShape, NoTriple, EntryInv, PotentialInv, EntryInv',
         [TimersNext]_timerVars
  PROVE  PotentialInv'
<1> SUFFICES ASSUME NEW d \in Rounds PROVE Potential(d)' <= Allowed'
  BY DEF PotentialInv, Rounds
<1>1. /\ Potential(d) <= Allowed /\ Potential(d) \in Nat /\ Potential(d)' \in Nat
      /\ d > now \/ file = NoTimer => Unlisted(d)
      /\ d > now' \/ file' = NoTimer => Potential(d)' <= Allowed'
      /\ Unlisted(d)' => Potential(d)' <= Allowed'
  BY DEF PotentialInv, EntryInv
<1>2. Allowed \in Nat /\ d \in Nat /\ now \in Nat
  BY ProcessesFinite DEF Allowed, TimerTypeOK, Rounds
<1>3. ASSUME mishaps' = mishaps, Potential(d)' <= Potential(d) PROVE Potential(d)' <= Allowed'
  BY <1>1, <1>2, <1>3 DEF Allowed
<1>4. ASSUME mishaps' = mishaps + 1, Potential(d)' <= Potential(d) + 2 * Cardinality(Mains)
      PROVE  Potential(d)' <= Allowed'
  BY <1>1, <1>4, MoreAllowed
<1>5. CASE TimePasses
  <2>1. CASE d <= now
    BY <1>3, <1>5, <2>1, QuietStep DEF TimePasses, Processes
  <2>2. CASE d > now
    <3>1. Unlisted(d)'
      BY <1>1, <1>5, <2>2 DEF TimePasses, Unlisted, Lists, MaySend, Loose
    <3> QED BY <1>1, <3>1
  <2> QED BY <1>2, <2>1, <2>2
<1>6. CASE ~TimePasses
  <2>1. now' = now
    BY <1>6
    DEF TimersNext, CallStep, timerVars, Pump, Judge, Reread, Send, WriteTmp, Rename, Remove, Set,
        Cancel, SweepRead, CallFails, ProcessDies, ProcessStarts, HeartbeatGoesStale, TargetEnds
  <2> SUFFICES ASSUME d <= now PROVE Potential(d)' <= Allowed'
    BY <1>1, <1>2, <2>1
  <2>2. ASSUME NEW s \in Processes, NEW r \in Timers, Set(s, r) PROVE Potential(d)' <= Allowed'
    <3>1. Unlisted(d)'
      BY <1>1, <2>2 DEF Set, Unlisted, Lists, MaySend, Loose
    <3> QED BY <1>1, <3>1
  <2>3. ASSUME NEW s \in Processes,
               \/ Pump(s) \/ Judge(s) \/ Reread(s) \/ Cancel(s) \/ SweepRead(s) \/ Remove(s)
               \/ ProcessStarts(s) \/ (s \notin up /\ HeartbeatGoesStale(s))
        PROVE  Potential(d)' <= Allowed'
    <3>1. mishaps' = mishaps
      BY <2>3
      DEF Pump, Judge, Reread, Cancel, SweepRead, Remove, ProcessStarts, HeartbeatGoesStale
    <3> QED BY <1>3, <2>3, <3>1, QuietStep
  <2>4. ASSUME NEW s \in Processes, Send(s) \/ WriteTmp(s) \/ Rename(s)
        PROVE  Potential(d)' <= Allowed'
    <3>1. mishaps' = mishaps
      BY <2>4 DEF Send, WriteTmp, Rename
    <3> QED BY <1>3, <2>4, <3>1, SendStep, WriteStep, RenameStep
  <2>5. ASSUME NEW s \in Processes, CallFails(s) PROVE Potential(d)' <= Allowed'
    <3>1. Potential(d)' <= Potential(d) + 1 /\ mishaps' = mishaps + 1
      BY <2>5, FailStep DEF CallFails, Mishap
    <3>2. 1 <= 2 * Cardinality(Mains) /\ Cardinality(Mains) \in Nat
      BY ProcessesFinite
    <3> QED BY <1>1, <1>4, <3>1, <3>2
  <2>6. ASSUME NEW s \in Processes, ProcessDies(s) PROVE Potential(d)' <= Allowed'
    BY <1>4, <2>6, DeathStep DEF ProcessDies, Mishap
  <2>7. ASSUME NEW s \in Processes, s \in up, HeartbeatGoesStale(s)
        PROVE  Potential(d)' <= Allowed'
    <3>1. mishaps' = mishaps + 1
      BY <2>7 DEF HeartbeatGoesStale, Mishap
    <3> QED BY <1>4, <2>7, <3>1, LateStep
  <2>8. CASE TargetEnds
    BY <1>3, <2>8, QuietStep DEF TargetEnds, Processes
  <2>9. CASE UNCHANGED timerVars
    BY <1>3, <2>9, QuietStep DEF timerVars, Processes
  <2> QED
    BY <1>6, <2>2, <2>3, <2>4, <2>5, <2>6, <2>7, <2>8, <2>9 DEF TimersNext, CallStep
<1> QED BY <1>5, <1>6

\* All records are of one directory and in the right hands.
THEOREM TimersShape == TimersSpec => []TimerShape
<1>1. TimersInit => TimerShape
  BY DEF TimersInit, TimerShape, NoTimer, Asking, Storing, Processes, Rounds
<1>2. TimerTypeOK /\ TimerShape /\ [TimersNext]_timerVars => TimerShape'
  BY TimerShapeStep
<1> QED BY <1>1, <1>2, TimersTypeOK, PTL DEF TimersSpec

\* A session is loose by a mishap only.
THEOREM TimersLoose == TimersSpec => []LooseInv
<1>1. TimersInit => LooseInv
  BY FS_EmptySet DEF TimersInit, LooseInv, LooseMains, Loose, Processes
<1>2. TimerTypeOK /\ LooseInv /\ [TimersNext]_timerVars => LooseInv'
  BY LooseStep
<1> QED BY <1>1, <1>2, TimersTypeOK, PTL DEF TimersSpec

\* A timer's owner never holds three records of one round.
THEOREM TimersNoTriple == TimersSpec => []NoTriple
<1>1. TimersInit => NoTriple
  BY DEF TimersInit, NoTriple, Doubled, Own, NoTimer
<1>2. TimerTypeOK /\ TimerShape /\ NoTriple /\ [TimersNext]_timerVars => NoTriple'
  BY TripleStep
<1> QED BY <1>1, <1>2, TimersTypeOK, TimersShape, PTL DEF TimersSpec

\* Without mishaps one session alone gets past the judgement.
THEOREM TimersChain == TimersSpec => []Chain
<1>1. TimersInit => Chain
  BY DEF TimersInit, Chain, Asking, Storing, NoTimer
<1>2. TimerTypeOK /\ TimerShape /\ Chain /\ [TimersNext]_timerVars => Chain'
  BY ChainStep
<1> QED BY <1>1, <1>2, TimersTypeOK, TimersShape, PTL DEF TimersSpec

\* What was sent of a round and what may still be sent of it stay within what the mishaps allow.
THEOREM TimersPotential == TimersSpec => []PotentialInv
<1>1. TimersInit /\ EntryInv => PotentialInv
  BY DEF TimersInit, EntryInv, PotentialInv
<1>2. /\ TimerTypeOK /\ TimerShape /\ NoTriple /\ EntryInv /\ PotentialInv /\ EntryInv'
      /\ [TimersNext]_timerVars
      => PotentialInv'
  BY PotentialStep
<1> QED
  BY <1>1, <1>2, EntryHolds, TimersTypeOK, TimersShape, TimersLoose, TimersNoTriple, TimersChain,
     PTL
  DEF TimersSpec

\* Fired and cancelled records are accounted for by what was sent and answered.
THEOREM TimersRecords == TimersSpec => [](FiredInv /\ CancelInv)
<1>1. TimersInit => FiredInv /\ CancelInv
  BY DEF TimersInit, FiredInv, CancelInv, NoTimer
<1>2. TimerTypeOK /\ TimerShape /\ FiredInv /\ [TimersNext]_timerVars => FiredInv'
  BY FiredStep
<1>3. TimerTypeOK /\ TimerShape /\ CancelInv /\ [TimersNext]_timerVars => CancelInv'
  BY CancelStep
<1> QED BY <1>1, <1>2, <1>3, TimersTypeOK, TimersShape, PTL DEF TimersSpec

\* timers-runtime.ts promises a message per round, a cancellation that holds, and a record of
\* what was sent: once a round without mishaps, and in a root directory of n
\* sessions n * (1 + 2m) times
\* after m of them; an answered cancellation that no call overlapped is final; a timer recorded
\* as fired was sent.
THEOREM TimersFiresAccounted == TimersSpec => []FiresAccounted
<1>1. TimerTypeOK /\ EntryInv /\ PotentialInv => OncePerRound
  <2> SUFFICES ASSUME TimerTypeOK, EntryInv, PotentialInv, NEW d \in Rounds
               PROVE  sends[d] <= Allowed
    BY DEF OncePerRound, Allowed
  <2>1. sends[d] \in Nat /\ Potential(d) <= Allowed /\ Allowed \in Nat
    BY ProcessesFinite DEF TimerTypeOK, PotentialInv, Allowed
  <2> QED BY <2>1, PotentialParts DEF Potential
<1>2. FiredInv /\ CancelInv => FiredWasSent /\ CancelHolds
  BY DEF FiredInv, CancelInv, FiredWasSent, CancelHolds
<1>3. TimerTypeOK /\ EntryInv /\ PotentialInv /\ FiredInv /\ CancelInv => FiresAccounted
  BY <1>1, <1>2 DEF FiresAccounted
<1> QED
  BY <1>3, EntryHolds, TimersTypeOK, TimersShape, TimersLoose, TimersNoTriple, TimersChain,
     TimersPotential, TimersRecords, PTL
=============================================================================
