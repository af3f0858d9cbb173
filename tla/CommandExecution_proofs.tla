---------------------- MODULE CommandExecution_proofs ----------------------
(***************************************************************************)
(* Proofs about CommandExecution, for any keys, sessions, letters and      *)
(* bounds: the proofs use no more of the bounds than that they are numbers.*)
(*                                                                         *)
(* Three invariants, each inductive relative to the ones before it:        *)
(*   Inv        types, and the letter a session has in hand;               *)
(*   KeyInv     one executor for a key, and what has been done for it;     *)
(*   LetterInv  what a letter's acknowledgement says of its key.           *)
(* The last section shows from the first two that calls, claims and        *)
(* outcome files implement the one-shot command of module OneShot.         *)
(***************************************************************************)
EXTENDS CommandExecution, TLAPS

USE CommandAssumption
USE DEF fileVars, callVars, historyVars, worldVars, counters, Calm

-----------------------------------------------------------------------------
(* Types *)

Inv == TypeOK /\ LetterInHand

(***************************************************************************)
(* Type correctness is inductive only with LetterInHand: an acknowledgement*)
(* writes what was read before, and keeps the letter's key and claimer     *)
(* only because a claimed letter never becomes pending again.              *)
(***************************************************************************)
THEOREM CommandInv == CommandSpec => []Inv
<1>1. CommandInit => Inv
  BY DEF CommandInit, Inv, TypeOK, LetterInHand, LetterFiles, Results, Answers,
      Processes
<1>2. Inv /\ [CommandNext]_commandVars => Inv'
  <2> SUFFICES ASSUME Inv, CommandNext PROVE Inv'
    BY DEF Inv, TypeOK, LetterInHand, commandVars
  <2> USE DEF Inv, TypeOK, LetterInHand, Processes, Goto, Finish, Answer, Throw, Begin,
              Calling, Consuming, Executing
  <2>1. ASSUME NEW k \in Keys, Request(k) PROVE Inv'
    BY <2>1 DEF Request
  <2>2. ASSUME NEW k \in Keys, NEW l \in Letters, Deliver(l, k) PROVE Inv'
    BY <2>2 DEF Deliver, LetterFiles
  <2>3. ASSUME NEW p \in Processes, TurnAway(p) PROVE Inv'
    BY <2>3 DEF TurnAway, Answers, Results
  <2>4. ASSUME NEW p \in Processes, CreateClaim(p) PROVE Inv'
    BY <2>4 DEF CreateClaim
  <2>5. ASSUME NEW p \in Processes, Replay(p) PROVE Inv'
    BY <2>5 DEF Replay, Answers, Results
  <2>6. ASSUME NEW p \in Processes, LookAtWorkstream(p) PROVE Inv'
    BY <2>6 DEF LookAtWorkstream, Results
  <2>7. ASSUME NEW p \in Processes, LookAtConfig(p) PROVE Inv'
    BY <2>7 DEF LookAtConfig, Results
  <2>8. ASSUME NEW p \in Processes, WriteTarget(p) PROVE Inv'
    BY <2>8 DEF WriteTarget, Results, Target
  <2>9. ASSUME NEW p \in Processes, RecordOutcome(p) PROVE Inv'
    BY <2>9 DEF RecordOutcome, Answers, Results
  <2>10. ASSUME NEW p \in Processes, WriteFails(p) PROVE Inv'
    BY <2>10 DEF WriteFails, Answers, Results
  <2>11. ASSUME NEW p \in Processes, StateFails(p) PROVE Inv'
    BY <2>11 DEF StateFails, Answers, Results
  <2>12. ASSUME NEW p \in Processes, Crash(p) PROVE Inv'
    <3>1. p # Host /\ pc[p] # "idle" => at[p] \in Letters
      OBVIOUS
    <3>2. pc[p] \in Executing => job[p] \in Keys
      OBVIOUS
    <3>3. spoiled' \subseteq Keys /\ abandoned' \subseteq Letters
      BY <2>12, <3>1, <3>2 DEF Crash
    <3>4. consuming' \in [Sessions -> BOOLEAN]
      BY <2>12 DEF Crash
    <3> QED BY <2>12, <3>3, <3>4 DEF Crash
  <2>13. ASSUME NEW s \in Sessions, NEW l \in Letters, ListCommand(s, l) PROVE Inv'
    BY <2>13 DEF ListCommand, LetterFiles
  <2>14. ASSUME NEW s \in Sessions, ReadLetter(s) PROVE Inv'
    BY <2>14 DEF ReadLetter, LetterFiles
  <2>15. ASSUME NEW s \in Sessions, ClaimLetter(s) PROVE Inv'
    BY <2>15 DEF ClaimLetter, LetterFiles
  <2>16. ASSUME NEW s \in Sessions, PassFence(s) PROVE Inv'
    BY <2>16 DEF PassFence, LetterFiles
  <2>17. ASSUME NEW s \in Sessions, ReadToAck(s) PROVE Inv'
    BY <2>17 DEF ReadToAck, LetterFiles
  <2>18. ASSUME NEW s \in Sessions, AckLetter(s) PROVE Inv'
    BY <2>18 DEF AckLetter, LetterFiles
  <2>19. ASSUME NEW s \in Sessions, LetterFails(s) PROVE Inv'
    BY <2>19 DEF LetterFails, LetterFiles
  <2>20. ASSUME NEW s \in Sessions, OwnerMoves(s) PROVE Inv'
    BY <2>20 DEF OwnerMoves
  <2>21. ASSUME NEW st \in {"active", "paused"}, Edit(st) PROVE Inv'
    BY <2>21 DEF Edit
  <2> QED
    BY <2>1, <2>2, <2>3, <2>4, <2>5, <2>6, <2>7, <2>8, <2>9, <2>10, <2>11, <2>12,
        <2>13, <2>14, <2>15, <2>16, <2>17, <2>18, <2>19, <2>20, <2>21
    DEF CommandNext, Execute, Fails, ConsumerStep
<1> QED
  BY <1>1, <1>2, PTL DEF CommandSpec

(***************************************************************************)
(* Type correctness.                                                       *)
(***************************************************************************)
THEOREM CommandTypeOK == CommandSpec => []TypeOK
<1>1. Inv => TypeOK
  BY DEF Inv
<1> QED BY CommandInv, <1>1, PTL

(***************************************************************************)
(* A session executes and acknowledges the letter that it has claimed.     *)
(***************************************************************************)
THEOREM CommandLetterInHand == CommandSpec => []LetterInHand
<1>1. Inv => LetterInHand
  BY DEF Inv
<1> QED BY CommandInv, <1>1, PTL

-----------------------------------------------------------------------------
(* Keys *)

\* The exclusive create lets one process execute a key's command.
OneExecutor ==
  \A p, q \in Processes :
    pc[p] \in Executing /\ pc[q] \in Executing /\ job[p] = job[q] => p = q

\* It executes after its claim and before the outcome.
ExecutorClaimed ==
  \A p \in Processes :
    /\ pc[p] \in Executing => job[p] \in claimed /\ outcome[job[p]] = "none"
    /\ pc[p] = "lookup" => job[p] \in claimed

Unclaimed ==
  \A k \in Keys :
    /\ k \notin claimed => outcome[k] = "none" /\ effects[k] = 0
    /\ KindOf[k] = "other" => k \notin claimed

\* How often a command whose handler returned r has written its target.
EffectOf(r) == IF r = "accepted" THEN 1 ELSE 0

EffectSoFar ==
  /\ \A p \in Processes :
       /\ pc[p] \in {"look", "write"} => effects[job[p]] = 0
       /\ pc[p] = "record" => effects[job[p]] = EffectOf(result[p])
  /\ \A k \in Keys : outcome[k] # "none" => effects[k] = EffectOf(outcome[k])

\* Every answer repeats the outcome, or has an excuse.
AnswersRecorded ==
  \A k \in Keys : \A a \in answers[k] \ {"lost"} :
    \/ outcome[k] = a
    \/ a = "failed" /\ k \in spoiled
    \/ a = "rejected" /\ KindOf[k] = "other"

KeyInv ==
  /\ OneExecutor /\ ExecutorClaimed /\ Unclaimed
  /\ EffectSoFar /\ AtMostOnce /\ AnswersRecorded

(***************************************************************************)
(* What has been done for a key, known from its files and its executor.    *)
(***************************************************************************)
THEOREM CommandKeyInv == CommandSpec => []KeyInv
<1> USE DEF KeyInv, OneExecutor, ExecutorClaimed, Unclaimed, EffectSoFar, EffectOf,
            AtMostOnce, AnswersRecorded
<1>1. CommandInit => KeyInv
  BY DEF CommandInit, Executing
<1>2. Inv /\ KeyInv /\ [CommandNext]_commandVars => KeyInv'
  <2> SUFFICES ASSUME Inv, KeyInv, CommandNext PROVE KeyInv'
    BY DEF commandVars
  <2> USE DEF Inv, TypeOK, Processes, Goto, Finish, Answer, Throw, Begin, Executing,
            Results
  <2>1. ASSUME NEW k \in Keys, Request(k) PROVE KeyInv'
    BY <2>1 DEF Request
  <2>2. ASSUME NEW k \in Keys, NEW l \in Letters, Deliver(l, k) PROVE KeyInv'
    BY <2>2 DEF Deliver
  <2>3. ASSUME NEW p \in Processes, TurnAway(p) PROVE KeyInv'
    BY <2>3 DEF TurnAway
  <2>4. ASSUME NEW p \in Processes, CreateClaim(p) PROVE KeyInv'
    BY <2>4 DEF CreateClaim
  <2>5. ASSUME NEW p \in Processes, Replay(p) PROVE KeyInv'
    BY <2>5 DEF Replay
  <2>6. ASSUME NEW p \in Processes, LookAtWorkstream(p) PROVE KeyInv'
    BY <2>6 DEF LookAtWorkstream
  <2>7. ASSUME NEW p \in Processes, LookAtConfig(p) PROVE KeyInv'
    BY <2>7 DEF LookAtConfig
  <2>8. ASSUME NEW p \in Processes, WriteTarget(p) PROVE KeyInv'
    BY <2>8 DEF WriteTarget
  <2>9. ASSUME NEW p \in Processes, RecordOutcome(p) PROVE KeyInv'
    <3>1. /\ job[p] \in Keys /\ result[p] \in Results
          /\ job[p] \in claimed /\ outcome[job[p]] = "none"
          /\ effects[job[p]] = EffectOf(result[p])
      BY <2>9 DEF RecordOutcome
    <3>2. OneExecutor' /\ ExecutorClaimed'
      BY <2>9, <3>1 DEF RecordOutcome
    <3>3. Unclaimed' /\ AtMostOnce'
      BY <2>9, <3>1 DEF RecordOutcome
    <3>4. EffectSoFar'
      BY <2>9, <3>1 DEF RecordOutcome
    <3>5. ASSUME NEW k \in Keys, NEW a \in answers'[k] \ {"lost"}
          PROVE  \/ outcome'[k] = a
                 \/ a = "failed" /\ k \in spoiled'
                 \/ a = "rejected" /\ KindOf[k] = "other"
      <4>1. CASE k = job[p]
        <5>1. a = result[p] \/ a \in answers[k] \ {"lost"}
          BY <2>9, <3>5, <4>1 DEF RecordOutcome
        <5>2. a \in answers[k] \ {"lost"} => a # "none"
          BY DEF Answers
        <5> QED BY <2>9, <3>1, <4>1, <5>1, <5>2 DEF RecordOutcome
      <4>2. CASE k # job[p]
        BY <2>9, <3>5, <4>2 DEF RecordOutcome
      <4> QED BY <4>1, <4>2
    <3> QED BY <3>2, <3>3, <3>4, <3>5
  <2>10. ASSUME NEW p \in Processes, WriteFails(p) PROVE KeyInv'
    BY <2>10 DEF WriteFails
  <2>11. ASSUME NEW p \in Processes, StateFails(p) PROVE KeyInv'
    BY <2>11 DEF StateFails
  <2>12. ASSUME NEW p \in Processes, Crash(p) PROVE KeyInv'
    BY <2>12 DEF Crash
  <2>13. ASSUME NEW s \in Sessions, NEW l \in Letters, ListCommand(s, l) PROVE KeyInv'
    BY <2>13 DEF ListCommand
  <2>14. ASSUME NEW s \in Sessions, ReadLetter(s) PROVE KeyInv'
    BY <2>14 DEF ReadLetter
  <2>15. ASSUME NEW s \in Sessions, ClaimLetter(s) PROVE KeyInv'
    BY <2>15 DEF ClaimLetter
  <2>16. ASSUME NEW s \in Sessions, PassFence(s) PROVE KeyInv'
    BY <2>16 DEF PassFence
  <2>17. ASSUME NEW s \in Sessions, ReadToAck(s) PROVE KeyInv'
    BY <2>17 DEF ReadToAck
  <2>18. ASSUME NEW s \in Sessions, AckLetter(s) PROVE KeyInv'
    BY <2>18 DEF AckLetter
  <2>19. ASSUME NEW s \in Sessions, LetterFails(s) PROVE KeyInv'
    BY <2>19 DEF LetterFails
  <2>20. ASSUME NEW s \in Sessions, OwnerMoves(s) PROVE KeyInv'
    BY <2>20 DEF OwnerMoves
  <2>21. ASSUME NEW st \in {"active", "paused"}, Edit(st) PROVE KeyInv'
    BY <2>21 DEF Edit
  <2> QED
    BY <2>1, <2>2, <2>3, <2>4, <2>5, <2>6, <2>7, <2>8, <2>9, <2>10, <2>11, <2>12,
        <2>13, <2>14, <2>15, <2>16, <2>17, <2>18, <2>19, <2>20, <2>21
    DEF CommandNext, Execute, Fails, ConsumerStep
<1> QED
  BY CommandInv, <1>1, <1>2, PTL DEF CommandSpec

(***************************************************************************)
(* No command takes effect twice.                                          *)
(***************************************************************************)
THEOREM CommandAtMostOnce == CommandSpec => []AtMostOnce
<1>1. KeyInv => AtMostOnce
  BY DEF KeyInv
<1> QED BY CommandKeyInv, <1>1, PTL

(***************************************************************************)
(* What was answered about a command is so, and stays so.                  *)
(***************************************************************************)
THEOREM CommandAnswersTrue == CommandSpec => []AnswersTrue
<1>1. Inv /\ KeyInv => AnswersTrue
  BY DEF Inv, TypeOK, KeyInv, AnswersRecorded, EffectSoFar, EffectOf, Unclaimed,
      AnswersTrue
<1> QED BY CommandInv, CommandKeyInv, <1>1, PTL

(***************************************************************************)
(* All entrances answer alike.                                             *)
(***************************************************************************)
THEOREM CommandAnswersAgree == CommandSpec => []AnswersAgree
<1>1. Inv /\ KeyInv => AnswersAgree
  BY DEF Inv, TypeOK, Answers, Results, KeyInv, AnswersRecorded, Unclaimed, AnswersAgree
<1> QED BY CommandInv, CommandKeyInv, <1>1, PTL

-----------------------------------------------------------------------------
(* Letters *)

Decided(k) ==
  \/ outcome[k] # "none" \/ KindOf[k] = "other" \/ k \in spoiled
  \/ \E p \in Processes : pc[p] \in Executing /\ job[p] = k

\* An executor leaves its key with an outcome, or spoiled.
ClaimedDecided == \A k \in claimed : Decided(k)

\* The keys of which executeCommand can have returned.  None ever leaves the set.
AnsweredKeys == claimed \cup spoiled \cup {k \in Keys : KindOf[k] = "other"}

AckedAnswered ==
  /\ \A s \in Sessions : pc[s] \in {"ack", "writeAck"} => job[s] \in AnsweredKeys
  /\ \A l \in Letters : letter[l].status = "acked" => letter[l].key \in AnsweredKeys

LetterInv == ClaimedDecided /\ AckedAnswered

(***************************************************************************)
(* A letter is acknowledged after executeCommand has returned for its key. *)
(***************************************************************************)
THEOREM CommandLetterInv == CommandSpec => []LetterInv
<1> USE DEF LetterInv, ClaimedDecided, Decided, AckedAnswered, AnsweredKeys
<1>1. CommandInit => LetterInv
  BY DEF CommandInit, Processes
<1>2. Inv /\ KeyInv /\ LetterInv /\ [CommandNext]_commandVars => LetterInv'
  <2> SUFFICES ASSUME Inv, KeyInv, LetterInv, CommandNext PROVE LetterInv'
    BY DEF commandVars
  <2> USE DEF Inv, TypeOK, LetterInHand, LetterFiles, KeyInv, ExecutorClaimed,
            Unclaimed,
              Processes, Goto, Finish, Answer, Throw, Begin, Calling, Executing, Results
  <2>1. ASSUME NEW k \in Keys, Request(k) PROVE LetterInv'
    BY <2>1 DEF Request
  <2>2. ASSUME NEW k \in Keys, NEW l \in Letters, Deliver(l, k) PROVE LetterInv'
    BY <2>2 DEF Deliver
  <2>3. ASSUME NEW p \in Processes, TurnAway(p) PROVE LetterInv'
    BY <2>3 DEF TurnAway
  <2>4. ASSUME NEW p \in Processes, CreateClaim(p) PROVE LetterInv'
    BY <2>4 DEF CreateClaim
  <2>5. ASSUME NEW p \in Processes, Replay(p) PROVE LetterInv'
    BY <2>5 DEF Replay
  <2>6. ASSUME NEW p \in Processes, LookAtWorkstream(p) PROVE LetterInv'
    BY <2>6 DEF LookAtWorkstream
  <2>7. ASSUME NEW p \in Processes, LookAtConfig(p) PROVE LetterInv'
    BY <2>7 DEF LookAtConfig
  <2>8. ASSUME NEW p \in Processes, WriteTarget(p) PROVE LetterInv'
    BY <2>8 DEF WriteTarget
  <2>9. ASSUME NEW p \in Processes, RecordOutcome(p) PROVE LetterInv'
    BY <2>9 DEF RecordOutcome
  <2>10. ASSUME NEW p \in Processes, WriteFails(p) PROVE LetterInv'
    <3>1. ClaimedDecided'
      BY <2>10 DEF WriteFails
    <3>2. AckedAnswered'
      BY <2>10 DEF WriteFails
    <3> QED BY <3>1, <3>2
  <2>11. ASSUME NEW p \in Processes, StateFails(p) PROVE LetterInv'
    BY <2>11 DEF StateFails
  <2>12. ASSUME NEW p \in Processes, Crash(p) PROVE LetterInv'
    BY <2>12 DEF Crash
  <2>13. ASSUME NEW s \in Sessions, NEW l \in Letters, ListCommand(s, l) PROVE LetterInv'
    BY <2>13 DEF ListCommand
  <2>14. ASSUME NEW s \in Sessions, ReadLetter(s) PROVE LetterInv'
    BY <2>14 DEF ReadLetter
  <2>15. ASSUME NEW s \in Sessions, ClaimLetter(s) PROVE LetterInv'
    BY <2>15 DEF ClaimLetter
  <2>16. ASSUME NEW s \in Sessions, PassFence(s) PROVE LetterInv'
    BY <2>16 DEF PassFence
  <2>17. ASSUME NEW s \in Sessions, ReadToAck(s) PROVE LetterInv'
    BY <2>17 DEF ReadToAck
  <2>18. ASSUME NEW s \in Sessions, AckLetter(s) PROVE LetterInv'
    BY <2>18 DEF AckLetter
  <2>19. ASSUME NEW s \in Sessions, LetterFails(s) PROVE LetterInv'
    BY <2>19 DEF LetterFails
  <2>20. ASSUME NEW s \in Sessions, OwnerMoves(s) PROVE LetterInv'
    BY <2>20 DEF OwnerMoves
  <2>21. ASSUME NEW st \in {"active", "paused"}, Edit(st) PROVE LetterInv'
    BY <2>21 DEF Edit
  <2> QED
    BY <2>1, <2>2, <2>3, <2>4, <2>5, <2>6, <2>7, <2>8, <2>9, <2>10, <2>11, <2>12,
        <2>13, <2>14, <2>15, <2>16, <2>17, <2>18, <2>19, <2>20, <2>21
    DEF CommandNext, Execute, Fails, ConsumerStep
<1> QED
  BY CommandInv, CommandKeyInv, <1>1, <1>2, PTL DEF CommandSpec

(***************************************************************************)
(* No command letter is acknowledged undecided.                            *)
(***************************************************************************)
THEOREM CommandAckedWasDecided == CommandSpec => []AckedWasDecided
<1>1. Inv /\ LetterInv => AckedWasDecided
  BY DEF Inv, TypeOK, LetterFiles, LetterInv, ClaimedDecided, Decided, AckedAnswered,
         AnsweredKeys, AckedWasDecided
<1> QED BY CommandInv, CommandLetterInv, <1>1, PTL

-----------------------------------------------------------------------------
(* Refinement *)

(***************************************************************************)
(* A step that leaves claims, outcomes and histories alone, and every      *)
(* process as much an executor of its key as before, is a stutter.         *)
(***************************************************************************)
LEMMA CommandStutters ==
  ASSUME UNCHANGED <<claimed, outcome, effects, answers, spoiled>>,
         \A p \in Processes :
           /\ (pc'[p] \in Executing) = (pc[p] \in Executing)
           /\ pc[p] \in Executing => job'[p] = job[p]
  PROVE  UNCHANGED OS!oneShotVars
<1>1. Running' = Running
  BY DEF Running
<1> QED BY <1>1 DEF OS!oneShotVars

(***************************************************************************)
(* When an executor leaves its key, nobody runs the key any more, and the  *)
(* other keys are run as before: two executors of a key would break this.  *)
(***************************************************************************)
LEMMA LeavesRunning ==
  ASSUME KeyInv, NEW p \in Processes, pc[p] \in Executing,
         pc'[p] \notin Executing,
         \A q \in Processes \ {p} : pc'[q] = pc[q] /\ job'[q] = job[q]
  PROVE  job[p] \in Keys => job[p] \in Running /\ Running' = Running \ {job[p]}
BY DEF KeyInv, OneExecutor, Running

(***************************************************************************)
(* The files of state/commands make one-shot commands of the keys: every   *)
(* step of a call, and every crash, is a step of OneShot or changes nothing*)
(* that it speaks of.                                                      *)
(***************************************************************************)
THEOREM CommandImplementsOneShot == CommandSpec => ImplementsOneShot
<1>1. CommandInit => OS!OneShotInit
  BY DEF CommandInit, OS!OneShotInit, Running, Executing
<1>2. Inv /\ KeyInv /\ [CommandNext]_commandVars => [OS!OneShotNext]_(OS!oneShotVars)
  <2> SUFFICES ASSUME Inv, KeyInv, [CommandNext]_commandVars
               PROVE  OS!OneShotNext \/ UNCHANGED OS!oneShotVars
    OBVIOUS
  <2> USE DEF Goto, Finish, Answer, Throw, Begin, Executing
  <2>0. \A p \in Processes : pc[p] # "idle" => job[p] \in Keys
    BY DEF Inv, TypeOK
  <2>t. /\ pc \in [Processes -> {"idle"} \cup Calling \cup Consuming]
        /\ job \in [Processes -> Keys \cup {NoKey}]
        /\ effects \in [Keys -> Nat]
        /\ outcome \in [Keys -> Results \cup {"none"}]
        /\ Host \in Processes /\ Sessions \subseteq Processes
    BY DEF Inv, TypeOK, Processes
  <2> HIDE CommandAssumption
  <2>1. ASSUME NEW k \in Keys, Request(k) PROVE UNCHANGED OS!oneShotVars
    BY <2>1, <2>t, CommandStutters DEF Request
  <2>2. ASSUME NEW k \in Keys, NEW l \in Letters, Deliver(l, k)
        PROVE  UNCHANGED OS!oneShotVars
    BY <2>2, CommandStutters DEF Deliver
  <2>3. ASSUME NEW p \in Processes, TurnAway(p) PROVE OS!OneShotNext
    <3>1. OS!Refuse(job[p])
      <4>1. Running' = Running
        BY <2>3, <2>t DEF TurnAway, Running
      <4> QED BY <2>3, <4>1 DEF TurnAway, OS!Refuse, OS!Tell
    <3> QED BY <2>0, <2>3, <3>1 DEF TurnAway, OS!OneShotNext
  <2>4. ASSUME NEW p \in Processes, CreateClaim(p)
        PROVE  OS!OneShotNext \/ UNCHANGED OS!oneShotVars
    <3>1. CASE job[p] \in claimed
      BY <2>4, <2>t, <3>1, CommandStutters DEF CreateClaim
    <3>2. CASE job[p] \notin claimed
      <4>1. Running' = Running \cup {job[p]}
        BY <2>0, <2>4, <2>t, <3>2 DEF CreateClaim, Running
      <4>2. OS!Begin(job[p])
        BY <2>0, <2>4, <3>2, <4>1 DEF CreateClaim, OS!Begin
      <4> QED BY <2>0, <2>4, <4>2 DEF CreateClaim, OS!OneShotNext
    <3> QED BY <3>1, <3>2
  <2>5. ASSUME NEW p \in Processes, Replay(p) PROVE OS!OneShotNext
    <3>1. job[p] \in claimed
      BY <2>5 DEF Replay, KeyInv, ExecutorClaimed
    <3>2. Running' = Running
      BY <2>5, <2>t DEF Replay, Running
    <3>3. OS!Repeat(job[p])
      BY <2>5, <3>1, <3>2 DEF Replay, OS!Repeat, OS!Tell
    <3> QED BY <2>0, <2>5, <3>3 DEF Replay, OS!OneShotNext
  <2>6. ASSUME NEW p \in Processes, LookAtWorkstream(p) PROVE UNCHANGED OS!oneShotVars
    BY <2>6, <2>t, CommandStutters DEF LookAtWorkstream
  <2>7. ASSUME NEW p \in Processes, LookAtConfig(p) PROVE UNCHANGED OS!oneShotVars
    BY <2>7, <2>t, CommandStutters DEF LookAtConfig
  <2>8. ASSUME NEW p \in Processes, WriteTarget(p) PROVE OS!OneShotNext
    <3>1. job[p] \in Running /\ Running' = Running
      BY <2>0, <2>8, <2>t DEF WriteTarget, Running
    <3>2. effects[job[p]] = 0
      BY <2>8 DEF WriteTarget, KeyInv, EffectSoFar
    <3>3. OS!TakeEffect(job[p])
      BY <2>8, <3>1, <3>2 DEF WriteTarget, OS!TakeEffect
    <3> QED BY <2>0, <2>8, <3>3 DEF WriteTarget, OS!OneShotNext
  <2>9. ASSUME NEW p \in Processes, RecordOutcome(p) PROVE OS!OneShotNext
    <3>1. job[p] \in Running /\ Running' = Running \ {job[p]}
      BY <2>0, <2>9, <2>t, LeavesRunning DEF RecordOutcome
    <3>2. outcome[job[p]] = "none" /\ effects[job[p]] = EffectOf(result[p])
      BY <2>9 DEF RecordOutcome, KeyInv, ExecutorClaimed, EffectSoFar
    <3>3. OS!Decide(job[p], result[p])
      BY <2>9, <3>1, <3>2 DEF RecordOutcome, EffectOf, OS!Decide, OS!Tell
    <3>4. result[p] \in {"accepted", "noop", "rejected", "failed"}
      BY <2>9 DEF RecordOutcome, Inv, TypeOK, Results
    <3> QED BY <2>0, <2>9, <3>3, <3>4 DEF RecordOutcome, OS!OneShotNext
  <2>10. ASSUME NEW p \in Processes, WriteFails(p)
         PROVE  OS!OneShotNext \/ UNCHANGED OS!oneShotVars
    <3>1. CASE KindOf[job[p]] = "auto"
      BY <2>10, <2>t, <3>1, CommandStutters DEF WriteFails
    <3>2. CASE KindOf[job[p]] # "auto"
      <4>1. job[p] \in Running /\ Running' = Running \ {job[p]}
        BY <2>0, <2>10, <2>t, <3>2, LeavesRunning DEF WriteFails
      <4>2. OS!CutOff(job[p])
        BY <2>10, <3>2, <4>1 DEF WriteFails, OS!CutOff, OS!Tell
      <4> QED BY <2>0, <2>10, <4>2 DEF WriteFails, OS!OneShotNext
    <3> QED BY <3>1, <3>2
  <2>11. ASSUME NEW p \in Processes, StateFails(p) PROVE OS!OneShotNext
    <3>1. CASE pc[p] = "record"
      <4>1. job[p] \in Running /\ Running' = Running \ {job[p]}
        BY <2>0, <2>11, <2>t, <3>1, LeavesRunning DEF StateFails
      <4>2. OS!CutOff(job[p])
        BY <2>11, <3>1, <4>1 DEF StateFails, OS!CutOff, OS!Tell
      <4> QED BY <2>0, <3>1, <4>2 DEF OS!OneShotNext
    <3>2. CASE pc[p] = "create"
      <4>1. Running' = Running
        BY <2>11, <2>t, <3>2 DEF StateFails, Running
      <4>2. OS!Fail(job[p])
        BY <2>0, <2>11, <3>2, <4>1 DEF StateFails, OS!Fail, OS!Tell
      <4> QED BY <2>0, <3>2, <4>2 DEF OS!OneShotNext
    <3> QED BY <2>11, <3>1, <3>2 DEF StateFails
  <2>12. ASSUME NEW p \in Processes, Crash(p)
         PROVE  OS!OneShotNext \/ UNCHANGED OS!oneShotVars
    <3>1. CASE pc[p] \in Executing
      <4>1. job[p] \in Running /\ Running' = Running \ {job[p]}
        BY <2>0, <2>12, <2>t, <3>1, LeavesRunning DEF Crash
      <4>2. OS!CutOff(job[p])
        BY <2>12, <3>1, <4>1 DEF Crash, OS!CutOff
      <4> QED BY <2>0, <3>1, <4>2 DEF OS!OneShotNext
    <3>2. CASE pc[p] \notin Executing
      BY <2>12, <2>t, <3>2, CommandStutters DEF Crash
    <3> QED BY <3>1, <3>2
  <2>13. ASSUME NEW s \in Sessions, NEW l \in Letters, ListCommand(s, l)
         PROVE  UNCHANGED OS!oneShotVars
    BY <2>13, <2>t, CommandStutters DEF ListCommand
  <2>14. ASSUME NEW s \in Sessions, ReadLetter(s) PROVE UNCHANGED OS!oneShotVars
    BY <2>14, <2>t, CommandStutters DEF ReadLetter
  <2>15. ASSUME NEW s \in Sessions, ClaimLetter(s) PROVE UNCHANGED OS!oneShotVars
    BY <2>15, <2>t, CommandStutters DEF ClaimLetter
  <2>16. ASSUME NEW s \in Sessions, PassFence(s) PROVE UNCHANGED OS!oneShotVars
    BY <2>16, <2>t, CommandStutters DEF PassFence
  <2>17. ASSUME NEW s \in Sessions, ReadToAck(s) PROVE UNCHANGED OS!oneShotVars
    BY <2>17, <2>t, CommandStutters DEF ReadToAck
  <2>18. ASSUME NEW s \in Sessions, AckLetter(s) PROVE UNCHANGED OS!oneShotVars
    BY <2>18, <2>t, CommandStutters DEF AckLetter
  <2>19. ASSUME NEW s \in Sessions, LetterFails(s) PROVE UNCHANGED OS!oneShotVars
    BY <2>19, <2>t, CommandStutters DEF LetterFails
  <2>20. ASSUME NEW s \in Sessions, OwnerMoves(s) PROVE UNCHANGED OS!oneShotVars
    BY <2>20, CommandStutters DEF OwnerMoves
  <2>21. ASSUME NEW st \in {"active", "paused"}, Edit(st) PROVE UNCHANGED OS!oneShotVars
    BY <2>21, CommandStutters DEF Edit
  <2>22. CASE UNCHANGED commandVars
    BY <2>22, CommandStutters DEF commandVars
  <2> QED
    BY <2>1, <2>2, <2>3, <2>4, <2>5, <2>6, <2>7, <2>8, <2>9, <2>10, <2>11, <2>12,
        <2>13, <2>14, <2>15, <2>16, <2>17, <2>18, <2>19, <2>20, <2>21, <2>22
    DEF CommandNext, Execute, Fails, ConsumerStep
<1> QED
  BY CommandInv, CommandKeyInv, <1>1, <1>2, PTL
  DEF CommandSpec, ImplementsOneShot, OS!OneShotSpec
=============================================================================
