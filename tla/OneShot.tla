------------------------------ MODULE OneShot ------------------------------
(***************************************************************************)
(* What executeCommand promises to whoever asks, through whichever         *)
(* entrance: a command that can be executed is begun at most once, and     *)
(* takes effect at most once, while it runs.  It is decided at most once,  *)
(* the decision says whether it took effect, and is never withdrawn; every *)
(* later answer repeats it.  A run that is cut off stays undecided for     *)
(* good: nobody begins the command again.                                  *)
(***************************************************************************)
EXTENDS Naturals

CONSTANTS Keys, Executable

VARIABLES begun, running, effects, decision, answers, spoiled

oneShotVars == <<begun, running, effects, decision, answers, spoiled>>

OneShotInit ==
  /\ begun = {} /\ running = {} /\ spoiled = {}
  /\ effects = [k \in Keys |-> 0]
  /\ decision = [k \in Keys |-> "none"]
  /\ answers = [k \in Keys |-> {}]

Tell(k, a) == answers' = [answers EXCEPT ![k] = @ \cup {a}]

\* The first to ask has the command executed.
Begin(k) ==
  /\ k \in Executable \ begun
  /\ begun' = begun \cup {k}
  /\ running' = running \cup {k}
  /\ UNCHANGED <<effects, decision, answers, spoiled>>

TakeEffect(k) ==
  /\ k \in running /\ effects[k] = 0
  /\ effects' = [effects EXCEPT ![k] = 1]
  /\ UNCHANGED <<begun, running, decision, answers, spoiled>>

Decide(k, r) ==
  /\ k \in running /\ decision[k] = "none"
  /\ r = "accepted" <=> effects[k] = 1
  /\ running' = running \ {k}
  /\ decision' = [decision EXCEPT ![k] = r]
  /\ Tell(k, r)
  /\ UNCHANGED <<begun, effects, spoiled>>

\* A crash ends the run, or an I/O error that the caller is told of.
CutOff(k) ==
  /\ k \in running
  /\ running' = running \ {k}
  /\ spoiled' = spoiled \cup {k}
  /\ Tell(k, "failed") \/ UNCHANGED answers
  /\ UNCHANGED <<begun, effects, decision>>

\* Whoever asks later is told the decision, or that there is none yet.
Repeat(k) ==
  /\ k \in begun
  /\ Tell(k, IF decision[k] = "none" THEN "lost" ELSE decision[k])
  /\ UNCHANGED <<begun, running, effects, decision, spoiled>>

\* An I/O error before the command could be begun.
Fail(k) ==
  /\ k \in Executable
  /\ Tell(k, "failed")
  /\ spoiled' = spoiled \cup {k}
  /\ UNCHANGED <<begun, running, effects, decision>>

Refuse(k) ==
  /\ k \notin Executable
  /\ Tell(k, "rejected")
  /\ UNCHANGED <<begun, running, effects, decision, spoiled>>

OneShotNext ==
  \E k \in Keys :
    \/ Begin(k) \/ TakeEffect(k) \/ CutOff(k) \/ Repeat(k) \/ Fail(k) \/ Refuse(k)
    \/ \E r \in {"accepted", "noop", "rejected", "failed"} : Decide(k, r)

OneShotSpec == OneShotInit /\ [][OneShotNext]_oneShotVars
=============================================================================
