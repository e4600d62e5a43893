------------------------------ MODULE Escalate ------------------------------
(***************************************************************************)
(* When a check keeps failing: the streak of each failure key, counted by  *)
(* the scheduled runs, and the keys that have reached the threshold.       *)
(***************************************************************************)
EXTENDS Checks

CONSTANTS
  FailureThreshold, \* consecutive failures before a person is told
  StreakCap         \* bound on a counted streak; the code's integer has none

ASSUME EscalateAssumption ==
  /\ FailureThreshold \in Nat \ {0}
  /\ StreakCap \in Nat
  /\ FailureThreshold <= StreakCap

(* The failure keys of the tasks that failed in this run.                  *)
Failing(outcomes) ==
  {f \in FailureKeys :
     \E t \in DOMAIN outcomes :
        CapabilityOf[t] = CapabilityOf[f] /\ outcomes[t] = ReasonOf[f]}

(* Capabilities with a task that did not fail, which clears their streaks. *)
Completed(outcomes) ==
  {CapabilityOf[t] : t \in {u \in DOMAIN outcomes : ~ Failed(outcomes[u])}}

(* Mutant: the streak is not held at its bound.                            *)
Uncapped(n) == n

Capped(n) == IF n > StreakCap THEN StreakCap ELSE n

(* Mutant: a check that works does not clear its streaks.                  *)
WeighUncleared(streaks, outcomes) ==
  [f \in FailureKeys |->
     IF f \in Failing(outcomes) THEN Capped(streaks[f] + 1) ELSE streaks[f]]

(* The document's streaks after this run.                                  *)
Weigh(streaks, outcomes) ==
  [f \in FailureKeys |->
     IF f \in Failing(outcomes) THEN Capped(streaks[f] + 1)
     ELSE IF CapabilityOf[f] \in Completed(outcomes) THEN 0
     ELSE streaks[f]]

Escalations(streaks, outcomes) ==
  {f \in Failing(outcomes) : Weigh(streaks, outcomes)[f] >= FailureThreshold}

NoFailure == [f \in FailureKeys |-> 0]
=============================================================================
