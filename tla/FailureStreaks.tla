--------------------------- MODULE FailureStreaks ---------------------------
(***************************************************************************)
(* How often a check has failed for one reason, as the memory counts it    *)
(* and as it really was, over a sequence of runs that follow one another.  *)
(*                                                                         *)
(* One action is a whole run: the memory is read once the tasks have       *)
(* ended, the streaks are weighed, and the document is stored.             *)
(***************************************************************************)
EXTENDS Escalate

CONSTANTS
  Kinds,  \* how runs start: "scheduled", or "manual" for any other way
  Faults  \* what may go wrong: "memory_read", "memory_push"

VARIABLES
  streaks,  \* the streaks in the stored document
  told,     \* the failure keys the last run escalated
  fails     \* observed: runs that failed this way since the document learned that the
            \* check works

vars == <<streaks, told, fails>>

Init ==
  /\ streaks = NoFailure
  /\ told = {}
  /\ fails = NoFailure

(* Some task of the capability ended in this run without failing.          *)
Works(outcomes, capability) ==
  \E t \in DOMAIN outcomes : CapabilityOf[t] = capability /\ ~ Failed(outcomes[t])

Run(kind, outcomes, recalled, stored) ==
  /\ ~ recalled => "memory_read" \in Faults
  /\ ~ stored => "memory_push" \in Faults
  /\ LET known == IF recalled THEN streaks ELSE NoFailure
         counts == kind = "scheduled"
     IN /\ told' = IF counts THEN Escalations(known, outcomes) ELSE {}
        /\ streaks' = IF ~ stored THEN streaks
                      ELSE IF counts THEN Weigh(known, outcomes)
                      ELSE known
  /\ fails' = [f \in FailureKeys |->
       IF f \in Failing(outcomes) THEN Capped(fails[f] + 1)
       ELSE IF Works(outcomes, CapabilityOf[f]) /\ kind = "scheduled" /\ stored THEN 0
       ELSE fails[f]]

Next ==
  \E kind \in Kinds, ran \in SUBSET Tasks \ {{}} :
    \E outcomes \in [ran -> Outcome], recalled, stored \in BOOLEAN :
      Run(kind, outcomes, recalled, stored)

Spec == Init /\ [][Next]_vars

-----------------------------------------------------------------------------
(* The streaks stay within the bound, and only failure keys are escalated. *)
TypeOK ==
  /\ streaks \in [FailureKeys -> 0..StreakCap]
  /\ told \subseteq FailureKeys
  /\ fails \in [FailureKeys -> 0..StreakCap]

(* A count never overstates anything: a person is told of a failing check  *)
(* only when that many runs really failed for that reason, none of which   *)
(* is older than a scheduled run that found the check working, failed      *)
(* nowhere for that reason and stored its document - whatever runs were    *)
(* started by hand, could not read the document or could not store it.     *)
NeverOverstates == \A f \in told : fails[f] >= FailureThreshold
=============================================================================
