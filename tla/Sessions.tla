------------------------------ MODULE Sessions ------------------------------
(***************************************************************************)
(* The sessions of one run: analysis tasks overlap up to the run's         *)
(* parallelism, then fix tasks do, and all of them draw on one ledger of   *)
(* tokens.  A task gets a second attempt when its session never started or *)
(* its result was refused.                                                 *)
(*                                                                         *)
(* The event loop is one thread.  A step below runs from one suspension of *)
(* a task to its next.                                                     *)
(***************************************************************************)
EXTENDS Integers, FiniteSets, Functions

CONSTANTS
  Analysts, Fixers,  \* the tasks of the plan and the jobs of the fix queue
  Order,             \* the order they are planned in
  MaxParallel,       \* tasks at once
  Tokens, Reserve,   \* what a run may spend, and what of it is kept for fixers
  MaxAttempts,
  Endings,           \* how sessions end
  Says,              \* whether a session says what it used: a set of Booleans
  MaxUse             \* bound on what a session uses

Tasks == Analysts \cup Fixers

(* Failures of a session, and the ways one that did not fail ends.         *)
Failures == {"not-started", "failed", "timed-out"}
AllEndings == Failures \cup {"invalid", "valid"}

ASSUME SessionAssumption ==
  /\ IsFiniteSet(Tasks)
  /\ Analysts \cap Fixers = {}
  /\ Order \in [Tasks -> Nat]
  /\ \A t, u \in Tasks : Order[t] = Order[u] => t = u
  /\ MaxParallel \in Nat \ {0} /\ MaxAttempts \in Nat \ {0}
  /\ Tokens \in Nat /\ Reserve \in Nat /\ MaxUse \in Nat
  /\ Tokens > Reserve
  /\ Endings \subseteq AllEndings /\ Says \subseteq BOOLEAN

VARIABLES
  stage,  \* whose tasks run
  slots,  \* free slots of the stage's semaphore
  task,   \* what each task has come to
  spend   \* what the ledger has been told

vars == <<stage, slots, task, spend>>

Reasons == {"none", "unavailable", "exhausted", "invalid-result"}

Untouched ==
  [state |-> "waiting", attempts |-> 0, used |-> 0, silent |-> 0,
   failure |-> "none", rejected |-> FALSE, last |-> "none", reason |-> "none"]

Init ==
  /\ stage = "analysis"
  /\ slots = MaxParallel
  /\ task = [t \in Tasks |-> Untouched]
  /\ spend = [tokens |-> 0, accounted |-> 0, unaccounted |-> 0]

Staged == IF stage = "analysis" THEN Analysts ELSE IF stage = "fixing" THEN Fixers ELSE {}

In(state) == {t \in Staged : task[t].state = state}

-----------------------------------------------------------------------------
(* Mutant: what is kept for the fixers is not kept.                        *)
WholeCeiling(t) == Tokens

Ceiling(t) == IF t \in Fixers THEN Tokens ELSE Tokens - Reserve

MayStart(t) == spend.tokens < Ceiling(t)

(* Slots are given in the order they were asked for.                       *)
GetsSlot(t) ==
  /\ slots > 0
  /\ t \in In("waiting")
  /\ \A u \in In("waiting") : Order[t] <= Order[u]

(* The ledger is asked once the slot is taken.                             *)
Start(t) ==
  /\ GetsSlot(t)
  /\ MayStart(t)
  /\ slots' = slots - 1
  /\ task' = [task EXCEPT ![t].state = "running"]
  /\ UNCHANGED <<stage, spend>>

NotAfforded(t) ==
  task' = [task EXCEPT ![t].state = "ended",
                       ![t].last = "exhausted", ![t].reason = "exhausted"]

Refuse(t) ==
  /\ GetsSlot(t)
  /\ ~MayStart(t)
  /\ NotAfforded(t)
  /\ UNCHANGED <<stage, slots, spend>>

(* A failure is remembered until a result is valid, and so is a refusal.   *)
Attempted(t, ending, known, use) ==
  [task[t] EXCEPT
     !.attempts = @ + 1,
     !.used = IF known THEN @ + use ELSE @,
     !.silent = IF known THEN @ ELSE @ + 1,
     !.last = ending,
     !.failure = IF ending \in Failures THEN ending ELSE IF ending = "valid" THEN "none" ELSE @,
     !.rejected = IF ending = "invalid" THEN TRUE ELSE IF ending = "valid" THEN FALSE ELSE @]

Retried(ending, attempts) ==
  ending \in {"not-started", "invalid"} /\ attempts < MaxAttempts

Retry(t, ending, known, use) ==
  /\ t \in In("running")
  /\ Retried(ending, task[t].attempts + 1)
  /\ task' = [task EXCEPT ![t] = Attempted(t, ending, known, use)]
  /\ UNCHANGED <<stage, slots, spend>>

FailureReason(failure) == IF failure \in {"timed-out", "exhausted"} THEN "exhausted" ELSE "unavailable"

(* An analysis blames a failure before a refused result, a fix task blames *)
(* only running out before it.                                             *)
ReasonOf(t, done) ==
  IF done.last = "valid" THEN "none"
  ELSE IF t \in Fixers
       THEN IF done.failure = "timed-out" THEN "exhausted"
            ELSE IF done.rejected THEN "invalid-result" ELSE "unavailable"
       ELSE IF done.failure # "none" THEN FailureReason(done.failure) ELSE "invalid-result"

(* Mutant: a task's last attempt alone is accounted for.                   *)
RecordedLast(t, done) ==
  [tokens |-> spend.tokens + (done.used - task[t].used),
   accounted |-> spend.accounted + 1,
   unaccounted |-> spend.unaccounted]

(* Every attempt of a task is recorded once the task is done.              *)
Recorded(t, done) ==
  [tokens |-> spend.tokens + done.used,
   accounted |-> spend.accounted + (done.attempts - done.silent),
   unaccounted |-> spend.unaccounted + done.silent]

(* Mutant: a fix task gives its slot back before its checks were proved.   *)
SlotsFreed(t) == slots + 1

(* Mutant: a check that ends keeps its slot.                               *)
SlotsLost(t) == slots

SlotsAfter(t) == IF t \in Fixers THEN slots ELSE slots + 1

(* A fix task keeps its slot while its failed checks are run on the base.  *)
Finish(t, ending, known, use) ==
  /\ t \in In("running")
  /\ ~Retried(ending, task[t].attempts + 1)
  /\ LET done == Attempted(t, ending, known, use)
     IN /\ spend' = Recorded(t, done)
        /\ task' = [task EXCEPT ![t] = [done EXCEPT
                      !.state = IF t \in Fixers THEN "proving" ELSE "ended",
                      !.reason = ReasonOf(t, done),
                      !.failure = "none", !.rejected = FALSE]]
  /\ slots' = SlotsAfter(t)
  /\ UNCHANGED stage

Proved(t) ==
  /\ t \in In("proving")
  /\ task' = [task EXCEPT ![t].state = "ended"]
  /\ slots' = slots + 1
  /\ UNCHANGED <<stage, spend>>

(* Fixing begins with slots of its own, once the analysis is complete.     *)
NextStage ==
  /\ stage # "done"
  /\ In("ended") = Staged
  /\ stage' = IF stage = "analysis" THEN "fixing" ELSE "done"
  /\ slots' = MaxParallel
  /\ UNCHANGED <<task, spend>>

Next ==
  \/ \E t \in Tasks : Start(t) \/ Refuse(t) \/ Proved(t)
  \/ \E t \in Tasks, ending \in Endings, known \in Says, use \in 0..MaxUse :
       Retry(t, ending, known, use) \/ Finish(t, ending, known, use)
  \/ NextStage

(* A session has a wall-clock limit, so each of them ends.                 *)
Spec == Init /\ [][Next]_vars /\ WF_vars(Next)

-----------------------------------------------------------------------------
TypeOK ==
  /\ stage \in {"analysis", "fixing", "done"}
  /\ slots \in 0..MaxParallel
  /\ task \in [Tasks -> [state : {"waiting", "running", "proving", "ended"},
                         attempts : 0..MaxAttempts, used : 0..(MaxAttempts * MaxUse),
                         silent : 0..MaxAttempts,
                         failure : Failures \cup {"none"}, rejected : BOOLEAN,
                         last : AllEndings \cup {"none", "exhausted"}, reason : Reasons]]
  /\ spend \in [tokens : Nat, accounted : Nat, unaccounted : Nat]

Sum(field(_), tasks) == FoldFunctionOnSet(+, 0, [t \in Tasks |-> field(t)], tasks)

Used(tasks) == Sum(LAMBDA t : task[t].used, tasks)

(* The most that can be spent beyond a ceiling that was not yet reached.   *)
Overshoot == MaxParallel * MaxAttempts * MaxUse

(* What a run uses stays within its ceiling and one round of sessions that *)
(* overlap, as far as sessions say what they use (Ledger, execute, apply). *)
SpendBounded ==
  LET analysed == Used(Analysts) IN
  /\ analysed < Tokens - Reserve + Overshoot
  /\ analysed + Used(Fixers) < Tokens + Overshoot

(* A run with a reserve that covers the overshoot always affords its first *)
(* fix (RunBudget.fixer_reserve).                                          *)
FixersAfforded ==
  (stage = "fixing" /\ Reserve >= Overshoot) =>
    \A t \in Fixers : task[t].state = "ended" /\ task[t].attempts = 0 =>
      \E u \in Fixers : Order[u] < Order[t] /\ task[u].attempts > 0

(* The run gets through its plan, whatever its sessions do: no slot is     *)
(* lost, and a task that was not afforded is answered for (execute, apply). *)
Completes == <>(stage = "done" /\ \A t \in Tasks : task[t].last # "none")
=============================================================================
