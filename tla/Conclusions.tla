---------------------------- MODULE Conclusions -----------------------------
(***************************************************************************)
(* Runs that follow one another, from what their tasks write to what they  *)
(* conclude and remember: result files are read against the facts recorded *)
(* so far, findings are merged, collapsed and judged, the run gets its     *)
(* result, and the memory document counts failing checks and remembers     *)
(* which packages were examined.                                           *)
(*                                                                         *)
(* What the memory does with outcomes is FailureStreaks: every run here is *)
(* a run there.                                                            *)
(***************************************************************************)
EXTENDS Escalate, Findings

CONSTANTS
  Kinds,     \* how runs start, as in FailureStreaks
  Faults,    \* what may go wrong: "memory_read", "memory_push"
  Order,     \* the tasks in the order of a plan
  Required,  \* tasks whose failure refuses a merge
  Records,   \* facts that may be recorded, each about a package of its own
  BucketOf,  \* the check and ecosystem that a record counts for
  Files      \* result files a session may write

VARIABLES
  planned,  \* the tasks of the run
  known,    \* the records of the run's evidence
  tries,    \* result files of a task that were refused
  ended,    \* how the tasks that have ended did
  found,    \* the findings of each task
  verdict,  \* what the run concluded, or Undecided; observed: was the memory read
  covered,  \* the records whose packages the stored document remembers
  short,    \* the records whose packages the run said it had not looked at
  streaks, told, fails

conclusions == <<planned, known, tries, ended, found, verdict, covered, short>>
memory == <<streaks, told, fails>>
vars == <<conclusions, memory>>

Memory == INSTANCE FailureStreaks

ASSUME PlanAssumption == Order \in Seq(Tasks) /\ ToSet(Order) = Tasks /\ Required \subseteq Tasks
ASSUME RefusedAssumption ==
  {"invalid-result", "exhausted"} \cup (Stateable \ {"no-tooling"}) \subseteq Failures

(* What a result file lists, whatever it says.                             *)
Items ==
  [capability : STRING, class : STRING, severity : STRING, subject : STRING, kind : STRING,
   slug : STRING, symbol : STRING, summary : STRING, bundle : STRING, evidence : SUBSET STRING, advisories : SUBSET STRING,
   forbidden : BOOLEAN, unlock : BOOLEAN, members : SUBSET STRING]

ASSUME FilesAssumption ==
  /\ \A file \in Files : file.listed \in Seq(Items)
  /\ \A t \in Tasks : CapabilityOf[t] \in STRING

Undecided == [result |-> "none", judged |-> {}, recalled |-> FALSE]

(* What the run's findings are, in the order of the plan.                  *)
Reported ==
  FlattenSeq([i \in DOMAIN Order |-> IF Order[i] \in planned THEN found[Order[i]] ELSE << >>])

Judged == {Floored(f) : f \in Collapse(Merge(Reported))}

(* A blocking finding outranks a check that failed.                        *)
Decided(judged) ==
  IF \E f \in judged : Blocks(f) THEN "blocked"
  ELSE IF planned = {} \/ \E t \in planned \cap Required : Failed(ended[t]) THEN "inconclusive"
  ELSE "pass"

StartRun(ran) ==
  /\ planned' = ran
  /\ known' = {}
  /\ tries' = [t \in ran |-> 0]
  /\ ended' = << >>
  /\ found' = [t \in ran |-> << >>]
  /\ verdict' = Undecided
  /\ short' = {}

Init ==
  /\ \E ran \in SUBSET Tasks \ {{}} :
       /\ planned = ran
       /\ tries = [t \in ran |-> 0]
       /\ found = [t \in ran |-> << >>]
  /\ known = {} /\ ended = << >> /\ verdict = Undecided /\ short = {} /\ covered = {}
  /\ Memory!Init

Running(t) == t \in planned \ DOMAIN ended

(* A task records a fact, which any task may cite from then on.            *)
RecordFact(r) ==
  /\ \E t \in planned : Running(t)
  /\ known' = known \cup {r}
  /\ UNCHANGED <<planned, tries, ended, found, verdict, covered, short, memory>>

Ends(t, outcome) ==
  ended' = [u \in DOMAIN ended \cup {t} |-> IF u = t THEN outcome ELSE ended[u]]

(* The outcome that a file states.                                         *)
OutcomeOf(file) ==
  IF file.outcome # "unverified" THEN file.outcome
  ELSE IF file.reason = "no-tooling" THEN "gap"
  ELSE file.reason

(* Mutant: a file that was refused twice is taken as nothing to report.    *)
RefusedIsClean(t, file) ==
  /\ Running(t)
  /\ IF Valid(file, known)
     THEN /\ Ends(t, OutcomeOf(file))
          /\ found' = [found EXCEPT ![t] =
               [i \in DOMAIN file.listed |-> Read(file.listed[i], CapabilityOf[t])]]
          /\ UNCHANGED tries
     ELSE /\ tries' = [tries EXCEPT ![t] = @ + 1]
          /\ IF tries[t] = 0 THEN UNCHANGED ended ELSE Ends(t, "clean")
          /\ UNCHANGED found
  /\ UNCHANGED <<planned, known, verdict, covered, short, memory>>

(* A session of the task ends with a result file.  One that is refused is  *)
(* written again once.                                                     *)
Write(t, file) ==
  /\ Running(t)
  /\ IF Valid(file, known)
     THEN /\ Ends(t, OutcomeOf(file))
          /\ found' = [found EXCEPT ![t] =
               [i \in DOMAIN file.listed |-> Read(file.listed[i], CapabilityOf[t])]]
          /\ UNCHANGED tries
     ELSE /\ tries' = [tries EXCEPT ![t] = @ + 1]
          /\ IF tries[t] = 0 THEN UNCHANGED ended ELSE Ends(t, "invalid-result")
          /\ UNCHANGED found
  /\ UNCHANGED <<planned, known, verdict, covered, short, memory>>

(* A session ends without one: it timed out, or was not afforded.          *)
SessionFails(t) ==
  /\ Running(t)
  /\ Ends(t, "exhausted")
  /\ UNCHANGED <<planned, known, tries, found, verdict, covered, short, memory>>

(* Buckets that the run entered.                                           *)
Entered == {BucketOf[r] : r \in known}

(* What an earlier run examined in those and this one did not.             *)
Shortfall(before) == {r \in before : BucketOf[r] \in Entered} \ known

(* Mutant: what this run examined replaces what is remembered.             *)
Replaced(before) == known

(* A run speaks for the buckets it entered, and for no other.              *)
Merged(before) == {r \in before : BucketOf[r] \notin Entered} \cup known

(* The tasks have ended: the run is judged, and the memory brought forward. *)
Conclude(kind, recalled, stored) ==
  /\ verdict = Undecided
  /\ \A t \in planned : ~ Running(t)
  /\ verdict' = [result |-> Decided(Judged), judged |-> Judged, recalled |-> recalled]
  /\ Memory!Run(kind, ended, recalled, stored)
  /\ LET before == IF recalled THEN covered ELSE {}
     IN /\ short' = Shortfall(before)
        /\ covered' = IF stored THEN Merged(before) ELSE covered
  /\ UNCHANGED <<planned, known, tries, ended, found>>

NextRun(ran) ==
  /\ verdict # Undecided
  /\ StartRun(ran)
  /\ UNCHANGED <<covered, memory>>

Next ==
  \/ \E r \in Records : RecordFact(r)
  \/ \E t \in Tasks : SessionFails(t) \/ \E file \in Files : Write(t, file)
  \/ \E kind \in Kinds, recalled, stored \in BOOLEAN : Conclude(kind, recalled, stored)
  \/ \E ran \in SUBSET Tasks \ {{}} : NextRun(ran)

Spec == Init /\ [][Next]_vars

-----------------------------------------------------------------------------
(* Every run here is a run of the memory, whatever its tasks write.        *)
StreaksSpec == Memory!Spec

(* A person is told of a failing check only when that many runs failed for *)
(* that reason since a stored scheduled run found it working, though runs  *)
(* may be started by hand, their documents be lost, and their outcomes be  *)
(* read from files that are refused and written again (escalate.weigh,     *)
(* read_result).                                                           *)
NeverOverstates == Memory!NeverOverstates

Reports == ToSet(Reported)
Concluded == verdict # Undecided

(* The conclusion that speaks for a report: the one of its bundle, or of   *)
(* its key.                                                                *)
SpeaksFor(g, f) ==
  /\ g.capability = f.capability /\ g.bundle = f.bundle
  /\ f.bundle = "none" => Key(g) = Key(f)

(* Whatever is reported twice, in whatever order and by whatever task, has *)
(* one conclusion, which still carries the key it was merged under         *)
(* (_stricter: "the run reports one problem and tracks another").          *)
ConcludedOnce ==
  Concluded => \A f \in Reports :
    \E g \in verdict.judged : {h \in verdict.judged : SpeaksFor(h, f)} = {g}

(* A conclusion is no weaker than any report it speaks for, cites all of   *)
(* their evidence and advisories, asks a person where one of them did, and *)
(* names every member of a bundle - but for one whose problem another      *)
(* member has too (_stricter, _combine, with_kind_severity).               *)
StrictestOfAll ==
  Concluded => \A f \in Reports, g \in verdict.judged :
    SpeaksFor(g, f) =>
      /\ ClassRank[g.class] >= ClassRank[f.class]
      /\ SeverityRank[g.severity] >= SeverityRank[f.severity]
      /\ f.evidence \subseteq g.evidence
      /\ f.kind = "vulnerable" => f.advisories \subseteq g.advisories
      /\ f.forbidden => g.forbidden
      /\ f.unlock => g.unlock
      /\ f.bundle # "none" => \/ f.subject \in g.members
                             \/ \E h \in Reports : Key(h) = Key(f) /\ h.subject \in g.members

(* A run passes only when every required check delivered a result that was *)
(* read, and no report would have blocked by itself - unless another       *)
(* report of the same problem is not demonstrated, or its bundle is        *)
(* concluded under another kind.                                           *)
PassIsEarned ==
  verdict.result = "pass" =>
    /\ \A t \in planned \cap Required : ~ Failed(ended[t]) /\ tries[t] < 2
    /\ \A f \in Reports :
         Blocks(f) => \E g \in Reports :
           /\ SpeaksFor(g, f) \/ (g.bundle # "none" /\ g.capability = f.capability /\ g.bundle = f.bundle)
           /\ ~ Demonstrated(g) \/ g.kind # f.kind

(* A package that falls out of what is remembered is one the run said it   *)
(* had not looked at, unless it could not read the memory                  *)
(* (Coverage.shortfall, Coverage.document).                                *)
DroppedIsSaid ==
  [][verdict'.recalled => covered \ covered' \subseteq short']_vars
=============================================================================
