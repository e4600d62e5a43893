-------------------------- MODULE ConclusionsProofs --------------------------
(***************************************************************************)
(* Runs that read result files are runs of the memory, for any tasks,      *)
(* files, policy and faults; a failure streak never overstates, however    *)
(* checks are split, runs are started and documents are lost; and whatever *)
(* the checks report, in whatever order, is concluded once, as strictly as *)
(* any report of it, and passes only when that was earned.                 *)
(*                                                                         *)
(* The findings of a run are merged one report after another.  That what   *)
(* the fold returns follows from its steps is shown by the least number    *)
(* for which it would not.                                                 *)
(***************************************************************************)
EXTENDS Conclusions, TLAPS, WellFoundedInduction

(* Every task that has ended is one of the run's, with an outcome that the *)
(* escalation knows.                                                       *)
EndedInv ==
  /\ planned \in SUBSET Tasks \ {{}}
  /\ DOMAIN ended \subseteq planned
  /\ ended \in [DOMAIN ended -> Outcome]

LEMMA OutcomeTyped ==
  ASSUME NEW file, NEW facts, Valid(file, facts)
  PROVE  OutcomeOf(file) \in Outcome
BY RefusedAssumption DEF Valid, OutcomeOf, Outcome, Results, Stateable

LEMMA EndsTyped ==
  ASSUME EndedInv, NEW t \in planned, NEW outcome \in Outcome, Ends(t, outcome)
  PROVE  DOMAIN ended' \subseteq planned /\ ended' \in [DOMAIN ended' -> Outcome]
BY DEF Ends, EndedInv

LEMMA EndedKept == EndedInv /\ [Next]_vars => EndedInv'
<1> SUFFICES ASSUME EndedInv, [Next]_vars PROVE EndedInv'
  OBVIOUS
<1>0. /\ {"exhausted", "invalid-result"} \subseteq Outcome
      /\ \A t : Running(t) => t \in planned
  BY RefusedAssumption DEF Outcome, Running
<1>1. CASE UNCHANGED vars
  BY <1>1 DEF vars, conclusions, EndedInv
<1>2. ASSUME NEW r \in Records, RecordFact(r)
      PROVE  EndedInv'
  BY <1>2 DEF RecordFact, EndedInv
<1>3. ASSUME NEW t \in Tasks, SessionFails(t)
      PROVE  EndedInv'
  <2>1. t \in planned /\ Ends(t, "exhausted") /\ planned' = planned
    BY <1>0, <1>3 DEF SessionFails
  <2> QED
    BY <1>0, <2>1, EndsTyped DEF EndedInv
<1>4. ASSUME NEW t \in Tasks, NEW file \in Files, Write(t, file)
      PROVE  EndedInv'
  <2>1. t \in planned /\ planned' = planned
    BY <1>0, <1>4 DEF Write
  <2>2. \/ ended' = ended
        \/ Ends(t, "invalid-result")
        \/ Valid(file, known) /\ Ends(t, OutcomeOf(file))
    BY <1>4 DEF Write
  <2> QED
    BY <1>0, <2>1, <2>2, EndsTyped, OutcomeTyped DEF EndedInv
<1>5. ASSUME NEW kind, NEW recalled, NEW stored, Conclude(kind, recalled, stored)
      PROVE  EndedInv'
  BY <1>5 DEF Conclude, EndedInv
<1>6. ASSUME NEW ran \in SUBSET Tasks \ {{}}, NextRun(ran)
      PROVE  EndedInv'
  <2>1. planned' = ran /\ ended' = << >>
    BY <1>6 DEF NextRun, StartRun
  <2> QED
    BY <2>1 DEF EndedInv
<1> QED
  BY <1>1, <1>2, <1>3, <1>4, <1>5, <1>6 DEF Next

LEMMA EndedAlways == Spec => []EndedInv
<1>1. Init => EndedInv
  BY DEF Init, EndedInv
<1> QED
  BY <1>1, EndedKept, PTL DEF Spec

(* A step either concludes a run, or leaves the memory as it is.           *)
LEMMA StepRemembers ==
  ASSUME EndedInv, [Next]_vars
  PROVE  \/ UNCHANGED memory
         \/ \E kind \in Kinds, ran \in SUBSET Tasks \ {{}} :
              \E outcomes \in [ran -> Outcome], recalled, stored \in BOOLEAN :
                Memory!Run(kind, outcomes, recalled, stored)
<1>1. CASE UNCHANGED vars
  BY <1>1 DEF vars
<1>2. ASSUME NEW kind \in Kinds, NEW recalled \in BOOLEAN, NEW stored \in BOOLEAN,
             Conclude(kind, recalled, stored)
      PROVE  \E ran \in SUBSET Tasks \ {{}} : \E outcomes \in [ran -> Outcome] :
               Memory!Run(kind, outcomes, recalled, stored)
  <2>1. planned \in SUBSET Tasks \ {{}} /\ ended \in [planned -> Outcome]
    BY <1>2 DEF Conclude, Running, EndedInv
  <2>2. Memory!Run(kind, ended, recalled, stored)
    BY <1>2 DEF Conclude
  <2> QED
    BY <2>1, <2>2
<1>3. CASE \E r \in Records : RecordFact(r)
  BY <1>3 DEF RecordFact
<1>4. ASSUME NEW t \in Tasks, SessionFails(t) \/ \E file \in Files : Write(t, file)
      PROVE  UNCHANGED memory
  BY <1>4 DEF SessionFails, Write
<1>5. CASE \E ran \in SUBSET Tasks \ {{}} : NextRun(ran)
  BY <1>5 DEF NextRun
<1> QED
  BY <1>1, <1>2, <1>3, <1>4, <1>5 DEF Next

(* Every run here is a run of the memory, whatever its tasks write: what   *)
(* the memory promises rests on no result file (escalate.weigh).           *)
THEOREM RunsAreRuns == Spec => StreaksSpec
<1>1. Init => Memory!Init
  BY DEF Init
<1>2. EndedInv /\ [Next]_vars => [Memory!Next]_(Memory!vars)
  <2>1. Outcome = Memory!Outcome
    BY DEF Outcome, Memory!Outcome
  <2> QED
    BY <2>1, StepRemembers DEF Memory!Next, Memory!vars, memory
<1> QED
  BY <1>1, <1>2, EndedAlways, PTL DEF Spec, StreaksSpec, Memory!Spec

-----------------------------------------------------------------------------
(* The remembered streak is at most the streak that really was.            *)
Bounded == \A f \in FailureKeys : streaks[f] <= fails[f]

LEMMA CapType ==
  ASSUME NEW n \in Nat
  PROVE  Capped(n) \in 0..StreakCap
BY EscalateAssumption DEF Capped

LEMMA WeighedType ==
  ASSUME NEW counted \in [FailureKeys -> 0..StreakCap], NEW outcomes
  PROVE  Weigh(counted, outcomes) \in [FailureKeys -> 0..StreakCap]
<1>1. ASSUME NEW f \in FailureKeys
      PROVE  Capped(counted[f] + 1) \in 0..StreakCap /\ 0 \in 0..StreakCap
  BY CapType, EscalateAssumption
<1> QED
  BY <1>1 DEF Weigh

(* What a run of the memory does, in this module's operators.              *)
LEMMA RunMeans ==
  ASSUME NEW kind, NEW outcomes, NEW recalled, NEW stored,
         Memory!Run(kind, outcomes, recalled, stored)
  PROVE  LET counted == IF recalled THEN streaks ELSE NoFailure
             counts == kind = "scheduled"
         IN /\ ~ stored => "memory_push" \in Faults
            /\ told' = IF counts THEN Escalations(counted, outcomes) ELSE {}
            /\ streaks' = IF ~ stored THEN streaks
                          ELSE IF counts THEN Weigh(counted, outcomes)
                          ELSE counted
            /\ fails' = [f \in FailureKeys |->
                 IF f \in Failing(outcomes) THEN Capped(fails[f] + 1)
                 ELSE IF Memory!Works(outcomes, CapabilityOf[f]) /\ kind = "scheduled" /\ stored
                 THEN 0
                 ELSE fails[f]]
BY Zenon
DEF Memory!Run, Memory!NoFailure, NoFailure, Memory!Escalations, Escalations, Memory!Weigh,
    Weigh, Memory!Failing, Failing, Memory!Completed, Completed, Memory!Failed, Failed,
    Memory!Capped, Capped

(* The streaks stay within their bound whatever the runs do.               *)
THEOREM StreaksTyped == Memory!Spec => []Memory!TypeOK
<1>1. Memory!Init => Memory!TypeOK
  BY EscalateAssumption DEF Memory!Init, Memory!TypeOK, NoFailure, Memory!NoFailure
<1>2. Memory!TypeOK /\ [Memory!Next]_(Memory!vars) => Memory!TypeOK'
  <2> SUFFICES ASSUME Memory!TypeOK, [Memory!Next]_(Memory!vars)
               PROVE  Memory!TypeOK'
    OBVIOUS
  <2>1. CASE UNCHANGED Memory!vars
    BY <2>1 DEF Memory!vars, Memory!TypeOK
  <2>2. ASSUME NEW kind \in Kinds, NEW outcomes, NEW recalled \in BOOLEAN,
               NEW stored \in BOOLEAN, Memory!Run(kind, outcomes, recalled, stored)
        PROVE  Memory!TypeOK'
    <3> DEFINE counted == IF recalled THEN streaks ELSE NoFailure
    <3>1. counted \in [FailureKeys -> 0..StreakCap]
      BY EscalateAssumption DEF Memory!TypeOK, NoFailure
    <3>2. Weigh(counted, outcomes) \in [FailureKeys -> 0..StreakCap]
      BY <3>1, WeighedType
    <3>3. /\ streaks' \in {streaks, Weigh(counted, outcomes), counted}
          /\ told' \in {Escalations(counted, outcomes), {}}
      BY <2>2, RunMeans
    <3>4. Escalations(counted, outcomes) \subseteq FailureKeys
      BY DEF Escalations, Failing
    <3>5. fails' \in [FailureKeys -> 0..StreakCap]
      <4>1. \A f \in FailureKeys : Capped(fails[f] + 1) \in 0..StreakCap
        BY CapType DEF Memory!TypeOK
      <4>2. fails' = [f \in FailureKeys |->
               IF f \in Failing(outcomes) THEN Capped(fails[f] + 1)
               ELSE IF Memory!Works(outcomes, CapabilityOf[f]) /\ kind = "scheduled" /\ stored
               THEN 0
               ELSE fails[f]]
        BY <2>2, RunMeans
      <4> QED
        BY <4>1, <4>2, EscalateAssumption DEF Memory!TypeOK
    <3> HIDE DEF counted
    <3> QED
      BY <3>1, <3>2, <3>3, <3>4, <3>5 DEF Memory!TypeOK
  <2> QED
    BY <2>1, <2>2 DEF Memory!Next
<1> QED
  BY <1>1, <1>2, PTL DEF Memory!Spec

(* A document that counts a failure counts one that happened since: what   *)
(* clears the observed count clears the document's, whatever else a run    *)
(* does or fails to do.                                                    *)
LEMMA RunBounds ==
  ASSUME Memory!TypeOK, Bounded, NEW kind, NEW outcomes, NEW recalled \in BOOLEAN,
         NEW stored \in BOOLEAN, Memory!Run(kind, outcomes, recalled, stored)
  PROVE  Bounded' /\ Memory!NeverOverstates'
<1> DEFINE counted == IF recalled THEN streaks ELSE NoFailure
<1>1. /\ told' = IF kind = "scheduled" THEN Escalations(counted, outcomes) ELSE {}
      /\ streaks' = IF ~ stored THEN streaks
                    ELSE IF kind = "scheduled" THEN Weigh(counted, outcomes)
                    ELSE counted
  BY RunMeans
<1>2. fails' = [f \in FailureKeys |->
         IF f \in Failing(outcomes) THEN Capped(fails[f] + 1)
         ELSE IF Memory!Works(outcomes, CapabilityOf[f]) /\ kind = "scheduled" /\ stored THEN 0
         ELSE fails[f]]
  BY RunMeans
<1>3. counted \in [FailureKeys -> 0..StreakCap]
  BY EscalateAssumption DEF Memory!TypeOK, NoFailure
<1>4. \A f \in FailureKeys :
        /\ counted[f] \in Nat /\ streaks[f] \in Nat /\ fails[f] \in Nat
        /\ counted[f] <= fails[f] /\ streaks[f] <= fails[f]
  BY EscalateAssumption DEF Memory!TypeOK, Bounded, NoFailure
<1> HIDE DEF counted
<1>5. ASSUME NEW f \in Failing(outcomes)
      PROVE  /\ f \in FailureKeys /\ Weigh(counted, outcomes)[f] \in Nat
             /\ Weigh(counted, outcomes)[f] <= fails'[f]
             /\ fails'[f] \in Nat
             /\ fails[f] <= fails'[f] \/ fails'[f] = StreakCap
  <2>1. f \in FailureKeys
    BY DEF Failing
  <2>2. /\ Weigh(counted, outcomes)[f] = Capped(counted[f] + 1)
        /\ fails'[f] = Capped(fails[f] + 1)
    BY <1>2, <1>5, <2>1 DEF Weigh
  <2> QED
    BY <1>4, <2>1, <2>2, EscalateAssumption DEF Capped
<1>6. ASSUME NEW f \in FailureKeys
      PROVE  streaks'[f] <= fails'[f]
  <2>1. streaks[f] \in 0..StreakCap /\ counted[f] \in 0..StreakCap /\ StreakCap \in Nat
    BY <1>3, EscalateAssumption DEF Memory!TypeOK
  <2>2. CASE f \in Failing(outcomes)
    <3>1. streaks'[f] \in {streaks[f], counted[f], Weigh(counted, outcomes)[f]}
      BY <1>1
    <3> QED
      BY <1>4, <1>5, <2>1, <2>2, <3>1
  <2>3. CASE f \notin Failing(outcomes)
    <3>1. Weigh(counted, outcomes)[f] =
            IF CapabilityOf[f] \in Completed(outcomes) THEN 0 ELSE counted[f]
      BY <2>3 DEF Weigh
    <3>2. Memory!Works(outcomes, CapabilityOf[f]) => CapabilityOf[f] \in Completed(outcomes)
      BY DEF Memory!Works, Memory!Failed, Failed, Completed
    <3>3. CASE Memory!Works(outcomes, CapabilityOf[f]) /\ kind = "scheduled" /\ stored
      <4>1. streaks'[f] = 0 /\ fails'[f] = 0
        BY <1>1, <1>2, <2>3, <3>1, <3>2, <3>3
      <4> QED
        BY <4>1
    <3>4. CASE ~ (Memory!Works(outcomes, CapabilityOf[f]) /\ kind = "scheduled" /\ stored)
      <4>1. fails'[f] = fails[f]
        BY <1>2, <2>3, <3>4
      <4>2. streaks'[f] \in {streaks[f], counted[f], 0}
        BY <1>1, <3>1
      <4> QED
        BY <1>4, <4>1, <4>2
    <3> QED
      BY <3>3, <3>4
  <2> QED
    BY <2>2, <2>3
<1>7. Memory!NeverOverstates'
  <2> SUFFICES ASSUME NEW f \in told' PROVE fails'[f] >= FailureThreshold
    BY DEF Memory!NeverOverstates
  <2>1. f \in Failing(outcomes) /\ Weigh(counted, outcomes)[f] >= FailureThreshold
    BY <1>1 DEF Escalations
  <2>2. fails'[f] \in Nat
    BY <1>2, <1>4, <1>5, <2>1, CapType
  <2> QED
    BY <1>5, <2>1, <2>2, EscalateAssumption
<1> QED
  BY <1>6, <1>7 DEF Bounded

(* A person is told of a failing check only when that many runs failed for *)
(* that reason since a stored scheduled run found it working - for any     *)
(* division of checks into tasks, any kinds of runs and any lost document. *)
THEOREM NeverOverstated == Memory!Spec => []Memory!NeverOverstates
<1>1. Memory!Init => Bounded /\ Memory!NeverOverstates
  BY DEF Memory!Init, Bounded, Memory!NeverOverstates, NoFailure, Memory!NoFailure
<1>2. Memory!TypeOK /\ Bounded /\ Memory!NeverOverstates /\ [Memory!Next]_(Memory!vars)
        => Bounded' /\ Memory!NeverOverstates'
  <2>1. ASSUME Memory!TypeOK, Bounded, Memory!Next PROVE Bounded' /\ Memory!NeverOverstates'
    BY <2>1, RunBounds DEF Memory!Next
  <2>2. Bounded /\ Memory!NeverOverstates /\ UNCHANGED Memory!vars => Bounded' /\ Memory!NeverOverstates'
    BY DEF Bounded, Memory!NeverOverstates, Memory!vars
  <2> QED
    BY <2>1, <2>2
<1> QED
  BY <1>1, <1>2, StreaksTyped, PTL DEF Memory!Spec

(* The same of runs whose outcomes are read from files that may be refused *)
(* and written again.                                                      *)
THEOREM StillNeverOverstated == Spec => []NeverOverstates
BY NeverOverstated, RunsAreRuns, PTL DEF StreaksSpec, NeverOverstates

-----------------------------------------------------------------------------
(* A package that falls out of what is remembered is one the run said it   *)
(* had not looked at, unless it could not read the memory                  *)
(* (Coverage.shortfall, Coverage.document).                                *)
THEOREM DroppedSaid == Spec => DroppedIsSaid
<1>1. [Next]_vars => [verdict'.recalled => covered \ covered' \subseteq short']_vars
  <2> SUFFICES ASSUME Next, verdict'.recalled
               PROVE  covered \ covered' \subseteq short'
    OBVIOUS
  <2>1. ASSUME NEW kind, NEW recalled, NEW stored, Conclude(kind, recalled, stored)
        PROVE  covered \ covered' \subseteq short'
    <3>1. recalled
      BY <2>1 DEF Conclude
    <3>2. short' = Shortfall(covered) /\ covered' \in {Merged(covered), covered}
      BY <2>1, <3>1 DEF Conclude
    <3> QED
      BY <3>2 DEF Shortfall, Merged
  <2>2. CASE covered' = covered
    BY <2>2
  <2> QED
    BY <2>1, <2>2 DEF Next, RecordFact, SessionFails, Write, NextRun
<1> QED
  BY <1>1, PTL DEF Spec, DroppedIsSaid

-----------------------------------------------------------------------------
(* A set of numbers that is not empty has a least one.                     *)
LEMMA LeastNumber ==
  ASSUME NEW T \in SUBSET Nat, T # {}
  PROVE  \E n \in T : \A m \in T : n <= m
<1>1. \E x \in T : \A y \in T : ~ (<<y, x>> \in OpToRel(<, Nat))
  BY NatLessThanWellFounded, WFMin
<1>2. PICK x \in T : \A y \in T : ~ (<<y, x>> \in OpToRel(<, Nat))
  BY <1>1
<1>3. ASSUME NEW y \in T, y < x PROVE FALSE
  <2>1. <<y, x>> \in OpToRel(<, Nat)
    BY <1>3 DEF OpToRel
  <2> QED BY <1>2, <2>1
<1>4. x \in T /\ \A y \in T : ~ (y < x) /\ y \in Nat /\ x \in Nat
  BY <1>2, <1>3
<1>5. \A y \in T : x <= y
  BY <1>4
<1> QED
  BY <1>4, <1>5

(* Findings as they are read from files, and as merging leaves them.       *)
Entries ==
  {f \in Items :
     /\ f.class \in Classes /\ f.severity \in Severities
     /\ f.kind \in PackageKinds \cup {"none"}
     /\ f.advisories \cap (PackageKinds \cup {"none"}) = {}}

LEMMA ReadTyped ==
  ASSUME NEW item \in Items, NEW capability \in STRING
  PROVE  LET f == Read(item, capability)
         IN /\ f \in Items
            /\ f.class = item.class /\ f.severity = item.severity /\ f.kind = item.kind
            /\ f.advisories = item.advisories \ {"none"}
BY DEF Read, Items, Named

(* The stronger of two ranks at least as high as either.                   *)
LEMMA StrongerClass ==
  ASSUME NEW a \in Classes, NEW b \in Classes
  PROVE  LET c == Stronger(ClassRank, a, b)
         IN c \in {a, b} /\ ClassRank[c] >= ClassRank[a] /\ ClassRank[c] >= ClassRank[b]
BY DEF Stronger, ClassRank, Classes

LEMMA StrongerSeverity ==
  ASSUME NEW a \in Severities, NEW b \in Severities
  PROVE  LET c == Stronger(SeverityRank, a, b)
         IN /\ c \in {a, b} /\ SeverityRank[c] >= SeverityRank[a]
            /\ SeverityRank[c] >= SeverityRank[b]
BY DEF Stronger, SeverityRank, Severities

(* What merging makes of two findings, field by field.                     *)
LEMMA StricterFields ==
  ASSUME NEW first \in Items, NEW second \in Items
  PROVE  LET r == Stricter(first, second)
             class == Stronger(ClassRank, first.class, second.class)
             severity == Stronger(SeverityRank, first.severity, second.severity)
         IN \E winner \in {first, second} :
              /\ r \in Items
              /\ r.class = class /\ r.severity = severity
              /\ r.capability = winner.capability
              /\ r.subject = winner.subject
              /\ r.slug = Named(winner.slug, Named(first.slug, second.slug))
              /\ r.symbol = Named(winner.symbol, Named(first.symbol, second.symbol))
              /\ r.summary = winner.summary
              /\ r.kind = Named(winner.kind, Named(first.kind, second.kind))
              /\ r.bundle = Named(winner.bundle, Named(first.bundle, second.bundle))
              /\ r.evidence = first.evidence \cup second.evidence
              /\ r.advisories = first.advisories \cup second.advisories
              /\ r.forbidden = (first.forbidden \/ second.forbidden)
              /\ r.unlock = (first.unlock \/ second.unlock)
              /\ r.members = first.members \cup second.members
<1> DEFINE class == Stronger(ClassRank, first.class, second.class)
           severity == Stronger(SeverityRank, first.severity, second.severity)
           winner == IF first.class = class /\ first.severity = severity THEN first ELSE second
           slug == Named(winner.slug, Named(first.slug, second.slug))
           symbol == Named(winner.symbol, Named(first.symbol, second.symbol))
           kind == Named(winner.kind, Named(first.kind, second.kind))
           bundle == Named(winner.bundle, Named(first.bundle, second.bundle))
           evidence == first.evidence \cup second.evidence
           advisories == first.advisories \cup second.advisories
           forbidden == first.forbidden \/ second.forbidden
           unlock == first.unlock \/ second.unlock
           members == first.members \cup second.members
<1>1. winner \in {first, second} /\ winner \in Items
  OBVIOUS
<1>2. class \in STRING /\ severity \in STRING
  BY DEF Stronger, Items
<1>3. \A a, b, c \in STRING : Named(a, Named(b, c)) \in STRING
  BY DEF Named
<1>4. slug \in STRING /\ symbol \in STRING /\ kind \in STRING /\ bundle \in STRING
  BY <1>1, <1>3 DEF Items
<1>5. /\ evidence \in SUBSET STRING /\ advisories \in SUBSET STRING /\ members \in SUBSET STRING
      /\ forbidden \in BOOLEAN /\ unlock \in BOOLEAN
  BY DEF Items
<1>6. Stricter(first, second) =
        [winner EXCEPT !.class = class, !.severity = severity, !.evidence = evidence,
           !.advisories = advisories, !.slug = slug, !.symbol = symbol, !.kind = kind,
           !.bundle = bundle, !.forbidden = forbidden, !.unlock = unlock, !.members = members]
  BY DEF Stricter
<1> HIDE DEF class, severity, winner, slug, symbol, kind, bundle, evidence, advisories, forbidden,
             unlock, members
<1> DEFINE r == Stricter(first, second)
<1>7. /\ r.class = class /\ r.severity = severity /\ r.capability = winner.capability
      /\ r.subject = winner.subject /\ r.slug = slug /\ r.symbol = symbol
      /\ r.summary = winner.summary /\ r.kind = kind /\ r.bundle = bundle
      /\ r.evidence = evidence /\ r.advisories = advisories
      /\ r.forbidden = forbidden /\ r.unlock = unlock /\ r.members = members
  BY <1>1, <1>6 DEF Items
<1>8. r \in Items
  <2> DEFINE q == [capability |-> winner.capability, class |-> class, severity |-> severity,
                   subject |-> winner.subject, kind |-> kind, slug |-> slug, symbol |-> symbol,
                   summary |-> winner.summary, bundle |-> bundle, evidence |-> evidence, advisories |-> advisories, forbidden |-> forbidden,
                   unlock |-> unlock, members |-> members]
  <2>1. q \in Items
    BY <1>1, <1>2, <1>4, <1>5 DEF Items
  <2>2. r = q
    BY <1>1, <1>6 DEF Items
  <2> QED
    BY <2>1, <2>2
<1> QED
  BY <1>1, <1>7, <1>8 DEF class, severity, winner, slug, symbol, kind, bundle, evidence, advisories,
                    forbidden, unlock, members

(* A finding that is no weaker than another, and rests on all that it does. *)
Covers(g, f) ==
  /\ ClassRank[g.class] >= ClassRank[f.class]
  /\ SeverityRank[g.severity] >= SeverityRank[f.severity]
  /\ f.evidence \subseteq g.evidence
  /\ f.advisories \subseteq g.advisories
  /\ f.forbidden => g.forbidden
  /\ f.unlock => g.unlock

LEMMA RanksTyped ==
  /\ \A class \in Classes : ClassRank[class] \in Nat
  /\ \A severity \in Severities : SeverityRank[severity] \in Nat
BY DEF ClassRank, Classes, SeverityRank, Severities

LEMMA CoversTransitive ==
  ASSUME NEW f \in Entries, NEW g \in Entries, NEW h \in Entries, Covers(h, g), Covers(g, f)
  PROVE  Covers(h, f)
<1>1. /\ ClassRank[h.class] >= ClassRank[f.class]
      /\ SeverityRank[h.severity] >= SeverityRank[f.severity]
  BY RanksTyped DEF Covers, Entries
<1> QED
  BY <1>1 DEF Covers

LEMMA StricterCovers ==
  ASSUME NEW first \in Entries, NEW second \in Entries
  PROVE  LET r == Stricter(first, second)
         IN /\ r \in Entries
            /\ Covers(r, first) /\ Covers(r, second)
            /\ r.kind \in {first.kind, second.kind}
            /\ r.subject \in {first.subject, second.subject}
            /\ r.evidence = first.evidence \cup second.evidence
<1> DEFINE r == Stricter(first, second)
<1>1. first \in Items /\ second \in Items
  BY DEF Entries
<1>2. PICK winner \in {first, second} :
        /\ r \in Items
        /\ r.class = Stronger(ClassRank, first.class, second.class)
        /\ r.severity = Stronger(SeverityRank, first.severity, second.severity)
        /\ r.subject = winner.subject
        /\ r.kind = Named(winner.kind, Named(first.kind, second.kind))
        /\ r.evidence = first.evidence \cup second.evidence
        /\ r.advisories = first.advisories \cup second.advisories
        /\ r.forbidden = (first.forbidden \/ second.forbidden)
        /\ r.unlock = (first.unlock \/ second.unlock)
  BY <1>1, StricterFields
<1> HIDE DEF r
<1>3. r.kind \in {first.kind, second.kind} /\ r.subject \in {first.subject, second.subject}
  BY <1>2 DEF Named
<1>4. /\ r.class \in {first.class, second.class}
      /\ ClassRank[r.class] >= ClassRank[first.class]
      /\ ClassRank[r.class] >= ClassRank[second.class]
  BY <1>2, StrongerClass DEF Entries
<1>5. /\ r.severity \in {first.severity, second.severity}
      /\ SeverityRank[r.severity] >= SeverityRank[first.severity]
      /\ SeverityRank[r.severity] >= SeverityRank[second.severity]
  BY <1>2, StrongerSeverity DEF Entries
<1>6. Covers(r, first) /\ Covers(r, second)
  BY <1>2, <1>4, <1>5 DEF Covers
<1>7. r \in Entries
  BY <1>2, <1>3, <1>4, <1>5 DEF Entries
<1> QED
  BY <1>2, <1>3, <1>6, <1>7 DEF r

(* The merged finding is still known by the key it was merged under.       *)
LEMMA StricterKey ==
  ASSUME NEW first \in Entries, NEW second \in Entries, Key(first) = Key(second)
  PROVE  Key(Stricter(first, second)) = Key(first)
<1> DEFINE r == Stricter(first, second)
<1>1. first \in Items /\ second \in Items
  BY DEF Entries
<1>2. PICK winner \in {first, second} :
        /\ r.capability = winner.capability
        /\ r.subject = winner.subject
        /\ r.slug = Named(winner.slug, Named(first.slug, second.slug))
        /\ r.symbol = Named(winner.symbol, Named(first.symbol, second.symbol))
        /\ r.summary = winner.summary
        /\ r.kind = Named(winner.kind, Named(first.kind, second.kind))
        /\ r.bundle = Named(winner.bundle, Named(first.bundle, second.bundle))
        /\ r.advisories = first.advisories \cup second.advisories
  BY <1>1, StricterFields
<1> HIDE DEF r
<1>3. /\ first.capability = second.capability
      /\ first.bundle = second.bundle
      /\ first.bundle = "none" => first.subject = second.subject
  BY DEF Key
<1>4. /\ r.capability = first.capability /\ r.bundle = first.bundle
      /\ first.bundle = "none" => r.subject = first.subject
  BY <1>2, <1>3 DEF Named
<1>5. ASSUME Identity(first) = Identity(second)
      PROVE  /\ Identity(r) = Identity(first)
             /\ Worded(first) = Worded(second) => Worded(r) = Worded(first)
  <2>1. /\ first.kind \in PackageKinds \cup {"none"} /\ second.kind \in PackageKinds \cup {"none"}
        /\ first.advisories \cap (PackageKinds \cup {"none"}) = {}
        /\ second.advisories \cap (PackageKinds \cup {"none"}) = {}
        /\ "vulnerable" \in PackageKinds /\ "none" \notin PackageKinds
    BY DEF Entries, PackageKinds
  <2>2. r.kind \in {first.kind, second.kind}
    BY <1>2 DEF Named
  <2>3. Identity(r) = Identity(first)
    <3>1. CASE first.kind = "vulnerable"
      <4>1. second.kind = "vulnerable"
        BY <1>5, <2>1, <3>1 DEF Identity
      <4> QED
        BY <2>2, <3>1, <4>1 DEF Identity
    <3>2. CASE first.kind # "vulnerable"
      <4>1. second.kind # "vulnerable" /\ r.kind # "vulnerable"
        BY <1>5, <2>1, <2>2, <3>2 DEF Identity
      <4>2. first.advisories = second.advisories
        BY <1>5, <2>1, <3>2, <4>1 DEF Identity
      <4>3. first.advisories = {} => first.kind = second.kind
        BY <1>5, <3>2, <4>1, <4>2 DEF Identity
      <4> QED
        BY <1>2, <2>2, <3>2, <4>1, <4>2, <4>3 DEF Identity
    <3> QED
      BY <3>1, <3>2
  <2> QED
    BY <1>2, <1>5, <2>3 DEF Worded
<1>6. CASE first.bundle # "none"
  <2>1. Identity(first) = Identity(second) /\ Worded(first) = Worded(second)
    BY <1>3, <1>6 DEF Key
  <2> QED
    BY <1>4, <1>5, <1>6, <2>1 DEF Key, r
<1>7. CASE first.bundle = "none" /\ first.subject \in Packages
  <2>1. Identity(first) = Identity(second) /\ Worded(first) = Worded(second)
    BY <1>3, <1>7 DEF Key
  <2> QED
    BY <1>4, <1>5, <1>7, <2>1 DEF Key, r
<1>8. CASE first.bundle = "none" /\ first.subject \notin Packages
  <2>1. first.slug = second.slug /\ first.symbol = second.symbol
    BY <1>3, <1>8 DEF Key
  <2>2. r.slug = first.slug /\ r.symbol = first.symbol
    BY <1>2, <2>1 DEF Named
  <2> QED
    BY <1>4, <1>8, <2>2 DEF Key, r
<1> QED
  BY <1>6, <1>7, <1>8

-----------------------------------------------------------------------------
(* The books that a fold over the first findings of a list passes through. *)
Books(reports, n, g) ==
  g = [s \in SUBSET (1..n) |->
         IF s = {} THEN << >>
         ELSE File(g[s \ {Max(s)}], reports[Max(s)])]

LEMMA MaxOf ==
  ASSUME NEW n \in Nat, NEW s \in SUBSET (1..n), n \in s
  PROVE  Max(s) = n
<1>1. \A x \in s : n >= x
  OBVIOUS
<1>2. \A x \in s : (\A y \in s : x >= y) => x = n
  OBVIOUS
<1> QED
  BY <1>1, <1>2 DEF Max

LEMMA BooksStep ==
  ASSUME NEW reports, NEW n \in Nat, NEW g, Books(reports, n, g)
  PROVE  \E h : Books(reports, n + 1, h)
<1> DEFINE h == [s \in SUBSET (1..(n + 1)) |->
                   IF n + 1 \in s THEN File(g[s \ {n + 1}], reports[n + 1]) ELSE g[s]]
<1>1. ASSUME NEW s \in SUBSET (1..(n + 1))
      PROVE  h[s] = IF s = {} THEN << >> ELSE File(h[s \ {Max(s)}], reports[Max(s)])
  <2>1. CASE n + 1 \in s
    <3>1. Max(s) = n + 1
      BY <2>1, MaxOf
    <3>2. s \ {n + 1} \in SUBSET (1..(n + 1)) /\ n + 1 \notin s \ {n + 1}
      OBVIOUS
    <3>3. h[s \ {n + 1}] = g[s \ {n + 1}]
      BY <3>2
    <3> QED
      BY <2>1, <3>1, <3>3
  <2>2. CASE n + 1 \notin s
    <3>1. s \in SUBSET (1..n) /\ s \ {Max(s)} \in SUBSET (1..(n + 1)) /\ n + 1 \notin s \ {Max(s)}
      <4>1. \A x \in s : x \in 1..(n + 1) /\ x # n + 1
        BY <2>2
      <4>2. \A x \in s : x \in 1..n
        BY <4>1
      <4> QED
        BY <2>2, <4>2
    <3>2. h[s] = g[s] /\ h[s \ {Max(s)}] = g[s \ {Max(s)}]
      BY <2>2, <3>1
    <3>3. g[s] = IF s = {} THEN << >> ELSE File(g[s \ {Max(s)}], reports[Max(s)])
      BY <3>1 DEF Books
    <3> QED
      BY <3>2, <3>3
  <2> QED
    BY <2>1, <2>2
<1>2. Books(reports, n + 1, h)
  <2> HIDE DEF h
  <2>1. h = [s \in SUBSET (1..(n + 1)) |-> h[s]]
    BY DEF h
  <2> QED
    BY <1>1, <2>1 DEF Books
<1> QED
  BY <1>2

LEMMA BooksExist ==
  ASSUME NEW reports, NEW n \in Nat
  PROVE  \E g : Books(reports, n, g)
<1> DEFINE T == {m \in Nat : ~ \E g : Books(reports, m, g)}
<1> SUFFICES ASSUME T # {} PROVE FALSE
  OBVIOUS
<1>1. PICK m \in T : \A k \in T : m <= k
  BY LeastNumber
<1>2. CASE m = 0
  <2>1. Books(reports, 0, [s \in SUBSET (1..0) |-> << >>])
    BY DEF Books
  <2> QED BY <1>1, <1>2, <2>1
<1>3. CASE m # 0
  <2>1. m - 1 \in Nat /\ ~ (m <= m - 1) /\ (m - 1) + 1 = m
    BY <1>3
  <2>2. m - 1 \notin T
    BY <1>1, <2>1
  <2>3. \E g : Books(reports, m - 1, g)
    BY <2>1, <2>2
  <2>4. \E g : Books(reports, (m - 1) + 1, g)
    BY <2>1, <2>3, BooksStep
  <2> QED
    BY <2>1, <2>4
<1> QED
  BY <1>2, <1>3

LEMMA FoldIs ==
  ASSUME NEW reports, NEW n \in Nat, DOMAIN reports = 1..n
  PROVE  \E g : Books(reports, n, g) /\ FoldLeft(File, << >>, reports) = g[1..n]
<1> DEFINE g == CHOOSE iter : Books(reports, n, iter)
<1>1. Books(reports, n, g)
  BY BooksExist
<1>2. FoldLeft(File, << >>, reports) = g[1..n]
  BY DEF FoldLeft, MapThenFoldSet, Books
<1> QED
  BY <1>1, <1>2

LEMMA FoldSteps ==
  ASSUME NEW reports, NEW n \in Nat, DOMAIN reports = 1..n
  PROVE  \E book : /\ book[0] = << >>
                   /\ \A i \in 1..n : book[i] = File(book[i - 1], reports[i])
                   /\ FoldLeft(File, << >>, reports) = book[n]
<1>1. PICK g : Books(reports, n, g) /\ FoldLeft(File, << >>, reports) = g[1..n]
  BY FoldIs
<1> DEFINE book == [i \in 0..n |-> g[1..i]]
<1>2. book[0] = << >> /\ book[n] = g[1..n]
  BY <1>1 DEF Books
<1>3. ASSUME NEW i \in 1..n
      PROVE  book[i] = File(book[i - 1], reports[i])
  <2>1. /\ 1..i \in SUBSET (1..n) /\ i \in 1..i /\ 1..i \in SUBSET (1..i) /\ i \in Nat
        /\ (1..i) \ {i} = 1..(i - 1) /\ i - 1 \in 0..n /\ i \in 0..n
    OBVIOUS
  <2>2. Max(1..i) = i
    BY <2>1, MaxOf
  <2>3. g[1..i] = File(g[(1..i) \ {Max(1..i)}], reports[Max(1..i)])
    BY <1>1, <2>1 DEF Books
  <2> QED
    BY <2>1, <2>2, <2>3
<1> HIDE DEF book
<1> QED
  BY <1>1, <1>2, <1>3

(* What a book holds after these reports were filed.                       *)
Filed(book, reports) ==
  /\ DOMAIN book = {Key(f) : f \in reports}
  /\ \A key \in DOMAIN book :
       /\ book[key] \in Entries
       /\ Key(book[key]) = key
       /\ \E f \in reports : Key(f) = key /\ f.kind = book[key].kind
       /\ \E f \in reports : Key(f) = key /\ f.subject = book[key].subject
       /\ \A e \in book[key].evidence : \E f \in reports : Key(f) = key /\ e \in f.evidence
  /\ \A f \in reports : Covers(book[Key(f)], f)

LEMMA FileMeans ==
  ASSUME NEW book, NEW f
  PROVE  LET filed == File(book, f)
         IN /\ DOMAIN filed = DOMAIN book \cup {Key(f)}
            /\ \A key \in DOMAIN book : key # Key(f) => filed[key] = book[key]
            /\ filed[Key(f)] =
                 IF Key(f) \in DOMAIN book THEN Stricter(book[Key(f)], f) ELSE f
BY DEF File

LEMMA CoversItself ==
  ASSUME NEW f \in Entries
  PROVE  Covers(f, f)
BY RanksTyped DEF Covers, Entries

LEMMA FileKeeps ==
  ASSUME NEW reports \in SUBSET Entries, NEW f \in Entries, NEW book, Filed(book, reports)
  PROVE  Filed(File(book, f), reports \cup {f})
<1> DEFINE filed == File(book, f)
           k == Key(f)
<1>1. /\ DOMAIN filed = DOMAIN book \cup {k}
      /\ \A key \in DOMAIN book : key # k => filed[key] = book[key]
      /\ filed[k] = IF k \in DOMAIN book THEN Stricter(book[k], f) ELSE f
  BY FileMeans
<1> HIDE DEF filed
<1>2. DOMAIN filed = {Key(g) : g \in reports \cup {f}}
  BY <1>1 DEF Filed
<1>3. ASSUME NEW key \in DOMAIN book, key # k
      PROVE  /\ filed[key] = book[key]
             /\ book[key] \in Entries /\ Key(book[key]) = key
             /\ \E g \in reports : Key(g) = key /\ g.kind = book[key].kind
             /\ \E g \in reports : Key(g) = key /\ g.subject = book[key].subject
             /\ \A e \in book[key].evidence : \E g \in reports : Key(g) = key /\ e \in g.evidence
  BY <1>1, <1>3 DEF Filed
<1>4. CASE k \notin DOMAIN book
  <2>1. filed[k] = f /\ \A g \in reports : Key(g) # k
    BY <1>1, <1>4 DEF Filed
  <2>2. \A g \in reports : Covers(filed[Key(g)], g)
    BY <1>1, <2>1 DEF Filed
  <2>3. Covers(filed[k], f)
    BY <2>1, CoversItself
  <2> QED
    BY <1>1, <1>2, <1>3, <2>1, <2>2, <2>3 DEF Filed, filed
<1>5. CASE k \in DOMAIN book
  <2> DEFINE old == book[k]
  <2>1. /\ old \in Entries /\ Key(old) = k
        /\ \E g \in reports : Key(g) = k /\ g.kind = old.kind
        /\ \E g \in reports : Key(g) = k /\ g.subject = old.subject
        /\ \A e \in old.evidence : \E g \in reports : Key(g) = k /\ e \in g.evidence
    BY <1>5 DEF Filed
  <2>2. filed[k] = Stricter(old, f)
    BY <1>1, <1>5
  <2>3. Key(filed[k]) = k
    BY <2>1, <2>2, StricterKey
  <2>4. /\ filed[k] \in Entries
        /\ Covers(filed[k], old) /\ Covers(filed[k], f)
        /\ filed[k].kind \in {old.kind, f.kind}
        /\ filed[k].subject \in {old.subject, f.subject}
        /\ filed[k].evidence = old.evidence \cup f.evidence
    BY <2>1, <2>2, StricterCovers
  <2>5. ASSUME NEW g \in reports
        PROVE  Covers(filed[Key(g)], g)
    <3>1. CASE Key(g) = k
      <4>1. Covers(old, g)
        BY <3>1 DEF Filed
      <4> QED
        BY <2>1, <2>4, <3>1, <4>1, CoversTransitive
    <3>2. CASE Key(g) # k
      BY <1>3, <3>2 DEF Filed
    <3> QED
      BY <3>1, <3>2
  <2>6. /\ \E g \in reports \cup {f} : Key(g) = k /\ g.kind = filed[k].kind
        /\ \E g \in reports \cup {f} : Key(g) = k /\ g.subject = filed[k].subject
        /\ \A e \in filed[k].evidence : \E g \in reports \cup {f} : Key(g) = k /\ e \in g.evidence
    <3> HIDE DEF k, old
    <3>1. f \in reports \cup {f} /\ Key(f) = k
      BY DEF k
    <3> QED
      BY <2>1, <2>4, <3>1
  <2> QED
    BY <1>1, <1>2, <1>3, <2>3, <2>4, <2>5, <2>6 DEF Filed, filed
<1> QED
  BY <1>4, <1>5

(* A book holds one entry per key, drawn from the reports of that key.     *)
LEMMA BookHolds ==
  ASSUME NEW reports \in Seq(Entries)
  PROVE  Filed(FoldLeft(File, << >>, reports), ToSet(reports))
<1> DEFINE n == Len(reports)
           Sofar(i) == {reports[j] : j \in 1..i}
<1>1. n \in Nat /\ DOMAIN reports = 1..n /\ \A i \in 1..n : reports[i] \in Entries
  OBVIOUS
<1>2. PICK book : /\ book[0] = << >>
                  /\ \A i \in 1..n : book[i] = File(book[i - 1], reports[i])
                  /\ FoldLeft(File, << >>, reports) = book[n]
  BY <1>1, FoldSteps
<1> DEFINE T == {i \in 0..n : ~ Filed(book[i], Sofar(i))}
<1>3. T = {}
  <2> SUFFICES ASSUME T # {} PROVE FALSE
    OBVIOUS
  <2>1. T \in SUBSET Nat
    BY <1>1
  <2>2. PICK i \in T : \A j \in T : i <= j
    BY <2>1, LeastNumber
  <2>3. CASE i = 0
    <3>1. Sofar(0) = {} /\ DOMAIN book[0] = {}
      BY <1>2
    <3>2. Filed(book[0], Sofar(0))
      BY <3>1 DEF Filed
    <3> QED
      BY <2>2, <2>3, <3>2
  <2>4. CASE i # 0
    <3>1. i \in 1..n /\ i - 1 \in 0..n /\ ~ (i <= i - 1)
      BY <1>1, <2>2, <2>4
    <3>2. Filed(book[i - 1], Sofar(i - 1))
      BY <2>2, <3>1
    <3>3. Sofar(i - 1) \in SUBSET Entries /\ Sofar(i) = Sofar(i - 1) \cup {reports[i]}
      BY <1>1, <3>1
    <3>4. Filed(File(book[i - 1], reports[i]), Sofar(i - 1) \cup {reports[i]})
      BY <1>1, <3>1, <3>2, <3>3, FileKeeps
    <3> QED
      BY <1>2, <2>2, <3>1, <3>3, <3>4
  <2> QED
    BY <2>3, <2>4
<1>4. Sofar(n) = ToSet(reports)
  BY <1>1 DEF ToSet
<1> HIDE DEF Sofar, n
<1>5. Filed(book[n], Sofar(n))
  <2>1. n \in 0..n /\ n \notin T
    BY <1>1, <1>3
  <2> QED
    BY <2>1
<1> HIDE DEF T
<1> QED
  BY <1>2, <1>4, <1>5

(* The sequences that FlattenSeq passes through.                           *)
Joined(seqs, n, g) ==
  g = [i \in 1..n |-> IF i = 1 THEN seqs[i] ELSE g[i - 1] \o seqs[i]]

LEMMA JoinedExist ==
  ASSUME NEW seqs, NEW n \in Nat
  PROVE  \E g : Joined(seqs, n, g)
<1> DEFINE T == {m \in Nat : ~ \E g : Joined(seqs, m, g)}
<1> SUFFICES ASSUME T # {} PROVE FALSE
  OBVIOUS
<1>1. PICK m \in T : \A k \in T : m <= k
  BY LeastNumber
<1>2. CASE m = 0
  <2>1. Joined(seqs, 0, [i \in 1..0 |-> << >>])
    BY DEF Joined
  <2> QED
    BY <1>1, <1>2, <2>1
<1>3. CASE m # 0
  <2>1. m - 1 \in Nat /\ m \in Nat /\ ~ (m <= m - 1) /\ m > 0
    BY <1>3
  <2>2. m - 1 \notin T
    BY <1>1, <2>1
  <2>3. PICK g : Joined(seqs, m - 1, g)
    BY <2>1, <2>2
  <2> DEFINE h == [i \in 1..m |-> IF i = 1 THEN seqs[i] ELSE g[i - 1] \o seqs[i]]
  <2>4. ASSUME NEW i \in 1..m, i # 1
        PROVE  h[i] = h[i - 1] \o seqs[i]
    <3>1. i - 1 \in 1..m /\ i - 1 \in 1..(m - 1)
      BY <2>1, <2>4
    <3>2. g[i - 1] = IF i - 1 = 1 THEN seqs[i - 1] ELSE g[(i - 1) - 1] \o seqs[i - 1]
      BY <2>3, <3>1 DEF Joined
    <3>3. h[i - 1] = g[i - 1]
      BY <3>1, <3>2
    <3> QED
      BY <2>4, <3>3
  <2>5. \A i \in 1..m : i = 1 => h[i] = seqs[i]
    OBVIOUS
  <2>6. h = [i \in 1..m |-> h[i]]
    OBVIOUS
  <2> HIDE DEF h
  <2>7. Joined(seqs, m, h)
    BY <2>4, <2>5, <2>6 DEF Joined
  <2> QED
    BY <1>1, <2>7
<1> QED
  BY <1>2, <1>3

(* What is joined from lists of one kind of thing is a list of that kind.  *)
LEMMA FlattenTyped ==
  ASSUME NEW S, NEW seqs \in Seq(Seq(S))
  PROVE  FlattenSeq(seqs) \in Seq(S)
<1> DEFINE n == Len(seqs)
           flatten == CHOOSE g : Joined(seqs, n, g)
<1>1. n \in Nat /\ DOMAIN seqs = 1..n /\ \A i \in 1..n : seqs[i] \in Seq(S)
  OBVIOUS
<1>2. CASE n = 0
  <2>1. FlattenSeq(seqs) = seqs /\ seqs = << >>
    BY <1>1, <1>2 DEF FlattenSeq
  <2> QED
    BY <2>1
<1>3. CASE n # 0
  <2>1. Joined(seqs, n, flatten)
    BY <1>1, JoinedExist
  <2>2. FlattenSeq(seqs) = flatten[n]
    BY <1>3 DEF FlattenSeq, Joined
  <2> HIDE DEF flatten
  <2> DEFINE T == {i \in 1..n : flatten[i] \notin Seq(S)}
  <2>3. T = {}
    <3> SUFFICES ASSUME T # {} PROVE FALSE
      OBVIOUS
    <3>1. T \in SUBSET Nat
      BY <1>1
    <3>2. PICK i \in T : \A j \in T : i <= j
      BY <3>1, LeastNumber
    <3>3. i \in 1..n /\ flatten[i] = IF i = 1 THEN seqs[i] ELSE flatten[i - 1] \o seqs[i]
      BY <2>1, <3>2 DEF Joined
    <3>4. CASE i = 1
      BY <1>1, <3>2, <3>3, <3>4
    <3>5. CASE i # 1
      <4>1. i - 1 \in 1..n /\ ~ (i <= i - 1)
        BY <1>1, <3>3, <3>5
      <4>2. flatten[i - 1] \in Seq(S) /\ seqs[i] \in Seq(S)
        BY <1>1, <3>2, <3>3, <4>1
      <4>3. flatten[i] = flatten[i - 1] \o seqs[i]
        BY <3>3, <3>5
      <4>4. flatten[i] \in Seq(S)
        BY <4>2, <4>3
      <4> QED
        BY <3>2, <4>4
    <3> QED
      BY <3>4, <3>5
  <2>4. n \in 1..n /\ n \notin T
    BY <1>1, <1>3, <2>3
  <2>5. flatten[n] \in Seq(S)
    BY <2>4
  <2> QED
    BY <2>2, <2>5
<1> QED
  BY <1>2, <1>3

-----------------------------------------------------------------------------
(* A record with the fields of a finding.                                  *)
Shaped(f) == \E item \in Items : DOMAIN f = DOMAIN item /\ f = [x \in DOMAIN f |-> f[x]]

LEMMA EntryShaped == \A f \in Entries : Shaped(f)
BY DEF Shaped, Entries, Items

LEMMA FlooredFields ==
  ASSUME NEW f, Shaped(f)
  PROVE  LET d == Floored(f)
         IN /\ Shaped(d)
            /\ d.severity = Stronger(SeverityRank, f.severity, Floor(f.kind))
            /\ d.capability = f.capability /\ d.class = f.class /\ d.subject = f.subject
            /\ d.kind = f.kind /\ d.slug = f.slug /\ d.bundle = f.bundle
            /\ d.symbol = f.symbol /\ d.summary = f.summary
            /\ d.evidence = f.evidence /\ d.advisories = f.advisories
            /\ d.forbidden = f.forbidden /\ d.unlock = f.unlock /\ d.members = f.members
BY DEF Floored, Shaped, Items

LEMMA FloorTyped == \A kind : Floor(kind) \in Severities
BY DEF Floor, Severities

(* Of the ranks in a set that is not empty, one is the highest.            *)
LEMMA HighestClass ==
  ASSUME NEW values \in SUBSET Classes, values # {}
  PROVE  LET c == Highest(ClassRank, values)
         IN c \in values /\ \A v \in values : ClassRank[c] >= ClassRank[v]
<1>1. \E c \in values : \A v \in values : ClassRank[v] <= ClassRank[c]
  <2>1. CASE "security" \in values
    BY <2>1 DEF ClassRank, Classes
  <2>2. CASE "security" \notin values
    <3>1. values = {"routine"}
      BY <2>2 DEF Classes
    <3> QED
      BY <3>1 DEF ClassRank
  <2> QED
    BY <2>1, <2>2
<1>2. LET c == Highest(ClassRank, values)
      IN c \in values /\ \A v \in values : ClassRank[v] <= ClassRank[c]
  BY <1>1 DEF Highest
<1> QED
  BY <1>2, RanksTyped

LEMMA HighestSeverity ==
  ASSUME NEW values \in SUBSET Severities, values # {}
  PROVE  LET c == Highest(SeverityRank, values)
         IN c \in values /\ \A v \in values : SeverityRank[c] >= SeverityRank[v]
<1>1. \E c \in values : \A v \in values : SeverityRank[v] <= SeverityRank[c]
  <2>1. CASE "critical" \in values
    BY <2>1 DEF SeverityRank, Severities
  <2>2. CASE "critical" \notin values /\ "high" \in values
    BY <2>2 DEF SeverityRank, Severities
  <2>3. CASE "critical" \notin values /\ "high" \notin values /\ "medium" \in values
    BY <2>3 DEF SeverityRank, Severities
  <2>4. CASE "critical" \notin values /\ "high" \notin values /\ "medium" \notin values
    <3>1. values = {"low"}
      BY <2>4 DEF Severities
    <3> QED
      BY <3>1 DEF SeverityRank
  <2> QED
    BY <2>1, <2>2, <2>3, <2>4
<1>2. LET c == Highest(SeverityRank, values)
      IN c \in values /\ \A v \in values : SeverityRank[v] <= SeverityRank[c]
  BY <1>1 DEF Highest
<1> QED
  BY <1>2, RanksTyped

(* What a bundle is concluded as.                                          *)
LEMMA CombineFields ==
  ASSUME NEW group \in SUBSET Entries, group # {}
  PROVE  LET c == Combine(group)
         IN /\ Shaped(c)
            /\ \E f \in group : c.capability = f.capability /\ c.bundle = f.bundle
            /\ c.class \in Classes /\ c.severity \in Severities
            /\ \A f \in group : Covers(c, f) /\ f.subject \in c.members
            /\ c.evidence = UNION {f.evidence : f \in group}
            /\ c.kind = CombinedKind(group)
<1> DEFINE c == Combine(group)
           some == CHOOSE f \in group : TRUE
           class == Highest(ClassRank, {f.class : f \in group})
           severity == Highest(SeverityRank, {f.severity : f \in group})
           subject == CHOOSE s \in {f.subject : f \in group} : TRUE
           evidence == UNION {f.evidence : f \in group}
           advisories == UNION {f.advisories : f \in group}
           kind == CombinedKind(group)
           forbidden == \E f \in group : f.forbidden
           unlock == \E f \in group : f.unlock
           members == {f.subject : f \in group}
<1>1. some \in group /\ some \in Items
  BY DEF Entries
<1>2. class \in Classes /\ \A f \in group : ClassRank[class] >= ClassRank[f.class]
  <2>1. {f.class : f \in group} \in SUBSET Classes /\ {f.class : f \in group} # {}
    BY DEF Entries
  <2> QED
    BY <2>1, HighestClass
<1>3. severity \in Severities /\ \A f \in group : SeverityRank[severity] >= SeverityRank[f.severity]
  <2>1. {f.severity : f \in group} \in SUBSET Severities /\ {f.severity : f \in group} # {}
    BY DEF Entries
  <2> QED
    BY <2>1, HighestSeverity
<1>4. \A f \in group : /\ f.evidence \subseteq evidence /\ f.advisories \subseteq advisories
                       /\ f.forbidden => forbidden
                       /\ f.unlock => unlock
                       /\ f.subject \in members
  OBVIOUS
<1>5. c = [some EXCEPT !.class = class, !.severity = severity, !.subject = subject,
             !.evidence = evidence, !.advisories = advisories, !.kind = kind,
             !.forbidden = forbidden, !.unlock = unlock, !.members = members]
  BY DEF Combine
<1> HIDE DEF c, some, class, severity, subject, evidence, advisories, kind, forbidden, unlock, members
<1>6. /\ Shaped(c)
      /\ c.capability = some.capability /\ c.bundle = some.bundle
      /\ c.class = class /\ c.severity = severity
      /\ c.evidence = evidence /\ c.advisories = advisories /\ c.kind = kind
      /\ c.forbidden = forbidden /\ c.unlock = unlock /\ c.members = members
  BY <1>1, <1>5 DEF Shaped, Items
<1>7. \A f \in group : Covers(c, f) /\ f.subject \in c.members
  BY <1>2, <1>3, <1>4, <1>6 DEF Covers
<1>8. c.evidence = UNION {f.evidence : f \in group} /\ c.kind = CombinedKind(group)
  BY <1>6 DEF evidence, kind
<1> QED
  BY <1>1, <1>2, <1>3, <1>6, <1>7, <1>8 DEF c

(* A bundle of members of one kind is of that kind.                        *)
LEMMA CombinedOfOneKind ==
  ASSUME NEW group \in SUBSET Entries, group # {}, NEW kind, \A f \in group : f.kind = kind
  PROVE  CombinedKind(group) = kind
<1> DEFINE top == {f \in group : \A g \in group : KindRank[g.kind] <= KindRank[f.kind]}
<1>1. KindRank[kind] <= KindRank[kind]
  BY DEF Entries, PackageKinds, KindRank
<1>2. top = group
  BY <1>1
<1>3. \E f \in top : \A g \in top : g.kind = f.kind \/ Heavier(f, g)
  BY <1>2
<1>4. (CHOOSE f \in top : \A g \in top : g.kind = f.kind \/ Heavier(f, g)) \in group
  BY <1>2, <1>3
<1> QED
  BY <1>4 DEF CombinedKind

(* What a conclusion owes to the reports it speaks for.                    *)
DrawnFrom(x, f, reports) ==
  /\ \A e \in x.evidence : \E g \in reports : SpeaksFor(g, f) /\ e \in g.evidence
  /\ (\A g \in reports : SpeaksFor(g, f) => g.kind = f.kind) => x.kind = f.kind
  /\ f.bundle # "none" => \E g \in reports : Key(g) = Key(f) /\ g.subject \in x.members

LEMMA KeySpeaks ==
  ASSUME NEW f, NEW g, Key(f) = Key(g)
  PROVE  SpeaksFor(f, g) /\ f.capability = g.capability /\ f.bundle = g.bundle
BY DEF Key, SpeaksFor

(* One conclusion speaks for a report; it covers it, and it is drawn from  *)
(* the reports it speaks for.                                              *)
LEMMA CollapseMeans ==
  ASSUME NEW reports \in SUBSET Entries, NEW book, Filed(book, reports), NEW f \in reports
  PROVE  \E x \in Collapse(Range(book)) :
           /\ Shaped(x) /\ x.class \in Classes /\ x.severity \in Severities
           /\ \A y \in Collapse(Range(book)) : SpeaksFor(y, f) <=> y = x
           /\ Covers(x, f)
           /\ DrawnFrom(x, f, reports)
           /\ f.bundle = "none" => Key(x) = Key(f)
<1> DEFINE findings == Range(book)
           bundled == {g \in findings : g.bundle # "none"}
           Group(g) == {h \in bundled : h.capability = g.capability /\ h.bundle = g.bundle}
           m == book[Key(f)]
<1>1. Collapse(findings) = (findings \ bundled) \cup {Combine(group) : group \in {Group(g) : g \in bundled}}
  BY DEF Collapse
<1>2. /\ m \in findings /\ m \in Entries /\ Key(m) = Key(f) /\ Covers(m, f)
      /\ \E g \in reports : Key(g) = Key(f) /\ g.kind = m.kind
      /\ \E g \in reports : Key(g) = Key(f) /\ g.subject = m.subject
      /\ \A e \in m.evidence : \E g \in reports : Key(g) = Key(f) /\ e \in g.evidence
  BY DEF Filed, Range
<1>3. m.capability = f.capability /\ m.bundle = f.bundle
  BY <1>2, KeySpeaks
<1>4. findings \in SUBSET Entries /\ \A y, z \in findings : Key(y) = Key(z) => y = z
  BY DEF Filed, Range
<1>5. \A y \in findings :
        /\ \E g \in reports : Key(g) = Key(y) /\ g.kind = y.kind
        /\ \A e \in y.evidence : \E g \in reports : Key(g) = Key(y) /\ e \in g.evidence
  BY DEF Filed, Range
<1> HIDE DEF findings, m
<1>6. ASSUME NEW g \in bundled
      PROVE  /\ Group(g) \in SUBSET Entries /\ g \in Group(g)
             /\ LET c == Combine(Group(g))
                IN /\ Shaped(c) /\ c.class \in Classes /\ c.severity \in Severities
                   /\ c.capability = g.capability /\ c.bundle = g.bundle /\ c.bundle # "none"
                   /\ \A h \in Group(g) : Covers(c, h) /\ h.subject \in c.members
                   /\ c.evidence = UNION {h.evidence : h \in Group(g)}
                   /\ c.kind = CombinedKind(Group(g))
  <2>1. Group(g) \in SUBSET Entries /\ g \in Group(g)
    BY <1>4
  <2> QED
    BY <2>1, CombineFields
<1>7. CASE f.bundle = "none"
  <2>1. m \in Collapse(findings)
    BY <1>1, <1>2, <1>3, <1>7
  <2>2. SpeaksFor(m, f)
    BY <1>2, KeySpeaks
  <2>3. ASSUME NEW y \in Collapse(findings), SpeaksFor(y, f)
        PROVE  y = m
    <3>1. y.bundle = "none" /\ Key(y) = Key(f)
      BY <1>7, <2>3 DEF SpeaksFor
    <3>2. y \in findings
      BY <1>1, <1>6, <3>1
    <3> QED
      BY <1>2, <1>4, <3>1, <3>2
  <2>4. Shaped(m) /\ m.class \in Classes /\ m.severity \in Severities
    BY <1>2, EntryShaped DEF Entries
  <2>5. DrawnFrom(m, f, reports)
    <3>1. \A g \in reports : Key(g) = Key(f) => SpeaksFor(g, f)
      BY KeySpeaks
    <3> QED
      BY <1>2, <1>7, <3>1 DEF DrawnFrom
  <2> QED
    BY <1>2, <2>1, <2>2, <2>3, <2>4, <2>5 DEF findings
<1>8. CASE f.bundle # "none"
  <2> DEFINE x == Combine(Group(m))
  <2>1. m \in bundled
    BY <1>2, <1>3, <1>8
  <2>2. /\ Group(m) \in SUBSET Entries /\ m \in Group(m)
        /\ Shaped(x) /\ x.class \in Classes /\ x.severity \in Severities
        /\ x.capability = f.capability /\ x.bundle = f.bundle
        /\ Covers(x, m) /\ m.subject \in x.members
        /\ x.evidence = UNION {h.evidence : h \in Group(m)}
        /\ x.kind = CombinedKind(Group(m))
    BY <1>3, <1>6, <2>1
  <2>3. x \in Collapse(findings)
    BY <1>1, <2>1
  <2>4. SpeaksFor(x, f)
    BY <1>8, <2>2 DEF SpeaksFor
  <2>5. ASSUME NEW y \in Collapse(findings), SpeaksFor(y, f)
        PROVE  y = x
    <3>1. y.capability = f.capability /\ y.bundle = f.bundle
      BY <2>5 DEF SpeaksFor
    <3>2. PICK g \in bundled : y = Combine(Group(g))
      BY <1>1, <1>8, <3>1
    <3>3. g.capability = m.capability /\ g.bundle = m.bundle
      BY <1>3, <1>6, <3>1, <3>2
    <3>4. Group(g) = Group(m)
      BY <3>3
    <3> QED
      BY <3>2, <3>4
  <2>6. ASSUME NEW h \in Group(m)
        PROVE  \A g \in reports : Key(g) = Key(h) => SpeaksFor(g, f)
    <3>1. h.capability = f.capability /\ h.bundle = f.bundle
      BY <1>3
    <3> QED
      BY <1>8, <3>1, KeySpeaks DEF SpeaksFor
  <2>7. \A h \in Group(m) : h \in findings
    OBVIOUS
  <2> HIDE DEF x, bundled, Group
  <2>8. \A e \in x.evidence : \E g \in reports : SpeaksFor(g, f) /\ e \in g.evidence
    <3> SUFFICES ASSUME NEW e \in x.evidence
                 PROVE  \E g \in reports : SpeaksFor(g, f) /\ e \in g.evidence
      OBVIOUS
    <3>1. PICK h \in Group(m) : e \in h.evidence
      BY <2>2
    <3>2. PICK g \in reports : Key(g) = Key(h) /\ e \in g.evidence
      BY <1>5, <2>7, <3>1
    <3> QED
      BY <2>6, <3>2
  <2>9. ASSUME \A g \in reports : SpeaksFor(g, f) => g.kind = f.kind
        PROVE  x.kind = f.kind
    <3>1. \A h \in Group(m) : h.kind = f.kind
      BY <1>5, <2>6, <2>7, <2>9
    <3> QED
      BY <2>2, <3>1, CombinedOfOneKind
  <2>10. \E g \in reports : Key(g) = Key(f) /\ g.subject \in x.members
    BY <1>2, <2>2
  <2>11. DrawnFrom(x, f, reports)
    BY <2>8, <2>9, <2>10 DEF DrawnFrom
  <2>12. Covers(x, f)
    <3>1. f \in Entries /\ m \in Entries /\ Covers(x, m) /\ Covers(m, f)
      BY <1>2, <2>2
    <3>2. /\ ClassRank[x.class] >= ClassRank[f.class]
          /\ SeverityRank[x.severity] >= SeverityRank[f.severity]
      BY <2>2, <3>1, RanksTyped DEF Covers, Entries
    <3> QED
      BY <3>1, <3>2 DEF Covers
  <2>13. \A y \in Collapse(findings) : SpeaksFor(y, f) <=> y = x
    BY <2>4, <2>5
  <2> QED
    BY <1>8, <2>2, <2>3, <2>11, <2>12, <2>13 DEF findings
<1> QED
  BY <1>7, <1>8

-----------------------------------------------------------------------------
(* No advisory is named like a kind of problem.                            *)
AdvisoriesAreNoKinds ==
  \A file \in Files : \A item \in ToSet(file.listed) : item.advisories \cap PackageKinds = {}

(* What blocks at a class and severity blocks at every higher one.         *)
HigherBlocks ==
  \A p, q \in Classes \X Severities :
    p \in Blocking /\ ClassRank[q[1]] >= ClassRank[p[1]]
                   /\ SeverityRank[q[2]] >= SeverityRank[p[2]] => q \in Blocking

(* What is read of a run: findings of a known kind, class and severity; a  *)
(* task whose file was refused twice has ended so; and what was concluded  *)
(* is what the run's findings add up to, when all of its tasks have ended. *)
ReadInv ==
  /\ found \in [planned -> Seq(Entries)]
  /\ tries \in [planned -> 0..2]
  /\ \A t \in planned :
       tries[t] = 2 => t \in DOMAIN ended /\ ended[t] = "invalid-result"
  /\ verdict # Undecided =>
       /\ \A t \in planned : t \in DOMAIN ended
       /\ verdict.judged = Judged
       /\ verdict.result = Decided(Judged)

LEMMA FileTyped ==
  ASSUME AdvisoriesAreNoKinds, NEW t \in Tasks, NEW file \in Files, NEW facts, Valid(file, facts)
  PROVE  [i \in DOMAIN file.listed |-> Read(file.listed[i], CapabilityOf[t])] \in Seq(Entries)
<1>1. file.listed \in Seq(Items) /\ CapabilityOf[t] \in STRING
  BY FilesAssumption
<1>2. ASSUME NEW i \in DOMAIN file.listed
      PROVE  Read(file.listed[i], CapabilityOf[t]) \in Entries
  <2> DEFINE item == file.listed[i]
  <2>1. item \in Items /\ item \in ToSet(file.listed)
    BY <1>1 DEF ToSet
  <2>2. Readable(item, facts) /\ item.advisories \cap PackageKinds = {}
    BY <2>1 DEF Valid, AdvisoriesAreNoKinds
  <2> HIDE DEF item
  <2>3. LET f == Read(item, CapabilityOf[t])
        IN /\ f \in Items
           /\ f.class = item.class /\ f.severity = item.severity /\ f.kind = item.kind
           /\ f.advisories = item.advisories \ {"none"}
    BY <1>1, <2>1, ReadTyped
  <2> QED
    BY <2>2, <2>3 DEF Readable, Kinded, Entries, item
<1> QED
  BY <1>1, <1>2

LEMMA ReadStep ==
  ASSUME AdvisoriesAreNoKinds, EndedInv, ReadInv, [Next]_vars
  PROVE  ReadInv'
<1>1. CASE UNCHANGED vars
  BY <1>1 DEF vars, conclusions, ReadInv, Judged, Reported, Decided
<1>2. ASSUME NEW t, Running(t), verdict' = verdict
      PROVE  verdict' = Undecided
  BY <1>2 DEF ReadInv, Running
<1>3. ASSUME NEW r \in Records, RecordFact(r)
      PROVE  ReadInv'
  <2>1. verdict' = Undecided
    BY <1>2, <1>3 DEF RecordFact
  <2> QED
    BY <1>3, <2>1 DEF RecordFact, ReadInv
<1>4. ASSUME NEW t \in Tasks, SessionFails(t)
      PROVE  ReadInv'
  <2>1. verdict' = Undecided
    BY <1>2, <1>4 DEF SessionFails
  <2>2. \A u \in DOMAIN ended : u \in DOMAIN ended' /\ (u # t => ended'[u] = ended[u])
    BY <1>4 DEF SessionFails, Ends
  <2>3. t \notin DOMAIN ended /\ t \in planned
    BY <1>4 DEF SessionFails, Running
  <2> QED
    BY <1>4, <2>1, <2>2, <2>3 DEF SessionFails, ReadInv
<1>5. ASSUME NEW t \in Tasks, NEW file \in Files, Write(t, file)
      PROVE  ReadInv'
  <2>1. verdict' = Undecided /\ planned' = planned /\ t \in planned /\ t \notin DOMAIN ended
    BY <1>2, <1>5 DEF Write, Running
  <2>2. tries[t] \in 0..1
    BY <2>1 DEF ReadInv
  <2>3. CASE Valid(file, known)
    <3>1. /\ tries' = tries /\ Ends(t, OutcomeOf(file))
          /\ found' = [found EXCEPT ![t] =
               [i \in DOMAIN file.listed |-> Read(file.listed[i], CapabilityOf[t])]]
      BY <1>5, <2>3 DEF Write
    <3>2. found' \in [planned -> Seq(Entries)]
      BY <2>1, <2>3, <3>1, FileTyped DEF ReadInv
    <3>3. \A u \in DOMAIN ended : u \in DOMAIN ended' /\ (u # t => ended'[u] = ended[u])
      BY <3>1 DEF Ends
    <3> QED
      BY <2>1, <3>1, <3>2, <3>3 DEF ReadInv
  <2>4. CASE ~ Valid(file, known)
    <3>1. /\ tries' = [tries EXCEPT ![t] = @ + 1] /\ found' = found
          /\ IF tries[t] = 0 THEN UNCHANGED ended ELSE Ends(t, "invalid-result")
      BY <1>5, <2>4 DEF Write
    <3>2. tries' \in [planned -> 0..2]
      BY <2>1, <2>2, <3>1 DEF ReadInv
    <3>3. ASSUME NEW u \in planned, tries'[u] = 2
          PROVE  u \in DOMAIN ended' /\ ended'[u] = "invalid-result"
      <4>1. CASE u = t
        <5>1. tries[t] # 0
          BY <2>1, <2>2, <3>1, <3>3, <4>1 DEF ReadInv
        <5> QED
          BY <3>1, <4>1, <5>1 DEF Ends
      <4>2. CASE u # t
        <5>1. tries[u] = 2
          BY <3>1, <3>3, <4>2 DEF ReadInv
        <5>2. u \in DOMAIN ended /\ ended[u] = "invalid-result"
          BY <5>1 DEF ReadInv
        <5> QED
          BY <3>1, <4>2, <5>2 DEF Ends
      <4> QED
        BY <4>1, <4>2
    <3> QED
      BY <2>1, <3>1, <3>2, <3>3 DEF ReadInv
  <2> QED
    BY <2>3, <2>4
<1>6. ASSUME NEW kind, NEW recalled, NEW stored, Conclude(kind, recalled, stored)
      PROVE  ReadInv'
  <2>1. /\ planned' = planned /\ tries' = tries /\ ended' = ended /\ found' = found
        /\ \A t \in planned : t \in DOMAIN ended
        /\ verdict' = [result |-> Decided(Judged), judged |-> Judged, recalled |-> recalled]
    BY <1>6 DEF Conclude, Running
  <2>2. Judged' = Judged
    BY <2>1 DEF Judged, Reported
  <2>3. Decided(Judged)' = Decided(Judged)
    BY <2>1, <2>2 DEF Decided
  <2> QED
    BY <2>1, <2>2, <2>3 DEF ReadInv
<1>7. ASSUME NEW ran \in SUBSET Tasks \ {{}}, NextRun(ran)
      PROVE  ReadInv'
  <2>1. /\ planned' = ran /\ tries' = [t \in ran |-> 0]
        /\ found' = [t \in ran |-> << >>] /\ verdict' = Undecided
    BY <1>7 DEF NextRun, StartRun
  <2> QED
    BY <2>1 DEF ReadInv
<1> QED
  BY <1>1, <1>3, <1>4, <1>5, <1>6, <1>7 DEF Next

LEMMA ReadAlways ==
  ASSUME AdvisoriesAreNoKinds
  PROVE  Spec => []ReadInv
<1>1. Init => ReadInv
  BY DEF Init, ReadInv
<1>2. EndedInv /\ ReadInv /\ [Next]_vars => ReadInv'
  BY ReadStep
<1> QED
  BY <1>1, <1>2, EndedAlways, PTL DEF Spec

(* The reports of a run, as a list of findings.                            *)
LEMMA ReportedTyped ==
  ASSUME ReadInv
  PROVE  Reported \in Seq(Entries) /\ Reports \in SUBSET Entries
<1> DEFINE lists == [i \in DOMAIN Order |-> IF Order[i] \in planned THEN found[Order[i]] ELSE << >>]
<1>1. lists \in Seq(Seq(Entries))
  <2>1. Order \in Seq(Tasks)
    BY PlanAssumption
  <2>2. DOMAIN Order = 1..Len(Order) /\ Len(Order) \in Nat
    BY <2>1
  <2>3. << >> \in Seq(Entries)
    OBVIOUS
  <2>4. \A t \in planned : found[t] \in Seq(Entries)
    BY DEF ReadInv
  <2>5. \A i \in DOMAIN Order : lists[i] \in Seq(Entries)
    BY <2>3, <2>4
  <2>6. lists \in [1..Len(Order) -> Seq(Entries)]
    BY <2>2, <2>5
  <2> QED
    BY <2>2, <2>6
<1>2. Reported = FlattenSeq(lists)
  BY DEF Reported
<1> HIDE DEF lists
<1>3. Reported \in Seq(Entries)
  BY <1>1, <1>2, FlattenTyped
<1> QED
  BY <1>3 DEF Reports, ToSet

LEMMA CollapseShaped ==
  ASSUME NEW findings \in SUBSET Entries
  PROVE  \A y \in Collapse(findings) : Shaped(y)
<1> DEFINE bundled == {g \in findings : g.bundle # "none"}
           Group(g) == {h \in bundled : h.capability = g.capability /\ h.bundle = g.bundle}
<1> SUFFICES ASSUME NEW y \in Collapse(findings) PROVE Shaped(y)
  OBVIOUS
<1>1. y \in findings \/ \E g \in bundled : y = Combine(Group(g))
  BY DEF Collapse
<1>2. CASE y \in findings
  BY <1>2, EntryShaped
<1>3. ASSUME NEW g \in bundled, y = Combine(Group(g))
      PROVE  Shaped(y)
  <2>1. Group(g) \in SUBSET Entries /\ Group(g) # {}
    OBVIOUS
  <2> QED
    BY <1>3, <2>1, CombineFields
<1> QED
  BY <1>1, <1>2, <1>3

LEMMA FlooredSpeaks ==
  ASSUME NEW y, Shaped(y), NEW f
  PROVE  SpeaksFor(Floored(y), f) <=> SpeaksFor(y, f)
<1>1. Key(Floored(y)) = Key(y)
  BY FlooredFields DEF Key, Identity, Worded
<1> QED
  BY <1>1, FlooredFields DEF SpeaksFor

(* The conclusion that speaks for a report.                                *)
LEMMA Spoken ==
  ASSUME ReadInv, NEW f \in Reports
  PROVE  \E x :
           /\ Shaped(x) /\ x.class \in Classes /\ x.severity \in Severities
           /\ {h \in Judged : SpeaksFor(h, f)} = {Floored(x)}
           /\ Covers(x, f)
           /\ DrawnFrom(x, f, Reports)
<1> DEFINE book == FoldLeft(File, << >>, Reported)
           left == Collapse(Range(book))
<1>1. Filed(book, Reports) /\ Reports \in SUBSET Entries
  BY ReportedTyped, BookHolds DEF Reports
<1>2. Judged = {Floored(y) : y \in left}
  BY DEF Judged, Merge
<1>3. \A y \in left : Shaped(y)
  <2>1. Range(book) \in SUBSET Entries
    BY <1>1 DEF Filed, Range
  <2> QED
    BY <2>1, CollapseShaped
<1> HIDE DEF book
<1>4. PICK x \in left :
        /\ Shaped(x) /\ x.class \in Classes /\ x.severity \in Severities
        /\ \A y \in left : SpeaksFor(y, f) <=> y = x
        /\ Covers(x, f)
        /\ DrawnFrom(x, f, Reports)
  BY <1>1, CollapseMeans
<1> HIDE DEF left
<1>5. \A y \in left : SpeaksFor(Floored(y), f) <=> y = x
  BY <1>3, <1>4, FlooredSpeaks
<1>6. {h \in Judged : SpeaksFor(h, f)} = {Floored(x)}
  BY <1>2, <1>4, <1>5
<1> QED
  BY <1>4, <1>6

(* Whatever is reported twice, in whatever order and by whatever task, has *)
(* one conclusion, which carries the key it was merged under (_stricter).  *)
THEOREM EachConcludedOnce ==
  ASSUME AdvisoriesAreNoKinds
  PROVE  Spec => []ConcludedOnce
<1>1. ReadInv => ConcludedOnce
  <2> SUFFICES ASSUME ReadInv, Concluded, NEW f \in Reports
               PROVE  \E g \in verdict.judged : {h \in verdict.judged : SpeaksFor(h, f)} = {g}
    BY DEF ConcludedOnce
  <2>1. verdict.judged = Judged
    BY DEF Concluded, ReadInv
  <2>2. PICK x : {h \in Judged : SpeaksFor(h, f)} = {Floored(x)}
    BY Spoken
  <2>3. Floored(x) \in Judged
    BY <2>2
  <2> QED
    BY <2>1, <2>2, <2>3
<1> QED
  BY <1>1, ReadAlways, PTL

(* Raising a severity to its floor weakens nothing.                        *)
LEMMA FlooredCovers ==
  ASSUME NEW x, Shaped(x), x.class \in Classes, x.severity \in Severities,
         NEW f \in Entries, Covers(x, f)
  PROVE  Floored(x).severity \in Severities /\ Covers(Floored(x), f)
<1> DEFINE g == Floored(x)
<1>1. /\ g.severity = Stronger(SeverityRank, x.severity, Floor(x.kind))
      /\ g.class = x.class /\ g.evidence = x.evidence /\ g.advisories = x.advisories
      /\ g.forbidden = x.forbidden /\ g.unlock = x.unlock
  BY FlooredFields
<1>2. g.severity \in Severities /\ SeverityRank[g.severity] >= SeverityRank[x.severity]
  BY <1>1, FloorTyped, StrongerSeverity
<1> HIDE DEF g
<1>3. SeverityRank[g.severity] >= SeverityRank[f.severity]
  BY <1>2, RanksTyped DEF Covers, Entries
<1> QED
  BY <1>1, <1>2, <1>3 DEF Covers, g

(* A conclusion is no weaker than any report it speaks for, cites all of   *)
(* their evidence and advisories, asks a person where one of them did, and *)
(* names every member of a bundle but for one whose problem another member *)
(* has too (_stricter, _combine, with_kind_severity).                      *)
THEOREM StrictestConcluded ==
  ASSUME AdvisoriesAreNoKinds
  PROVE  Spec => []StrictestOfAll
<1>1. ReadInv => StrictestOfAll
  <2> SUFFICES ASSUME ReadInv, Concluded, NEW f \in Reports, NEW g \in verdict.judged,
                      SpeaksFor(g, f)
               PROVE  /\ Covers(g, f)
                      /\ f.bundle # "none" =>
                           \E h \in Reports : Key(h) = Key(f) /\ h.subject \in g.members
    BY DEF StrictestOfAll, Covers
  <2>1. verdict.judged = Judged /\ f \in Entries
    BY ReportedTyped DEF Concluded, ReadInv
  <2>2. PICK x : /\ Shaped(x) /\ x.class \in Classes /\ x.severity \in Severities
                 /\ {h \in Judged : SpeaksFor(h, f)} = {Floored(x)}
                 /\ Covers(x, f)
                 /\ DrawnFrom(x, f, Reports)
    BY Spoken
  <2>3. g = Floored(x)
    BY <2>1, <2>2
  <2>4. Covers(g, f)
    BY <2>1, <2>2, <2>3, FlooredCovers
  <2>5. g.members = x.members
    BY <2>2, <2>3, FlooredFields
  <2> QED
    BY <2>2, <2>4, <2>5 DEF DrawnFrom
<1> QED
  BY <1>1, ReadAlways, PTL

(* A report that blocks by itself, whose like are all demonstrated and of  *)
(* its kind, is spoken for by a conclusion that blocks.                    *)
LEMMA BlocksStill ==
  ASSUME HigherBlocks, ReadInv, NEW f \in Reports, Blocks(f),
         \A g \in Reports : SpeaksFor(g, f) => Demonstrated(g) /\ g.kind = f.kind
  PROVE  \E g \in Judged : Blocks(g)
<1>1. PICK x : /\ Shaped(x) /\ x.class \in Classes /\ x.severity \in Severities
               /\ {h \in Judged : SpeaksFor(h, f)} = {Floored(x)}
               /\ Covers(x, f)
               /\ DrawnFrom(x, f, Reports)
  BY Spoken
<1>2. f \in Entries
  BY ReportedTyped
<1> DEFINE g == Floored(x)
           judged == Floored(g)
           floored == Floored(f)
<1>3. x.kind = f.kind
  BY <1>1 DEF DrawnFrom
<1>4. /\ Shaped(g) /\ g.severity = Stronger(SeverityRank, x.severity, Floor(f.kind))
      /\ g.class = x.class /\ g.kind = f.kind /\ g.evidence = x.evidence
      /\ g.forbidden = x.forbidden
  BY <1>1, <1>3, FlooredFields
<1>5. /\ g \in Judged
      /\ g.severity \in Severities
      /\ SeverityRank[g.severity] >= SeverityRank[x.severity]
      /\ SeverityRank[g.severity] >= SeverityRank[Floor(f.kind)]
  BY <1>1, <1>4, FloorTyped, StrongerSeverity
<1> HIDE DEF g
<1>6. /\ judged.severity = Stronger(SeverityRank, g.severity, Floor(f.kind))
      /\ judged.class = x.class /\ judged.forbidden = x.forbidden
  BY <1>4, FlooredFields
<1>7. judged.severity \in Severities /\ SeverityRank[judged.severity] >= SeverityRank[g.severity]
  BY <1>5, <1>6, FloorTyped, StrongerSeverity
<1>8. /\ floored.severity = Stronger(SeverityRank, f.severity, Floor(f.kind))
      /\ floored.class = f.class /\ floored.forbidden = f.forbidden
  BY <1>2, EntryShaped, FlooredFields
<1>9. floored.severity \in {f.severity, Floor(f.kind)} /\ floored.severity \in Severities
  BY <1>2, <1>8, FloorTyped, StrongerSeverity DEF Entries
<1>10. SeverityRank[judged.severity] >= SeverityRank[floored.severity]
  <2>1. SeverityRank[x.severity] >= SeverityRank[f.severity]
    BY <1>1 DEF Covers
  <2>2. /\ SeverityRank[x.severity] \in Nat /\ SeverityRank[f.severity] \in Nat
        /\ SeverityRank[g.severity] \in Nat /\ SeverityRank[judged.severity] \in Nat
        /\ SeverityRank[Floor(f.kind)] \in Nat
    BY <1>1, <1>2, <1>5, <1>7, FloorTyped, RanksTyped DEF Entries
  <2> HIDE DEF judged, floored
  <2>3. CASE floored.severity = f.severity
    BY <1>5, <1>7, <2>1, <2>2, <2>3
  <2>4. CASE floored.severity = Floor(f.kind)
    BY <1>5, <1>7, <2>2, <2>4
  <2> QED
    BY <1>9, <2>3, <2>4
<1> HIDE DEF judged, floored
<1>11. Permitted(judged)
  <2>1. Permitted(floored)
    BY DEF Blocks, floored
  <2>2. CASE floored.forbidden /\ ForbiddenBlocks
    BY <1>1, <1>6, <1>8, <2>2 DEF Permitted, Covers
  <2>3. CASE <<floored.class, floored.severity>> \in Blocking
    <3>1. f.class \in Classes
      BY <1>2 DEF Entries
    <3>2. /\ <<floored.class, floored.severity>> \in Classes \X Severities
          /\ <<judged.class, judged.severity>> \in Classes \X Severities
      BY <1>1, <1>6, <1>7, <1>8, <1>9, <3>1
    <3>3. ClassRank[judged.class] >= ClassRank[floored.class]
      BY <1>1, <1>6, <1>8 DEF Covers
    <3>4. <<judged.class, judged.severity>> \in Blocking
      BY <1>10, <2>3, <3>2, <3>3 DEF HigherBlocks
    <3> QED
      BY <3>4 DEF Permitted
  <2> QED
    BY <2>1, <2>2, <2>3 DEF Permitted
<1>12. Demonstrated(g)
  <2>1. f.evidence # {} /\ f.evidence \subseteq x.evidence
    BY <1>1 DEF Blocks, Demonstrated, Covers
  <2>2. \A e \in x.evidence : e \in Sound
    BY <1>1 DEF DrawnFrom, Demonstrated
  <2> QED
    BY <1>4, <2>1, <2>2 DEF Demonstrated
<1> QED
  BY <1>5, <1>11, <1>12 DEF Blocks, judged

(* A run passes only when every required check delivered a result that was *)
(* read, and no report would have blocked by itself - unless another       *)
(* report of the same problem is not demonstrated, or its bundle is        *)
(* concluded under another kind.                                           *)
THEOREM PassesAreEarned ==
  ASSUME AdvisoriesAreNoKinds, HigherBlocks
  PROVE  Spec => []PassIsEarned
<1>1. EndedInv /\ ReadInv => PassIsEarned
  <2> SUFFICES ASSUME EndedInv, ReadInv, verdict.result = "pass"
               PROVE  /\ \A t \in planned \cap Required : ~ Failed(ended[t]) /\ tries[t] < 2
                      /\ \A f \in Reports : Blocks(f) =>
                           \E g \in Reports :
                             SpeaksFor(g, f) /\ (~ Demonstrated(g) \/ g.kind # f.kind)
    BY DEF PassIsEarned
  <2>1. verdict # Undecided
    BY DEF Undecided
  <2>2. Decided(Judged) = "pass" /\ \A t \in planned : t \in DOMAIN ended
    BY <2>1 DEF ReadInv
  <2>3. /\ ~ \E g \in Judged : Blocks(g)
        /\ \A t \in planned \cap Required : ~ Failed(ended[t])
    BY <2>2 DEF Decided
  <2>4. ASSUME NEW t \in planned \cap Required
        PROVE  tries[t] < 2
    <3>1. tries[t] \in 0..2
      BY DEF ReadInv
    <3>2. tries[t] # 2
      BY <2>3, RefusedAssumption DEF ReadInv, Failed
    <3> QED
      BY <3>1, <3>2
  <2>5. ASSUME NEW f \in Reports, Blocks(f)
        PROVE  \E g \in Reports : SpeaksFor(g, f) /\ (~ Demonstrated(g) \/ g.kind # f.kind)
    BY <2>3, <2>5, BlocksStill
  <2> QED
    BY <2>3, <2>4, <2>5
<1> QED
  BY <1>1, ReadAlways, EndedAlways, PTL
=============================================================================
