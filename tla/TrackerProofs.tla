--------------------------- MODULE TrackerProofs ----------------------------
(***************************************************************************)
(* What holds of the tracker for every set of keys, checks and runs.       *)
(***************************************************************************)
EXTENDS TrackerInvariants, FiniteSetTheorems, WellFoundedInduction, SequenceTheorems, TLAPS

-----------------------------------------------------------------------------
(* The newest of a set of issue numbers is one of them, or 0: `max` over   *)
(* what the platform listed.                                               *)
LEMMA MaxIsMember ==
  ASSUME NEW N \in Nat, NEW S \in SUBSET (0..N), S # {}
  PROVE  Max(S) \in S /\ \A y \in S : Max(S) >= y
<1> DEFINE T == {n \in Nat : N - n \in S}
<1>1. T \subseteq Nat /\ T # {}
  <2>1. PICK x \in S : TRUE
    OBVIOUS
  <2>2. N - x \in Nat /\ N - (N - x) = x
    BY <2>1
  <2> QED
    BY <2>1, <2>2
<1>2. PICK t \in T : \A u \in T : ~ (<<u, t>> \in OpToRel(<, Nat))
  BY <1>1, WFMin, NatLessThanWellFounded
<1>3. PICK m \in S : t = N - m
  <2>1. t \in Nat /\ N - t \in S
    BY <1>2
  <2>2. t = N - (N - t)
    BY <2>1
  <2> QED
    BY <2>1, <2>2
<1>4. \A y \in S : m >= y
  <2> SUFFICES ASSUME NEW y \in S, m < y PROVE FALSE
    OBVIOUS
  <2>1. N - y \in T /\ N - y \in Nat /\ t \in Nat /\ N - y < t
    BY <1>1, <1>3
  <2>2. <<N - y, t>> \in OpToRel(<, Nat)
    BY <2>1 DEF OpToRel
  <2> QED
    BY <2>1, <2>2, <1>2
<1> QED
  BY <1>3, <1>4 DEF Max

LEMMA NewestIsNumber ==
  ASSUME NEW S \in SUBSET (1..MaxIssues)
  PROVE  /\ Newest(S) \in 0..MaxIssues
         /\ Newest(S) # 0 => Newest(S) \in S
         /\ S # {} => Newest(S) \in S
<1>1. MaxIssues \in Nat
  BY TrackerAssumption
<1>2. S \cup {0} \in SUBSET (0..MaxIssues) /\ S \cup {0} # {}
  BY <1>1
<1>3. Max(S \cup {0}) \in S \cup {0} /\ \A y \in S : Max(S \cup {0}) >= y
  BY <1>1, <1>2, MaxIsMember
<1>4. 0 \notin S /\ \A y \in S : ~ (0 >= y)
  BY <1>1
<1> QED
  BY <1>2, <1>3, <1>4 DEF Newest

-----------------------------------------------------------------------------
(* Writing to one issue leaves a list of issues as long as it was.         *)
LEMMA IssueWrite ==
  ASSUME NEW list \in Seq(Issues), NEW n, NEW e, n \in 1..Len(list) => e \in Issues
  PROVE  /\ [list EXCEPT ![n] = e] \in Seq(Issues)
         /\ Len([list EXCEPT ![n] = e]) = Len(list)
<1>1. CASE n \in 1..Len(list)
  BY <1>1, ExceptSeq
<1>2. CASE n \notin 1..Len(list)
  <2>1. [list EXCEPT ![n] = e] = list
    BY <1>2
  <2> QED
    BY <2>1
<1> QED
  BY <1>1, <1>2

LEMMA IssueWrites ==
  ASSUME NEW list \in Seq(Issues), NEW n, NEW b \in BOOLEAN
  PROVE  /\ [list EXCEPT ![n].stamp = b] \in Seq(Issues)
         /\ Len([list EXCEPT ![n].stamp = b]) = Len(list)
         /\ [list EXCEPT ![n].open = b] \in Seq(Issues)
         /\ Len([list EXCEPT ![n].open = b]) = Len(list)
         /\ [list EXCEPT ![n].open = TRUE, ![n].stamp = b] \in Seq(Issues)
         /\ Len([list EXCEPT ![n].open = TRUE, ![n].stamp = b]) = Len(list)
<1>1. n \in 1..Len(list) => list[n] \in Issues
  OBVIOUS
<1>2. ASSUME NEW issue \in Issues
      PROVE  /\ [issue EXCEPT !.stamp = b] \in Issues
             /\ [issue EXCEPT !.open = b] \in Issues
             /\ [issue EXCEPT !.open = TRUE, !.stamp = b] \in Issues
  BY DEF Issues
<1>3. /\ [list EXCEPT ![n] = [list[n] EXCEPT !.stamp = b]] \in Seq(Issues)
      /\ Len([list EXCEPT ![n] = [list[n] EXCEPT !.stamp = b]]) = Len(list)
  BY <1>1, <1>2, IssueWrite
<1>4. /\ [list EXCEPT ![n] = [list[n] EXCEPT !.open = b]] \in Seq(Issues)
      /\ Len([list EXCEPT ![n] = [list[n] EXCEPT !.open = b]]) = Len(list)
  BY <1>1, <1>2, IssueWrite
<1>5. /\ [list EXCEPT ![n] = [list[n] EXCEPT !.open = TRUE, !.stamp = b]] \in Seq(Issues)
      /\ Len([list EXCEPT ![n] = [list[n] EXCEPT !.open = TRUE, !.stamp = b]]) = Len(list)
  BY <1>1, <1>2, IssueWrite
<1>6. /\ [list EXCEPT ![n].stamp = b] = [list EXCEPT ![n] = [list[n] EXCEPT !.stamp = b]]
      /\ [list EXCEPT ![n].open = b] = [list EXCEPT ![n] = [list[n] EXCEPT !.open = b]]
  OBVIOUS
<1>7. [list EXCEPT ![n].open = TRUE, ![n].stamp = b]
        = [list EXCEPT ![n] = [list[n] EXCEPT !.open = TRUE, !.stamp = b]]
  OBVIOUS
<1> QED
  BY <1>3, <1>4, <1>5, <1>6, <1>7

LEMMA IssueRename ==
  ASSUME NEW list \in Seq(Issues), NEW n, NEW b \in BOOLEAN, NEW k \in Keys
  PROVE  /\ [list EXCEPT ![n].key = k, ![n].stamp = b] \in Seq(Issues)
         /\ Len([list EXCEPT ![n].key = k, ![n].stamp = b]) = Len(list)
<1>1. n \in 1..Len(list) => list[n] \in Issues
  OBVIOUS
<1>2. \A issue \in Issues : [issue EXCEPT !.key = k, !.stamp = b] \in Issues
  BY DEF Issues
<1>3. /\ [list EXCEPT ![n] = [list[n] EXCEPT !.key = k, !.stamp = b]] \in Seq(Issues)
      /\ Len([list EXCEPT ![n] = [list[n] EXCEPT !.key = k, !.stamp = b]]) = Len(list)
  BY <1>1, <1>2, IssueWrite
<1>4. [list EXCEPT ![n].key = k, ![n].stamp = b]
        = [list EXCEPT ![n] = [list[n] EXCEPT !.key = k, !.stamp = b]]
  OBVIOUS
<1> QED
  BY <1>3, <1>4

LEMMA ListingTypes ==
  ASSUME TypeOK
  PROVE  /\ OpenTracked \in [Keys -> 0..MaxIssues]
         /\ \A needed : ClosedByKey(needed) \in [Keys -> 0..MaxIssues]
<1>1. MaxIssues \in Nat
  BY TrackerAssumption
<1>2. DOMAIN issues \subseteq 1..MaxIssues
  BY <1>1 DEF TypeOK
<1>3. \A k \in Keys : /\ Newest(OpenOf(k)) \in 0..MaxIssues
                      /\ Newest(ClosedOf(k)) \in 0..MaxIssues
  BY <1>2, NewestIsNumber DEF OpenOf, ClosedOf
<1> QED
  BY <1>1, <1>3 DEF OpenTracked, ClosedByKey

(* The streaks a run weighs stay within their bound.                       *)
LEMMA WeighType ==
  ASSUME NEW streaks \in [FailureKeys -> 0..StreakCap], NEW outcomes
  PROVE  /\ Weigh(streaks, outcomes) \in [FailureKeys -> 0..StreakCap]
         /\ Escalations(streaks, outcomes) \subseteq FailureKeys
<1>1. StreakCap \in Nat
  BY EscalateAssumption
<1>2. \A f \in FailureKeys : Capped(streaks[f] + 1) \in 0..StreakCap
  BY <1>1 DEF Capped
<1> QED
  BY <1>1, <1>2 DEF Weigh, Escalations, Failing

-----------------------------------------------------------------------------
LEMMA EmptyTypes ==
  /\ NoMemory \in Documents
  /\ NoStreak \in [FindingKeys -> 0..Threshold]
  /\ NoView \in View
  /\ NoBook \in Book
<1>1. Threshold \in Nat /\ StreakCap \in Nat /\ MaxIssues \in Nat
  BY ThresholdAssumption, EscalateAssumption, TrackerAssumption
<1>2. /\ NoStreak \in [FindingKeys -> 0..Threshold]
      /\ NoFailure \in [FailureKeys -> 0..StreakCap]
      /\ NoNumbers \in [Keys -> 0..MaxIssues]
  BY <1>1 DEF NoStreak, NoFailure, NoNumbers
<1>3. NoMemory \in Documents
  BY <1>2 DEF NoMemory, Documents
<1>4. NoView \in View
  BY <1>2, <1>3 DEF NoView, View
<1>5. NoBook \in Book
  BY <1>2 DEF NoBook, Book
<1> QED
  BY <1>2, <1>3, <1>4, <1>5

LEMMA TypeInit == Init => TypeOK
BY EmptyTypes, TrackerAssumption DEF Init, TypeOK, Phases

-----------------------------------------------------------------------------
(* Each kind of step keeps every variable typed.                           *)

LEMMA LeaveType ==
  ASSUME TypeOK, NEW r \in Runs, Leave(r)
  PROVE  /\ phase' \in [Runs -> Phases]
         /\ view' \in [Runs -> View]
         /\ book' \in [Runs -> Book]
BY EmptyTypes DEF TypeOK, Leave, Phases

LEMMA BeginType ==
  ASSUME TypeOK, NEW r \in Runs, Start(r)
  PROVE  TypeOK'
<1>1. PICK kind \in Kinds, asked \in SUBSET Keys, unlock \in BOOLEAN, read \in BOOLEAN :
        Begin(r, kind, asked, unlock, read)
  BY DEF Start
<1> DEFINE existing == IF read THEN OpenTracked ELSE NoNumbers
           unlocked == IF unlock THEN asked ELSE {}
           started == [NoView EXCEPT !.kind = kind, !.asked = asked, !.unlocked = unlocked,
                                     !.read = read, !.existing = existing,
                                     !.stamped = StampedIn(existing),
                                     !.approvals = (IF read THEN Granted ELSE {}) \cup unlocked]
<1>2. existing \in [Keys -> 0..MaxIssues]
  BY ListingTypes, TrackerAssumption DEF NoNumbers
<1>3. /\ StampedIn(existing) \subseteq Keys
      /\ Granted \subseteq Keys
      /\ unlocked \subseteq Keys
  BY DEF StampedIn, Granted
<1>4. started \in View
  BY EmptyTypes, <1>2, <1>3 DEF View
<1>5. view' = [view EXCEPT ![r] = started]
  BY <1>1 DEF Begin
<1>6. phase' = [phase EXCEPT ![r] = "analysing"]
  BY <1>1 DEF Begin
<1> QED
  BY <1>1, <1>4, <1>5, <1>6 DEF TypeOK, Begin, Phases

LEMMA ConcludeType ==
  ASSUME TypeOK, NEW r \in Runs, Analyse(r)
  PROVE  TypeOK'
<1>a. PICK ran \in Performed(r) :
        \E outcomes \in [ran -> Outcome], found \in SUBSET FindingKeys :
          \E short \in SUBSET (PackageKeys \ found), recalled \in BOOLEAN :
            Conclude(r, outcomes, found, short, recalled)
  BY DEF Analyse
<1>b. PICK outcomes \in [ran -> Outcome], found \in SUBSET FindingKeys :
        \E short \in SUBSET (PackageKeys \ found), recalled \in BOOLEAN :
          Conclude(r, outcomes, found, short, recalled)
  BY <1>a
<1>1. PICK short \in SUBSET (PackageKeys \ found), recalled \in BOOLEAN :
        Conclude(r, outcomes, found, short, recalled)
  BY <1>b
<1> DEFINE known == IF recalled THEN memory ELSE NoMemory
           counts == view[r].kind = "scheduled"
           speaks == {k \in Keys : Speaks(k, outcomes, short, known.bundles)}
           looked == {b \in BundleKeys : ~ Unproven(b, outcomes, MembersOf[b])}
           failing == IF counts THEN Weigh(known.failing, outcomes) ELSE known.failing
           escalated == IF counts THEN Escalations(known.failing, outcomes) ELSE {}
           concluded == [view[r] EXCEPT !.found = found, !.recalled = recalled,
                           !.known = known, !.speaks = speaks, !.looked = looked,
                           !.failing = failing, !.escalated = escalated]
<1>2. known \in Documents
  BY EmptyTypes DEF TypeOK
<1>3. known.failing \in [FailureKeys -> 0..StreakCap]
  BY <1>2 DEF Documents
<1>4. failing \in [FailureKeys -> 0..StreakCap] /\ escalated \subseteq FailureKeys
  BY <1>3, WeighType
<1>5. view[r] \in View
  BY DEF TypeOK
<1>6. concluded \in View
  <2>1. speaks \in SUBSET Keys /\ looked \in SUBSET BundleKeys /\ found \in SUBSET FindingKeys
    OBVIOUS
  <2> HIDE DEF known, speaks, looked, failing, escalated
  <2> QED
    BY <1>2, <1>4, <1>5, <2>1 DEF View
<1>7. view' = [view EXCEPT ![r] = concluded]
  BY <1>1 DEF Conclude
<1>8. view' \in [Runs -> View]
  <2> HIDE DEF concluded
  <2> QED
    BY <1>6, <1>7 DEF TypeOK
<1>9. seen' \in [FindingKeys -> 0..Threshold]
  <2>1. \A n \in 0..Threshold : n < Threshold => n + 1 \in 0..Threshold
    BY ThresholdAssumption
  <2>2. seen' = [k \in FindingKeys |->
           IF k \in speaks \ found /\ seen[k] < Threshold THEN seen[k] + 1
           ELSE seen[k]]
    BY <1>1 DEF Conclude
  <2> HIDE DEF speaks
  <2> QED
    BY <2>1, <2>2, ThresholdAssumption DEF TypeOK
<1>10. /\ phase' = [phase EXCEPT ![r] = "concluded"]
       /\ UNCHANGED <<issues, memory, book>>
  BY <1>1 DEF Conclude
<1> QED
  BY <1>8, <1>9, <1>10 DEF TypeOK, Phases

LEMMA StartTrackingType ==
  ASSUME TypeOK, NEW r \in Runs, StartTracking(r)
  PROVE  TypeOK'
<1> DEFINE existing == IF view[r].read THEN view[r].existing ELSE OpenTracked
           stamped == IF view[r].read THEN view[r].stamped ELSE StampedIn(OpenTracked)
           tracked == {k \in Keys : existing[k] # 0}
           approved == {k \in (view[r].approvals \cap tracked) \ Wanted(r) :
                          k \notin stamped \/ k \in view[r].unlocked}
           started == [view[r] EXCEPT !.existing = existing, !.stamped = stamped]
           opened == [NoBook EXCEPT !.todo = Wanted(r), !.left = tracked \ Wanted(r),
                                    !.closed = ClosedByKey(Wanted(r) \ tracked)]
<1>1. view[r] \in View
  BY DEF TypeOK
<1>2. existing \in [Keys -> 0..MaxIssues] /\ stamped \in SUBSET Keys
  BY <1>1, ListingTypes DEF View, StampedIn
<1>3. started \in View
  BY <1>1, <1>2 DEF View
<1>4. Wanted(r) \in SUBSET Keys
  BY <1>1 DEF View, Wanted, Keys
<1>5. opened \in Book
  <2>1. ClosedByKey(Wanted(r) \ tracked) \in [Keys -> 0..MaxIssues]
    BY ListingTypes
  <2> QED
    BY EmptyTypes, <1>4, <2>1 DEF Book
<1>6. /\ view' = [view EXCEPT ![r] = started]
      /\ book' = [book EXCEPT ![r] = opened]
      /\ phase' = [phase EXCEPT ![r] = "tracking"]
      /\ UNCHANGED <<memory, seen>>
  BY DEF StartTracking
<1>7. issues' = [n \in DOMAIN issues |->
             IF \E k \in approved : existing[k] = n
             THEN [issues[n] EXCEPT !.stamp = TRUE] ELSE issues[n]]
  BY DEF StartTracking
<1>8. issues' \in Seq(Issues) /\ Len(issues') = Len(issues)
  <2>1. issues \in Seq(Issues) /\ Len(issues) \in Nat /\ DOMAIN issues = 1..Len(issues)
    BY DEF TypeOK
  <2>2. \A n \in DOMAIN issues :
          issues[n] \in Issues /\ [issues[n] EXCEPT !.stamp = TRUE] \in Issues
    <3>1. \A n \in DOMAIN issues : issues[n] \in Issues
      BY <2>1
    <3>2. \A issue \in Issues : [issue EXCEPT !.stamp = TRUE] \in Issues
      BY DEF Issues
    <3> QED
      BY <3>1, <3>2
  <2>3. issues' \in [1..Len(issues) -> Issues]
    <3> HIDE DEF approved
    <3> QED
      BY <1>7, <2>1, <2>2
  <2> QED
    BY <2>1, <2>3
<1>9. view' \in [Runs -> View] /\ book' \in [Runs -> Book]
  <2> HIDE DEF started, opened
  <2> QED
    BY <1>3, <1>5, <1>6 DEF TypeOK
<1> QED
  BY <1>6, <1>8, <1>9 DEF TypeOK, Phases

LEMMA TrackedType ==
  ASSUME TypeOK, NEW r \in Runs, NEW k \in Keys, NEW n \in 0..MaxIssues
  PROVE  Tracked(r, k, n) \in Book
<1>1. book[r] \in Book
  BY DEF TypeOK
<1>2. ReportedBundles(book[r].bundles, k) \in SUBSET BundleKeys
  BY <1>1 DEF Book, ReportedBundles
<1>3. [book[r].number EXCEPT ![k] = n] \in [Keys -> 0..MaxIssues]
  BY <1>1 DEF Book
<1> QED
  BY <1>1, <1>2, <1>3 DEF Tracked, Book

LEMMA ReadNumbers ==
  ASSUME TypeOK, NEW r \in Runs, NEW k \in Keys
  PROVE  /\ view[r].existing[k] \in 0..MaxIssues
         /\ book[r].closed[k] \in 0..MaxIssues
         /\ Stamp(r, k) \in BOOLEAN
BY DEF TypeOK, View, Book, Stamp

LEMMA UpdateType ==
  ASSUME TypeOK, NEW r \in Runs, NEW k \in Keys, NEW changed \in BOOLEAN,
         Update(r, k, changed)
  PROVE  TypeOK'
<1> DEFINE n == view[r].existing[k]
<1>1. Tracked(r, k, n) \in Book
  BY ReadNumbers, TrackedType
<1>2. book' \in [Runs -> Book]
  BY <1>1 DEF Update, TypeOK
<1>3. \/ issues' = [issues EXCEPT ![n].stamp = Stamp(r, k)]
      \/ issues' = issues
  BY DEF Update
<1>4. issues \in Seq(Issues) /\ Stamp(r, k) \in BOOLEAN
  BY ReadNumbers DEF TypeOK
<1>5. /\ [issues EXCEPT ![n].stamp = Stamp(r, k)] \in Seq(Issues)
      /\ Len([issues EXCEPT ![n].stamp = Stamp(r, k)]) = Len(issues)
  BY <1>4, IssueWrites
<1>6. issues' \in Seq(Issues) /\ Len(issues') = Len(issues)
  <2> HIDE DEF n
  <2> QED
    BY <1>3, <1>4, <1>5
<1> QED
  BY <1>2, <1>6 DEF Update, TypeOK

LEMMA MigrateType ==
  ASSUME TypeOK, NEW r \in Runs, NEW k \in Keys, MigrateTwin(r, k)
  PROVE  TypeOK'
<1>1. PICK old \in Keys :
        LET n == view[r].existing[old]
        IN /\ issues' = [issues EXCEPT ![n].key = k, ![n].stamp = Stamp(r, k)]
           /\ book' = [book EXCEPT ![r] =
                [Tracked(r, k, n) EXCEPT !.absorbed = @ \cup {old}, !.left = @ \ {old}]]
  BY DEF MigrateTwin
<1> DEFINE n == view[r].existing[old]
<1>2. Tracked(r, k, n) \in Book
  BY ReadNumbers, TrackedType
<1>3. [Tracked(r, k, n) EXCEPT !.absorbed = @ \cup {old}, !.left = @ \ {old}] \in Book
  BY <1>2 DEF Book
<1>4. book' \in [Runs -> Book]
  BY <1>1, <1>3 DEF TypeOK
<1>5. issues \in Seq(Issues) /\ Stamp(r, k) \in BOOLEAN
  BY ReadNumbers DEF TypeOK
<1>6. /\ [issues EXCEPT ![n].key = k, ![n].stamp = Stamp(r, k)] \in Seq(Issues)
      /\ Len([issues EXCEPT ![n].key = k, ![n].stamp = Stamp(r, k)]) = Len(issues)
  BY <1>5, IssueRename
<1>7. issues' \in Seq(Issues) /\ Len(issues') = Len(issues)
  <2>1. issues' = [issues EXCEPT ![n].key = k, ![n].stamp = Stamp(r, k)]
    BY <1>1
  <2> HIDE DEF n
  <2> QED
    BY <1>6, <2>1
<1> QED
  BY <1>4, <1>7 DEF MigrateTwin, TypeOK

LEMMA ReopenType ==
  ASSUME TypeOK, NEW r \in Runs, NEW k \in Keys, Reopen(r, k) \/ ReopenCut(r, k)
  PROVE  TypeOK'
<1> DEFINE n == book[r].closed[k]
<1>1. CASE Reopen(r, k)
  <2>1. Tracked(r, k, n) \in Book
    BY ReadNumbers, TrackedType
  <2>2. book' \in [Runs -> Book]
    BY <1>1, <2>1 DEF Reopen, TypeOK
  <2>3. issues \in Seq(Issues) /\ Stamp(r, k) \in BOOLEAN
    BY ReadNumbers DEF TypeOK
  <2>4. issues' = [issues EXCEPT ![n].open = TRUE, ![n].stamp = Stamp(r, k)]
    BY <1>1 DEF Reopen
  <2>5. issues' \in Seq(Issues) /\ Len(issues') = Len(issues)
    BY <2>3, <2>4, IssueWrites
  <2> QED
    BY <1>1, <2>2, <2>5 DEF Reopen, TypeOK
<1>2. CASE ReopenCut(r, k)
  <2>1. issues' \in Seq(Issues) /\ Len(issues') = Len(issues)
    BY <1>2, IssueWrites DEF ReopenCut, TypeOK
  <2> QED
    BY <1>2, <2>1 DEF ReopenCut, TypeOK, Phases
<1> QED
  BY <1>1, <1>2

LEMMA DeferType ==
  ASSUME TypeOK, NEW r \in Runs, NEW k \in Keys, Defer(r, k)
  PROVE  TypeOK'
<1>1. book[r] \in Book
  BY DEF TypeOK
<1>2. [book[r] EXCEPT !.todo = @ \ {k}, !.deferred = @ \cup {k}] \in Book
  BY <1>1 DEF Book
<1>3. book' = [book EXCEPT ![r] = [book[r] EXCEPT !.todo = @ \ {k}, !.deferred = @ \cup {k}]]
  BY DEF Defer
<1>4. book' \in [Runs -> Book]
  BY <1>2, <1>3 DEF TypeOK
<1> QED
  BY <1>4 DEF Defer, TypeOK

LEMMA RaiseType ==
  ASSUME TypeOK, NEW r \in Runs, NEW k \in Keys, Raise(r, k)
  PROVE  TypeOK'
<1>1. MaxIssues \in Nat /\ Len(issues) \in Nat /\ Len(issues) + 1 \in 0..MaxIssues
  BY TrackerAssumption DEF Raise, TypeOK
<1>2. Tracked(r, k, Len(issues) + 1) \in Book
  BY <1>1, TrackedType
<1>3. ASSUME NEW b \in Book
      PROVE  [b EXCEPT !.raised = @ + 1, !.subjects = @ \cup {SubjectOf[k]}] \in Book
  <2>1. b.subjects \cup {SubjectOf[k]} \in SUBSET {SubjectOf[j] : j \in Keys}
    BY DEF Book
  <2>2. b.raised + 1 \in Nat
    BY DEF Book
  <2> QED
    BY <2>1, <2>2 DEF Book
<1>4. book' \in [Runs -> Book]
  BY <1>2, <1>3 DEF Raise, TypeOK
<1>5. [key |-> k, open |-> TRUE, stamp |-> Stamp(r, k)] \in Issues
  BY ReadNumbers DEF Issues
<1>6. issues' \in Seq(Issues) /\ Len(issues') = Len(issues) + 1
  BY <1>5 DEF Raise, TypeOK
<1> QED
  BY <1>1, <1>4, <1>6 DEF Raise, TypeOK

(* What closing an issue as replaced leaves of a run's view.               *)
LEMMA ReplaceView ==
  ASSUME TypeOK, NEW r \in Runs, NEW old \in Keys, CloseSuperseded(r, old)
  PROVE  /\ view' \in [Runs -> View]
         /\ \A s \in Runs : s # r => view'[s] = view[s]
         /\ view'[r].existing = [view[r].existing EXCEPT ![old] = 0]
         /\ view'[r].kind = view[r].kind /\ view'[r].asked = view[r].asked
         /\ view'[r].unlocked = view[r].unlocked /\ view'[r].read = view[r].read
         /\ view'[r].stamped = view[r].stamped /\ view'[r].approvals = view[r].approvals
         /\ view'[r].found = view[r].found /\ view'[r].escalated = view[r].escalated
         /\ view'[r].speaks = view[r].speaks /\ view'[r].looked = view[r].looked
         /\ view'[r].recalled = view[r].recalled /\ view'[r].known = view[r].known
         /\ view'[r].failing = view[r].failing
<1>1. PICK v \in View : v = view[r]
  BY DEF TypeOK
<1>2. PICK e \in [Keys -> 0..MaxIssues] : e = [v.existing EXCEPT ![old] = 0]
  <2>1. v.existing \in [Keys -> 0..MaxIssues] /\ 0 \in 0..MaxIssues
    BY <1>1, TrackerAssumption DEF View
  <2>2. [v.existing EXCEPT ![old] = 0] \in [Keys -> 0..MaxIssues]
    BY <2>1
  <2> QED
    BY <2>2
<1>3. view' = [view EXCEPT ![r] = [v EXCEPT !.existing = e]]
  BY <1>1, <1>2 DEF CloseSuperseded
<1>4. PICK w : w = [v EXCEPT !.existing = e]
  OBVIOUS
<1>5. /\ w \in View
      /\ w.existing = e
      /\ w.kind = v.kind /\ w.asked = v.asked
      /\ w.unlocked = v.unlocked /\ w.read = v.read
      /\ w.stamped = v.stamped /\ w.approvals = v.approvals
      /\ w.found = v.found /\ w.escalated = v.escalated
      /\ w.speaks = v.speaks /\ w.looked = v.looked
      /\ w.recalled = v.recalled /\ w.known = v.known
      /\ w.failing = v.failing
  BY <1>1, <1>2, <1>4 DEF View
<1>6. view \in [Runs -> View] /\ view' = [view EXCEPT ![r] = w]
  BY <1>3, <1>4 DEF TypeOK
<1> QED
  BY <1>1, <1>2, <1>5, <1>6

LEMMA SupersededType ==
  ASSUME TypeOK, NEW r \in Runs, NEW k \in Keys, CloseSuperseded(r, k)
  PROVE  TypeOK'
<1> DEFINE n == view[r].existing[k]
<1>1. /\ issues' = [issues EXCEPT ![n].open = FALSE]
      /\ book' = [book EXCEPT ![r].left = @ \ {k}]
      /\ UNCHANGED <<memory, phase, seen>>
  BY DEF CloseSuperseded
<1>2. issues' \in Seq(Issues) /\ Len(issues') = Len(issues)
  BY <1>1, IssueWrites DEF TypeOK
<1>3. [book[r] EXCEPT !.left = @ \ {k}] \in Book
  BY DEF TypeOK, Book
<1>4. book' \in [Runs -> Book]
  BY <1>1, <1>3 DEF TypeOK
<1>5. view' \in [Runs -> View]
  BY ReplaceView
<1> QED
  BY <1>1, <1>2, <1>4, <1>5 DEF TypeOK

LEMMA ClosedType ==
  ASSUME TypeOK, NEW r \in Runs, NEW k \in Keys, CloseGone(r, k)
  PROVE  TypeOK'
<1> DEFINE n == view[r].existing[k]
<1>1. /\ issues' = [issues EXCEPT ![n].open = FALSE]
      /\ book' = [book EXCEPT ![r].left = @ \ {k}]
      /\ UNCHANGED <<memory, phase, view, seen>>
  BY DEF CloseGone
<1>2. issues' \in Seq(Issues) /\ Len(issues') = Len(issues)
  BY <1>1, IssueWrites DEF TypeOK
<1>3. [book[r] EXCEPT !.left = @ \ {k}] \in Book
  BY DEF TypeOK, Book
<1>4. book' \in [Runs -> Book]
  BY <1>1, <1>3 DEF TypeOK
<1> QED
  BY <1>1, <1>2, <1>4 DEF TypeOK

(* A streak is carried only while it is below the threshold.               *)
LEMMA CarriedType ==
  ASSUME NEW kept \in [FindingKeys -> 0..Threshold], NEW k,
         NEW absent \in [FindingKeys -> 0..Threshold], NEW spoken, NEW asked,
         ~ (k \in spoken /\ Closes(k, asked, absent))
  PROVE  Carried(kept, k, absent, k \in spoken) \in [FindingKeys -> 0..Threshold]
<1>1. k \in FindingKeys /\ k \in spoken => absent[k] + 1 \in 0..Threshold
  BY ThresholdAssumption DEF Closes, EnoughRuns
<1> QED
  BY <1>1 DEF Carried

LEMMA KeepOpenType ==
  ASSUME TypeOK, NEW r \in Runs, NEW k \in Keys, KeepOpen(r, k)
  PROVE  TypeOK'
<1> DEFINE speaks == k \in view[r].speaks
           kept == Carried(book[r].kept, k, view[r].known.absent, speaks)
           bundles == CarriedBundles(book[r].bundles, k, view[r].known.bundles)
<1>1. /\ book[r] \in Book
      /\ view[r].known \in Documents
  BY DEF TypeOK, View
<1>2. kept \in [FindingKeys -> 0..Threshold]
  <2>1. ~ (speaks /\ Closes(k, view[r].asked, view[r].known.absent))
    BY DEF KeepOpen, MayClose
  <2>2. /\ book[r].kept \in [FindingKeys -> 0..Threshold]
        /\ view[r].known.absent \in [FindingKeys -> 0..Threshold]
    BY <1>1 DEF Book, Documents
  <2> QED
    BY <2>1, <2>2, CarriedType
<1>3. bundles \in SUBSET BundleKeys
  BY <1>1 DEF Book, Documents, CarriedBundles
<1>4. [book[r] EXCEPT !.left = @ \ {k}, !.kept = kept, !.bundles = bundles] \in Book
  <2> HIDE DEF kept, bundles
  <2> QED
    BY <1>1, <1>2, <1>3 DEF Book
<1>5. book' = [book EXCEPT ![r] =
         [book[r] EXCEPT !.left = @ \ {k}, !.kept = kept, !.bundles = bundles]]
  BY DEF KeepOpen
<1>6. book' \in [Runs -> Book]
  <2> HIDE DEF kept, bundles
  <2> QED
    BY <1>4, <1>5 DEF TypeOK
<1> QED
  BY <1>6 DEF KeepOpen, TypeOK

LEMMA RememberType ==
  ASSUME TypeOK, NEW r \in Runs, Remember(r)
  PROVE  TypeOK'
<1>1. view[r] \in View /\ book[r] \in Book
  BY DEF TypeOK
<1>2. Document(r) \in Documents
  BY <1>1 DEF View, Book, Document, Documents
<1>3. memory' \in Documents
  BY <1>2 DEF Remember, TypeOK
<1>4. seen' \in [FindingKeys -> 0..Threshold]
  BY ThresholdAssumption DEF Remember, TypeOK
<1>5. Leave(r)
  BY DEF Remember
<1> QED
  BY <1>3, <1>4, <1>5, LeaveType DEF Remember, TypeOK

LEMMA WrongType ==
  ASSUME TypeOK, NEW r \in Runs, GoesWrong(r)
  PROVE  TypeOK'
<1>1. CASE \E k \in Keys : ReopenCut(r, k)
  BY <1>1, ReopenType
<1>2. CASE Forget(r) \/ IdentityFails(r) \/ Crash(r)
  <2>1. Leave(r) /\ UNCHANGED <<issues, memory, seen>>
    BY <1>2 DEF Forget, IdentityFails, Crash
  <2> QED
    BY <2>1, LeaveType DEF TypeOK
<1>3. CASE PlatformFails(r)
  BY <1>3 DEF PlatformFails, TypeOK, Phases
<1> QED
  BY <1>1, <1>2, <1>3 DEF GoesWrong

LEMMA PersonsType ==
  ASSUME TypeOK, Persons
  PROVE  TypeOK'
<1>1. PICK n \in DOMAIN issues : PersonCloses(n) \/ PersonReopens(n)
  BY DEF Persons
<1>2. PICK b \in BOOLEAN : issues' = [issues EXCEPT ![n].open = b]
  BY <1>1 DEF PersonCloses, PersonReopens
<1>3. issues' \in Seq(Issues) /\ Len(issues') = Len(issues)
  BY <1>2, IssueWrites DEF TypeOK
<1> QED
  BY <1>1, <1>3 DEF PersonCloses, PersonReopens, TypeOK

LEMMA HaltType ==
  ASSUME TypeOK, NEW r \in Runs, Halt(r)
  PROVE  TypeOK'
BY EmptyTypes DEF Halt, TypeOK, Phases

LEMMA ReconcileType ==
  ASSUME TypeOK, NEW r \in Runs, Reconcile(r)
  PROVE  TypeOK'
BY UpdateType, MigrateType, ReopenType, DeferType, RaiseType, SupersededType, ClosedType, KeepOpenType
   DEF Reconcile

LEMMA TypeStep == TypeOK /\ [Next]_vars => TypeOK'
<1> SUFFICES ASSUME TypeOK, [Next]_vars
             PROVE  TypeOK'
  OBVIOUS
<1>1. ASSUME NEW r \in Runs, Progress(r) PROVE TypeOK'
  BY <1>1, BeginType, HaltType, ConcludeType, StartTrackingType, ReconcileType,
     RememberType DEF Progress
<1>2. ASSUME NEW r \in Runs, GoesWrong(r) PROVE TypeOK'
  BY <1>2, WrongType
<1>3. CASE Persons
  BY <1>3, PersonsType
<1>4. CASE UNCHANGED vars
  BY <1>4 DEF vars, TypeOK
<1> QED
  BY <1>1, <1>2, <1>3, <1>4 DEF Next

(* Every variable of the tracker keeps its type, whatever runs, people and *)
(* failures do.                                                            *)
THEOREM TypeCorrect == Spec => []TypeOK
BY TypeInit, TypeStep, PTL DEF Spec

-----------------------------------------------------------------------------
(* Two answers close an issue, for every set of keys and checks, every     *)
(* threshold, and every mix of failures, as long as runs do not overlap.   *)

LEMMA StreakInit == Init => StreakInv
BY DEF Init, StreakInv, NothingBooked, ListedApart, ReadIsStored, MemoryBounded,
       KnownBounded, KeptBounded, Concluded, NoBook, NoView, NoStreak, NoMemory, Wanted

-----------------------------------------------------------------------------
(* A run that leaves has read nothing and booked nothing.                  *)
LEMMA LeaveStreak ==
  ASSUME TypeOK, TypeOK', Alone, NEW r \in Runs, Leave(r), MemoryBounded'
  PROVE  StreakInv'
<1>1. \A s \in Runs : phase'[s] = "idle" /\ view'[s] = NoView /\ book'[s] = NoBook
  BY DEF Leave, Alone, TypeOK
<1>2. \A k \in FindingKeys : seen'[k] \in Nat
  BY ThresholdAssumption DEF TypeOK
<1>3. /\ NothingBooked'
      /\ ReadIsStored'
      /\ KnownBounded'
  BY <1>1 DEF NothingBooked, ReadIsStored, KnownBounded, Concluded
<1>4. ListedApart' /\ KeptBounded'
  BY <1>1, <1>2 DEF ListedApart, KeptBounded, NoBook, NoView, NoStreak, Wanted
<1> QED
  BY <1>3, <1>4 DEF StreakInv

(* A step of the reconciliation books a bounded streak and lists nothing   *)
(* anew.                                                                   *)
LEMMA BookedStreak ==
  ASSUME TypeOK, TypeOK', StreakInv, Alone, NEW r \in Runs,
         phase[r] \in {"concluded", "tracking"}, phase'[r] \in {"tracking", "remember"},
         UNCHANGED <<memory, view, seen>>,
         book'[r].left \subseteq book[r].left,
         \A k \in FindingKeys :
           \/ book'[r].kept[k] = book[r].kept[k]
           \/ k \in book[r].left /\ book'[r].kept[k] <= seen[k]
  PROVE  StreakInv'
<1>1. \A s \in Runs : s = r
  BY DEF Alone
<1>2. NothingBooked'
  BY <1>1 DEF NothingBooked
<1>3. ListedApart'
  BY <1>1 DEF StreakInv, ListedApart, Wanted, TypeOK, View
<1>4. ReadIsStored' /\ MemoryBounded' /\ KnownBounded'
  BY <1>1 DEF StreakInv, ReadIsStored, MemoryBounded, KnownBounded, Concluded
<1>5. KeptBounded'
  BY <1>1 DEF StreakInv, KeptBounded
<1> QED
  BY <1>2, <1>3, <1>4, <1>5 DEF StreakInv

-----------------------------------------------------------------------------
LEMMA BeginStreak ==
  ASSUME TypeOK, TypeOK', StreakInv, Alone, NEW r \in Runs, Start(r)
  PROVE  StreakInv'
<1>0. PICK kind \in Kinds, asked \in SUBSET Keys, unlock \in BOOLEAN, read \in BOOLEAN :
        Begin(r, kind, asked, unlock, read)
  BY DEF Start
<1>1. /\ phase[r] = "idle"
      /\ phase' = [phase EXCEPT ![r] = "analysing"]
      /\ view'[r].found = {} /\ view'[r].escalated = {}
      /\ UNCHANGED <<issues, memory, book, seen>>
  BY <1>0 DEF Begin, NoView, TypeOK
<1>2. \A s \in Runs : s = r
  BY DEF Alone
<1>3. \A s \in Runs : phase'[s] = "analysing" /\ view'[s].found = {} /\ view'[s].escalated = {}
  BY <1>1, <1>2 DEF TypeOK
<1>4. book' = book /\ book[r] = NoBook
  BY <1>1 DEF StreakInv, NothingBooked
<1>5. /\ NothingBooked'
      /\ ReadIsStored'
      /\ KnownBounded'
  BY <1>2, <1>3, <1>4 DEF NothingBooked, ReadIsStored, KnownBounded, Concluded
<1>6. ListedApart' /\ KeptBounded' /\ MemoryBounded'
  BY <1>1, <1>3, <1>4
     DEF StreakInv, ListedApart, KeptBounded, MemoryBounded, NoBook, NoStreak, Wanted
<1> QED
  BY <1>5, <1>6 DEF StreakInv

LEMMA HaltStreak ==
  ASSUME TypeOK, TypeOK', StreakInv, Alone, NEW r \in Runs, Halt(r)
  PROVE  StreakInv'
<1>1. book' = book /\ book[r] = NoBook
  BY DEF Halt, StreakInv, NothingBooked
<1>2. Leave(r)
  BY <1>1 DEF Halt, Leave, TypeOK
<1>3. MemoryBounded'
  BY DEF Halt, StreakInv, MemoryBounded
<1> QED
  BY <1>2, <1>3, LeaveStreak

LEMMA ConcludeStreak ==
  ASSUME TypeOK, TypeOK', StreakInv, Alone, NEW r \in Runs, Analyse(r)
  PROVE  StreakInv'
<1>a. PICK ran \in Performed(r) :
        \E outcomes \in [ran -> Outcome], found \in SUBSET FindingKeys :
          \E short \in SUBSET (PackageKeys \ found), recalled \in BOOLEAN :
            Conclude(r, outcomes, found, short, recalled)
  BY DEF Analyse
<1>b. PICK outcomes \in [ran -> Outcome], found \in SUBSET FindingKeys :
        \E short \in SUBSET (PackageKeys \ found), recalled \in BOOLEAN :
          Conclude(r, outcomes, found, short, recalled)
  BY <1>a
<1>1. PICK short \in SUBSET (PackageKeys \ found), recalled \in BOOLEAN :
        Conclude(r, outcomes, found, short, recalled)
  BY <1>b
<1> DEFINE known == IF recalled THEN memory ELSE NoMemory
           speaks == {k \in Keys : Speaks(k, outcomes, short, known.bundles)}
           looked == {b \in BundleKeys : ~ Unproven(b, outcomes, MembersOf[b])}
           failing == IF view[r].kind = "scheduled"
                      THEN Weigh(known.failing, outcomes) ELSE known.failing
           escalated == IF view[r].kind = "scheduled"
                        THEN Escalations(known.failing, outcomes) ELSE {}
<1>2. /\ view'[r].found = found
      /\ view'[r].recalled = recalled
      /\ view'[r].known = known
      /\ view'[r].speaks = speaks
  <2>1. view' = [view EXCEPT ![r] = [view[r] EXCEPT
                   !.found = found, !.recalled = recalled, !.known = known,
                   !.speaks = speaks, !.looked = looked, !.failing = failing,
                   !.escalated = escalated]]
    BY <1>1 DEF Conclude
  <2>2. view[r] \in View /\ r \in DOMAIN view
    BY DEF TypeOK
  <2> HIDE DEF known, speaks, looked, failing, escalated
  <2> QED
    BY <2>1, <2>2 DEF View
<1>3. /\ seen' = [k \in FindingKeys |->
           IF k \in speaks \ found /\ seen[k] < Threshold THEN seen[k] + 1 ELSE seen[k]]
      /\ phase[r] = "analysing"
      /\ phase' = [phase EXCEPT ![r] = "concluded"]
      /\ UNCHANGED <<issues, memory, book>>
  BY <1>1 DEF Conclude
<1> HIDE DEF speaks
<1>4. \A s \in Runs : s = r
  BY DEF Alone
<1>5. book[r] = NoBook /\ phase'[r] = "concluded"
  BY <1>3 DEF StreakInv, NothingBooked, TypeOK
<1>6. ASSUME NEW k \in FindingKeys
      PROVE  /\ seen[k] \in 0..Threshold
             /\ seen[k] <= seen'[k]
             /\ k \in speaks \ found => seen[k] < seen'[k] \/ seen'[k] = Threshold
             /\ memory.absent[k] <= seen[k]
             /\ known.absent[k] <= seen[k]
  <2>1. seen[k] \in 0..Threshold /\ Threshold \in Nat /\ memory.absent[k] \in 0..Threshold
    BY ThresholdAssumption DEF TypeOK, Documents
  <2>2. /\ seen[k] <= seen'[k]
        /\ k \in speaks \ found => seen[k] < seen'[k] \/ seen'[k] = Threshold
    BY <1>3, <2>1
  <2>3. memory.absent[k] <= seen[k]
    BY DEF StreakInv, MemoryBounded
  <2>4. NoMemory.absent[k] <= seen[k]
    BY <2>1 DEF NoMemory, NoStreak
  <2> QED
    BY <2>1, <2>2, <2>3, <2>4
<1>7. \A k \in FindingKeys : /\ known.absent[k] \in Nat /\ memory.absent[k] \in Nat
                             /\ seen[k] \in Nat /\ seen'[k] \in Nat
  BY ThresholdAssumption, EmptyTypes DEF TypeOK, Documents
<1>8. MemoryBounded'
  BY <1>3, <1>6, <1>7 DEF MemoryBounded
<1>9. KnownBounded'
  <2>1. \A k \in FindingKeys :
          /\ known.absent[k] <= seen'[k]
          /\ k \in speaks \ found => known.absent[k] < seen'[k] \/ seen'[k] = Threshold
    <3> HIDE DEF known
    <3> QED
      BY <1>6, <1>7
  <2> HIDE DEF known
  <2> QED
    BY <1>2, <1>4, <2>1 DEF KnownBounded
<1>10. ReadIsStored'
  BY <1>2, <1>3, <1>4 DEF ReadIsStored
<1>11. NothingBooked' /\ ListedApart' /\ KeptBounded'
  <2>1. \A s \in Runs : book'[s] = NoBook
    BY <1>3, <1>4, <1>5
  <2>2. \A k \in FindingKeys : NoBook.kept[k] = 0 /\ 0 <= seen'[k]
    BY <1>7 DEF NoBook, NoStreak
  <2>3. NoBook.left = {}
    BY DEF NoBook
  <2> QED
    BY <1>2, <1>4, <2>1, <2>2, <2>3 DEF NothingBooked, ListedApart, KeptBounded
<1> QED
  BY <1>8, <1>9, <1>10, <1>11 DEF StreakInv

LEMMA StartTrackingStreak ==
  ASSUME TypeOK, TypeOK', StreakInv, Alone, NEW r \in Runs, StartTracking(r)
  PROVE  StreakInv'
<1>1. \A s \in Runs : s = r
  BY DEF Alone
<1>2. /\ phase[r] = "concluded" /\ phase'[r] = "tracking"
      /\ UNCHANGED <<memory, seen>>
  BY DEF StartTracking, TypeOK
<1>3. /\ view'[r].found = view[r].found
      /\ view'[r].escalated = view[r].escalated
      /\ view'[r].speaks = view[r].speaks
      /\ view'[r].known = view[r].known
      /\ view'[r].recalled = view[r].recalled
  BY DEF StartTracking, TypeOK, View
<1>4. book'[r].left \cap Wanted(r) = {} /\ book'[r].kept = NoStreak
  BY DEF StartTracking, TypeOK, NoBook
<1>5. NothingBooked'
  BY <1>1, <1>2 DEF NothingBooked
<1>6. ReadIsStored' /\ MemoryBounded' /\ KnownBounded'
  BY <1>1, <1>2, <1>3 DEF StreakInv, ReadIsStored, MemoryBounded, KnownBounded, Concluded
<1>7. ListedApart'
  <2>1. view[r].found \subseteq FindingKeys
    BY DEF TypeOK, View
  <2> QED
    BY <1>1, <1>3, <1>4, <2>1 DEF ListedApart, Wanted, NoStreak
<1>8. KeptBounded'
  <2>1. \A k \in FindingKeys : seen[k] \in Nat
    BY ThresholdAssumption DEF TypeOK
  <2> QED
    BY <1>1, <1>2, <1>4, <2>1 DEF KeptBounded, NoStreak
<1> QED
  BY <1>5, <1>6, <1>7, <1>8 DEF StreakInv

-----------------------------------------------------------------------------
(* A key that is reconciled books no streak: it is forgotten.              *)
LEMMA TrackedStreak ==
  ASSUME TypeOK, NEW r \in Runs, NEW key \in Keys, NEW number
  PROVE  /\ Tracked(r, key, number).left = book[r].left
         /\ Tracked(r, key, number).kept = book[r].kept
BY DEF Tracked, TypeOK, Book

LEMMA WantedStreak ==
  ASSUME TypeOK, TypeOK', StreakInv, Alone, NEW r \in Runs, NEW key \in Keys,
         \/ \E changed \in BOOLEAN : Update(r, key, changed)
         \/ MigrateTwin(r, key) \/ Reopen(r, key) \/ ReopenCut(r, key)
         \/ Defer(r, key) \/ Raise(r, key)
  PROVE  StreakInv'
<1>1. /\ phase[r] = "tracking"
      /\ phase'[r] \in {"tracking", "remember"}
      /\ UNCHANGED <<memory, view, seen>>
  BY DEF Update, MigrateTwin, Reopen, ReopenCut, Defer, Raise, Turn, TypeOK
<1>2. book[r] \in Book /\ r \in DOMAIN book
  BY DEF TypeOK
<1>3. /\ book'[r].left \subseteq book[r].left
      /\ book'[r].kept = book[r].kept
  <2>1. CASE \/ \E changed \in BOOLEAN : Update(r, key, changed)
             \/ Reopen(r, key)
    BY <2>1, <1>2, TrackedStreak DEF Update, Reopen
  <2>2. CASE MigrateTwin(r, key)
    <3>1. PICK old \in Keys :
            book' = [book EXCEPT ![r] =
              [Tracked(r, key, view[r].existing[old]) EXCEPT !.absorbed = @ \cup {old},
                                                             !.left = @ \ {old}]]
      BY <2>2 DEF MigrateTwin
    <3> QED
      BY <3>1, <1>2 DEF Tracked, Book
  <2>3. CASE Raise(r, key)
    BY <2>3, <1>2 DEF Raise, Tracked, Book
  <2>4. CASE Defer(r, key)
    BY <2>4, <1>2 DEF Defer, Book
  <2>5. CASE ReopenCut(r, key)
    BY <2>5 DEF ReopenCut
  <2> QED
    BY <2>1, <2>2, <2>3, <2>4, <2>5
<1> QED
  BY <1>1, <1>3, BookedStreak

(* Closing an issue books nothing.                                         *)
LEMMA ClosedStreak ==
  ASSUME TypeOK, TypeOK', StreakInv, Alone, NEW r \in Runs, NEW key \in Keys,
         CloseGone(r, key)
  PROVE  StreakInv'
<1>1. /\ phase[r] = "tracking"
      /\ phase'[r] = "tracking"
      /\ UNCHANGED <<memory, view, seen>>
  BY DEF CloseGone, Settles
<1>2. /\ book'[r].left \subseteq book[r].left
      /\ book'[r].kept = book[r].kept
  BY DEF CloseGone, TypeOK, Book
<1> QED
  BY <1>1, <1>2, BookedStreak

LEMMA ReplacedStreak ==
  ASSUME TypeOK, TypeOK', StreakInv, Alone, NEW r \in Runs, NEW key \in Keys,
         CloseSuperseded(r, key)
  PROVE  StreakInv'
<1>1. phase[r] = "tracking" /\ UNCHANGED <<memory, phase, seen>>
  BY DEF CloseSuperseded
<1>2. /\ book'[r].left \subseteq book[r].left
      /\ book'[r].kept = book[r].kept
  BY DEF CloseSuperseded, TypeOK, Book
<1>3. /\ view'[r].found = view[r].found /\ view'[r].escalated = view[r].escalated
      /\ view'[r].speaks = view[r].speaks
      /\ view'[r].recalled = view[r].recalled /\ view'[r].known = view[r].known
  BY ReplaceView
<1>4. \A s \in Runs : s = r
  BY DEF Alone
<1>5. NothingBooked'
  BY <1>1, <1>4 DEF NothingBooked
<1>6. ListedApart'
  BY <1>2, <1>3, <1>4 DEF StreakInv, ListedApart, Wanted
<1>7. ReadIsStored' /\ MemoryBounded'
  BY <1>1, <1>3, <1>4 DEF StreakInv, ReadIsStored, MemoryBounded, Concluded
<1>8. KnownBounded'
  BY <1>1, <1>3, <1>4 DEF StreakInv, KnownBounded, Concluded
<1>9. KeptBounded'
  BY <1>1, <1>2, <1>4 DEF StreakInv, KeptBounded
<1> QED
  BY <1>5, <1>6, <1>7, <1>8, <1>9 DEF StreakInv

(* The streak a kept issue carries counts this run's answer at most once,  *)
(* and this run's answer was counted when it was given.                    *)
LEMMA KeepOpenStreak ==
  ASSUME TypeOK, TypeOK', StreakInv, Alone, NEW r \in Runs, NEW key \in Keys,
         KeepOpen(r, key)
  PROVE  StreakInv'
<1>1. /\ phase[r] = "tracking"
      /\ phase'[r] = "tracking"
      /\ UNCHANGED <<memory, view, seen>>
  BY DEF KeepOpen, Settles
<1> DEFINE absent == view[r].known.absent
           speaks == key \in view[r].speaks
<1>2. /\ book'[r].left = book[r].left \ {key}
      /\ book'[r].kept = Carried(book[r].kept, key, absent, speaks)
  BY DEF KeepOpen, TypeOK, Book
<1>3. key \in book[r].left
  BY DEF KeepOpen, Settles, First
<1>4. book[r].kept \in [FindingKeys -> 0..Threshold]
  BY DEF TypeOK, Book
<1>5. ASSUME key \in FindingKeys
      PROVE  (IF speaks THEN absent[key] + 1 ELSE absent[key]) <= seen[key]
  <2>1. key \notin view[r].found
    BY <1>3 DEF StreakInv, ListedApart, Wanted
  <2>2. /\ absent[key] <= seen[key]
        /\ speaks => absent[key] < seen[key] \/ seen[key] = Threshold
    BY <1>1, <1>5, <2>1 DEF StreakInv, KnownBounded, Concluded
  <2>3. speaks => ~ (absent[key] + 1 >= Threshold)
    BY <1>5 DEF KeepOpen, MayClose, Closes, EnoughRuns
  <2>4. absent[key] \in Nat /\ seen[key] \in Nat /\ Threshold \in Nat
    BY <1>5, ThresholdAssumption DEF TypeOK, View, Documents
  <2> QED
    BY <2>2, <2>3, <2>4
<1> HIDE DEF absent, speaks
<1>6. \A k \in FindingKeys :
        \/ book'[r].kept[k] = book[r].kept[k]
        \/ k \in book[r].left /\ book'[r].kept[k] <= seen[k]
  BY <1>2, <1>3, <1>4, <1>5 DEF Carried
<1> QED
  BY <1>1, <1>2, <1>6, BookedStreak

LEMMA ReconcileStreak ==
  ASSUME TypeOK, TypeOK', StreakInv, Alone, NEW r \in Runs, Reconcile(r)
  PROVE  StreakInv'
BY WantedStreak, ClosedStreak, ReplacedStreak, KeepOpenStreak DEF Reconcile

-----------------------------------------------------------------------------
(* The document that is stored remembers no answer that was not given.     *)
LEMMA RememberStreak ==
  ASSUME TypeOK, TypeOK', StreakInv, Alone, NEW r \in Runs, Remember(r)
  PROVE  StreakInv'
<1>1. /\ Leave(r)
      /\ memory' = IF NothingNew(r) THEN memory ELSE Document(r)
      /\ seen' = [k \in FindingKeys |-> IF k \in view[r].found THEN 0 ELSE seen[k]]
  BY DEF Remember
<1>2. memory'.absent = book[r].kept
  <2>1. CASE NothingNew(r)
    <3>1. Concluded(r) /\ view[r].recalled
      BY <2>1 DEF Remember, Reconciled, Concluded, NothingNew
    <3>2. memory = Document(r)
      BY <2>1, <3>1 DEF StreakInv, ReadIsStored, NothingNew
    <3> QED
      BY <1>1, <2>1, <3>2 DEF Document
  <2>2. CASE ~ NothingNew(r)
    BY <1>1, <2>2 DEF Document
  <2> QED
    BY <2>1, <2>2
<1>3. MemoryBounded'
  <2> SUFFICES ASSUME NEW k \in FindingKeys
               PROVE  book[r].kept[k] <= seen'[k]
    BY <1>2 DEF MemoryBounded
  <2>1. CASE k \in view[r].found
    BY <1>1, <2>1 DEF StreakInv, ListedApart
  <2>2. CASE k \notin view[r].found
    BY <1>1, <2>2 DEF StreakInv, KeptBounded
  <2> QED
    BY <2>1, <2>2
<1> QED
  BY <1>1, <1>3, LeaveStreak

(* Whatever goes wrong stores nothing, so it remembers nothing.            *)
LEMMA WrongStreak ==
  ASSUME TypeOK, TypeOK', StreakInv, Alone, NEW r \in Runs, GoesWrong(r)
  PROVE  StreakInv'
<1>1. CASE \E k \in Keys : ReopenCut(r, k)
  BY <1>1, WantedStreak
<1>2. CASE Forget(r) \/ IdentityFails(r) \/ Crash(r)
  <2>1. Leave(r) /\ UNCHANGED <<memory, seen>>
    BY <1>2 DEF Forget, IdentityFails, Crash
  <2>2. MemoryBounded'
    BY <2>1 DEF StreakInv, MemoryBounded
  <2> QED
    BY <2>1, <2>2, LeaveStreak
<1>3. CASE PlatformFails(r)
  <2>1. /\ phase[r] \in {"concluded", "tracking"}
        /\ phase'[r] = "remember"
        /\ UNCHANGED <<memory, view, seen, book>>
    BY <1>3 DEF PlatformFails, TypeOK
  <2> QED
    BY <2>1, BookedStreak
<1> QED
  BY <1>1, <1>2, <1>3 DEF GoesWrong

LEMMA StillStreak ==
  ASSUME StreakInv, UNCHANGED <<memory, phase, view, book, seen>>
  PROVE  StreakInv'
BY DEF StreakInv, NothingBooked, ListedApart, ReadIsStored, MemoryBounded, KnownBounded,
       KeptBounded, Concluded, Wanted

LEMMA StreakStep == Alone /\ TypeOK /\ StreakInv /\ [Next]_vars => StreakInv'
<1> SUFFICES ASSUME Alone, TypeOK, StreakInv, [Next]_vars
             PROVE  StreakInv'
  OBVIOUS
<1>1. TypeOK'
  BY TypeStep
<1>2. ASSUME NEW r \in Runs, Progress(r) PROVE StreakInv'
  BY <1>1, <1>2, BeginStreak, HaltStreak, ConcludeStreak, StartTrackingStreak,
     ReconcileStreak, RememberStreak DEF Progress
<1>3. ASSUME NEW r \in Runs, GoesWrong(r) PROVE StreakInv'
  BY <1>1, <1>3, WrongStreak
<1>4. CASE Persons
  BY <1>4, StillStreak DEF Persons, PersonCloses, PersonReopens
<1>5. CASE UNCHANGED vars
  BY <1>5, StillStreak DEF vars
<1> QED
  BY <1>2, <1>3, <1>4, <1>5 DEF Next

(* As long as runs follow one another, no count the tracker keeps exceeds  *)
(* the number of complete answers that were given.                         *)
THEOREM StreaksAreBounded ==
  ASSUME Alone
  PROVE  Spec => []StreakInv
<1>1. TypeOK /\ StreakInv /\ [Next]_vars => StreakInv'
  BY StreakStep
<1> QED
  BY <1>1, StreakInit, TypeCorrect, PTL DEF Spec

(* An issue closed by the count had as many complete answers as the code   *)
(* asks for, whatever was killed, refused or lost on the way.              *)
THEOREM TwoAnswersHold ==
  ASSUME Alone
  PROVE  Spec => TwoAnswers
<1> DEFINE Counted ==
      \A r \in Runs, k \in FindingKeys :
        CountedOut(r, k) /\ CloseGone(r, k) => seen[k] >= Threshold
<1>1. TypeOK /\ StreakInv => Counted
  <2> SUFFICES ASSUME TypeOK, StreakInv, NEW r \in Runs, NEW k \in FindingKeys,
                      CountedOut(r, k)
               PROVE  seen[k] >= Threshold
    OBVIOUS
  <2>1. /\ phase[r] = "tracking"
        /\ k \in book[r].left
        /\ k \in view[r].speaks
        /\ view[r].known.absent[k] + 1 >= Threshold
    BY DEF CountedOut, Settles, First, MayClose, Closes, EnoughRuns
  <2>2. k \notin view[r].found
    BY <2>1 DEF StreakInv, ListedApart, Wanted
  <2>3. view[r].known.absent[k] < seen[k] \/ seen[k] = Threshold
    BY <2>1, <2>2 DEF StreakInv, KnownBounded, Concluded
  <2>4. view[r].known.absent[k] \in Nat /\ seen[k] \in Nat /\ Threshold \in Nat
    BY ThresholdAssumption DEF TypeOK, View, Documents
  <2> QED
    BY <2>1, <2>3, <2>4
<1>2. TypeOK /\ StreakInv => [Counted]_vars
  BY <1>1
<1> QED
  BY <1>2, TypeCorrect, StreaksAreBounded, PTL DEF TwoAnswers

-----------------------------------------------------------------------------
(* What the steps of a reconciliation do to the issues and to the book.    *)

LEMMA TrackedBook ==
  ASSUME TypeOK, NEW r \in Runs, NEW key \in Keys, NEW n
  PROVE  LET b == Tracked(r, key, n)
         IN  /\ b.todo = book[r].todo \ {key}
             /\ b.left = book[r].left
             /\ b.number = [book[r].number EXCEPT ![key] = n]
             /\ b.closed = book[r].closed
             /\ b.absorbed = book[r].absorbed
             /\ b.deferred = book[r].deferred
             /\ b.raised = book[r].raised
             /\ b.subjects = book[r].subjects
BY DEF Tracked, TypeOK, Book

(* A write to one issue changes its fields and nothing else.               *)
LEMMA StampWrite ==
  ASSUME TypeOK, NEW n, NEW b, issues' = [issues EXCEPT ![n].stamp = b]
  PROVE  /\ DOMAIN issues' = DOMAIN issues
         /\ \A m \in DOMAIN issues :
              /\ issues'[m].key = issues[m].key /\ issues'[m].open = issues[m].open
              /\ IF m = n THEN issues'[m].stamp = b ELSE issues'[m] = issues[m]
<1>1. \A m \in DOMAIN issues : issues[m] \in Issues
  BY DEF TypeOK
<1>2. DOMAIN issues' = DOMAIN issues
  OBVIOUS
<1>3. ASSUME NEW m \in DOMAIN issues
      PROVE  /\ issues'[m].key = issues[m].key /\ issues'[m].open = issues[m].open
             /\ IF m = n THEN issues'[m].stamp = b ELSE issues'[m] = issues[m]
  BY <1>1 DEF Issues
<1> QED
  BY <1>2, <1>3

LEMMA OpenWrite ==
  ASSUME TypeOK, NEW n, NEW b, issues' = [issues EXCEPT ![n].open = b]
  PROVE  /\ DOMAIN issues' = DOMAIN issues
         /\ \A m \in DOMAIN issues :
              /\ issues'[m].key = issues[m].key /\ issues'[m].stamp = issues[m].stamp
              /\ IF m = n THEN issues'[m].open = b ELSE issues'[m] = issues[m]
<1>1. \A m \in DOMAIN issues : issues[m] \in Issues
  BY DEF TypeOK
<1>2. DOMAIN issues' = DOMAIN issues
  OBVIOUS
<1>3. ASSUME NEW m \in DOMAIN issues
      PROVE  /\ issues'[m].key = issues[m].key /\ issues'[m].stamp = issues[m].stamp
             /\ IF m = n THEN issues'[m].open = b ELSE issues'[m] = issues[m]
  BY <1>1 DEF Issues
<1> QED
  BY <1>2, <1>3

LEMMA ReopenWrite ==
  ASSUME TypeOK, NEW n, NEW b, issues' = [issues EXCEPT ![n].open = TRUE, ![n].stamp = b]
  PROVE  /\ DOMAIN issues' = DOMAIN issues
         /\ \A m \in DOMAIN issues :
              /\ issues'[m].key = issues[m].key
              /\ IF m = n THEN issues'[m].open /\ issues'[m].stamp = b ELSE issues'[m] = issues[m]
<1>1. \A m \in DOMAIN issues : issues[m] \in Issues
  BY DEF TypeOK
<1>2. DOMAIN issues' = DOMAIN issues
  OBVIOUS
<1>3. ASSUME NEW m \in DOMAIN issues
      PROVE  /\ issues'[m].key = issues[m].key
             /\ IF m = n THEN issues'[m].open = TRUE /\ issues'[m].stamp = b ELSE issues'[m] = issues[m]
  BY <1>1 DEF Issues
<1> QED
  BY <1>2, <1>3

LEMMA IssueTypes ==
  ASSUME TypeOK
  PROVE  /\ \A m \in DOMAIN issues : issues[m] \in Issues
         /\ DOMAIN issues = 1..Len(issues) /\ Len(issues) \in Nat /\ 0 \notin DOMAIN issues
BY DEF TypeOK

(* Every step on a key that the run found or escalates.                    *)
LEMMA UpdateDoes ==
  ASSUME TypeOK, NEW r \in Runs, NEW key \in Keys, NEW changed \in BOOLEAN, Update(r, key, changed)
  PROVE  LET n == view[r].existing[key]
         IN  /\ n # 0
             /\ DOMAIN issues' = DOMAIN issues
             /\ \A m \in DOMAIN issues :
                  /\ issues'[m].key = issues[m].key /\ issues'[m].open = issues[m].open
                  /\ m # n => issues'[m] = issues[m]
             /\ n \in DOMAIN issues =>
                  \/ issues'[n].stamp = Stamp(r, key)
                  \/ issues'[n] = issues[n] /\ (key \in view[r].stamped) = Stamp(r, key)
             /\ book'[r] = Tracked(r, key, n)
<1> DEFINE n == view[r].existing[key]
<1>1. /\ n # 0 /\ book'[r] = Tracked(r, key, n)
      /\ \/ issues' = [issues EXCEPT ![n].stamp = Stamp(r, key)]
         \/ issues' = issues /\ (key \in view[r].stamped) = Stamp(r, key)
  BY DEF Update, TypeOK
<1> HIDE DEF n
<1>2. CASE issues' = issues /\ (key \in view[r].stamped) = Stamp(r, key)
  BY <1>1, <1>2 DEF n
<1>3. CASE issues' = [issues EXCEPT ![n].stamp = Stamp(r, key)]
  <2>1. /\ DOMAIN issues' = DOMAIN issues
        /\ \A m \in DOMAIN issues :
             /\ issues'[m].key = issues[m].key /\ issues'[m].open = issues[m].open
             /\ IF m = n THEN issues'[m].stamp = Stamp(r, key) ELSE issues'[m] = issues[m]
    BY <1>3, StampWrite
  <2> QED
    BY <1>1, <2>1 DEF n
<1> QED
  BY <1>1, <1>2, <1>3

LEMMA MigrateDoes ==
  ASSUME TypeOK, NEW r \in Runs, NEW key \in Keys, MigrateTwin(r, key)
  PROVE  /\ view[r].existing[key] = 0
         /\ book'[r].todo = book[r].todo \ {key}
         /\ book'[r].closed = book[r].closed
         /\ book'[r].deferred = book[r].deferred
         /\ book'[r].raised = book[r].raised
         /\ book'[r].subjects = book[r].subjects
         /\ \E o \in Keys \ (Wanted(r) \cup book[r].absorbed) :
              LET n == view[r].existing[o]
              IN  /\ n # 0
                  /\ FingerprintOf[o] = FingerprintOf[key]
                  /\ DOMAIN issues' = DOMAIN issues
                  /\ \A m \in DOMAIN issues :
                       /\ issues'[m].open = issues[m].open
                       /\ m # n => issues'[m] = issues[m]
                       /\ m = n => issues'[m].key = key
                  /\ book'[r].left = book[r].left \ {o}
                  /\ book'[r].number = [book[r].number EXCEPT ![key] = n]
                  /\ book'[r].absorbed = book[r].absorbed \cup {o}
<1>1. PICK old \in Keys :
        /\ Twins(r, key) = {old}
        /\ issues' = [issues EXCEPT ![view[r].existing[old]].key = key,
                                    ![view[r].existing[old]].stamp = Stamp(r, key)]
        /\ book' = [book EXCEPT ![r] =
             [Tracked(r, key, view[r].existing[old]) EXCEPT !.absorbed = @ \cup {old},
                                                            !.left = @ \ {old}]]
  BY DEF MigrateTwin
<1> DEFINE n == view[r].existing[old]
<1>2. /\ old \in Keys \ (Wanted(r) \cup book[r].absorbed) /\ n # 0
      /\ FingerprintOf[old] = FingerprintOf[key]
  BY <1>1 DEF Twins
<1>3. n \in 0..MaxIssues
  BY ReadNumbers
<1>4. Tracked(r, key, n) \in Book
  BY <1>3, TrackedType
<1>5. PICK b \in Book : b = Tracked(r, key, n)
  BY <1>4
<1>5a. book'[r] = [b EXCEPT !.absorbed = @ \cup {old}, !.left = @ \ {old}]
  BY <1>1, <1>5 DEF TypeOK
<1>5b. /\ b.todo = book[r].todo \ {key}
       /\ b.left = book[r].left
       /\ b.number = [book[r].number EXCEPT ![key] = n]
       /\ b.closed = book[r].closed
       /\ b.absorbed = book[r].absorbed
       /\ b.deferred = book[r].deferred
       /\ b.raised = book[r].raised
       /\ b.subjects = book[r].subjects
  BY <1>5, TrackedBook
<1> HIDE DEF n
<1>6. /\ book'[r].todo = book[r].todo \ {key}
      /\ book'[r].left = book[r].left \ {old}
      /\ book'[r].number = [book[r].number EXCEPT ![key] = n]
      /\ book'[r].closed = book[r].closed
      /\ book'[r].absorbed = book[r].absorbed \cup {old}
      /\ book'[r].deferred = book[r].deferred
      /\ book'[r].raised = book[r].raised
      /\ book'[r].subjects = book[r].subjects
  BY <1>5a, <1>5b DEF Book
<1>7. issues' = [issues EXCEPT ![n].key = key, ![n].stamp = Stamp(r, key)]
  BY <1>1 DEF n
<1>8. /\ DOMAIN issues' = DOMAIN issues
      /\ \A m \in DOMAIN issues :
           /\ issues'[m].open = issues[m].open
           /\ IF m = n THEN issues'[m].key = key /\ issues'[m].stamp = Stamp(r, key)
                       ELSE issues'[m] = issues[m]
  <2>1. \A m \in DOMAIN issues : issues[m] \in Issues
    BY DEF TypeOK
  <2>2. DOMAIN issues' = DOMAIN issues
    BY <1>7
  <2>3. ASSUME NEW m \in DOMAIN issues
        PROVE  /\ issues'[m].open = issues[m].open
               /\ IF m = n THEN issues'[m].key = key /\ issues'[m].stamp = Stamp(r, key)
                           ELSE issues'[m] = issues[m]
    BY <1>7, <2>1 DEF Issues
  <2> QED
    BY <2>2, <2>3
<1>9. view[r].existing[key] = 0
  BY DEF MigrateTwin
<1>10. \A m \in DOMAIN issues :
         /\ issues'[m].open = issues[m].open
         /\ m # n => issues'[m] = issues[m]
         /\ m = n => issues'[m].key = key
  BY <1>8
<1> SUFFICES \E o \in Keys \ (Wanted(r) \cup book[r].absorbed) :
               LET given == view[r].existing[o]
               IN  /\ given # 0
                   /\ FingerprintOf[o] = FingerprintOf[key]
                   /\ DOMAIN issues' = DOMAIN issues
                   /\ \A m \in DOMAIN issues :
                        /\ issues'[m].open = issues[m].open
                        /\ m # given => issues'[m] = issues[m]
                        /\ m = given => issues'[m].key = key
                   /\ book'[r].left = book[r].left \ {o}
                   /\ book'[r].number = [book[r].number EXCEPT ![key] = given]
                   /\ book'[r].absorbed = book[r].absorbed \cup {o}
  BY <1>6, <1>9
<1>11. /\ view[r].existing[old] # 0
       /\ FingerprintOf[old] = FingerprintOf[key]
       /\ DOMAIN issues' = DOMAIN issues
       /\ \A m \in DOMAIN issues :
            /\ issues'[m].open = issues[m].open
            /\ m # view[r].existing[old] => issues'[m] = issues[m]
            /\ m = view[r].existing[old] => issues'[m].key = key
       /\ book'[r].left = book[r].left \ {old}
       /\ book'[r].number = [book[r].number EXCEPT ![key] = view[r].existing[old]]
       /\ book'[r].absorbed = book[r].absorbed \cup {old}
  BY <1>2, <1>6, <1>8, <1>10 DEF n
<1> QED
  BY <1>2, <1>11, Zenon

LEMMA ReopenDoes ==
  ASSUME TypeOK, NEW r \in Runs, NEW key \in Keys, Reopen(r, key) \/ ReopenCut(r, key)
  PROVE  LET n == book[r].closed[key]
         IN  /\ n # 0 /\ view[r].existing[key] = 0
             /\ DOMAIN issues' = DOMAIN issues
             /\ \A m \in DOMAIN issues :
                  /\ issues'[m].key = issues[m].key
                  /\ m # n => issues'[m] = issues[m]
                  /\ m = n => issues'[m].open
             /\ Reopen(r, key) => book'[r] = Tracked(r, key, n)
<1> DEFINE n == book[r].closed[key]
<1>1. /\ n # 0 /\ view[r].existing[key] = 0
      /\ Reopen(r, key) => book'[r] = Tracked(r, key, n)
      /\ \/ issues' = [issues EXCEPT ![n].open = TRUE, ![n].stamp = Stamp(r, key)]
         \/ issues' = [issues EXCEPT ![n].open = TRUE]
  BY DEF Reopen, ReopenCut, New, TypeOK
<1> HIDE DEF n
<1>2. CASE issues' = [issues EXCEPT ![n].open = TRUE, ![n].stamp = Stamp(r, key)]
  <2>1. /\ DOMAIN issues' = DOMAIN issues
        /\ \A m \in DOMAIN issues :
             /\ issues'[m].key = issues[m].key
             /\ IF m = n THEN issues'[m].open /\ issues'[m].stamp = Stamp(r, key) ELSE issues'[m] = issues[m]
    BY <1>2, ReopenWrite
  <2> QED
    BY <1>1, <2>1 DEF n
<1>3. CASE issues' = [issues EXCEPT ![n].open = TRUE]
  <2>1. /\ DOMAIN issues' = DOMAIN issues
        /\ \A m \in DOMAIN issues :
             /\ issues'[m].key = issues[m].key
             /\ IF m = n THEN issues'[m].open = TRUE ELSE issues'[m] = issues[m]
    BY <1>3, OpenWrite
  <2> QED
    BY <1>1, <2>1 DEF n
<1> QED
  BY <1>1, <1>2, <1>3

LEMMA RaiseDoes ==
  ASSUME TypeOK, NEW r \in Runs, NEW key \in Keys, Raise(r, key)
  PROVE  LET n == Len(issues) + 1
         IN  /\ view[r].existing[key] = 0
             /\ n \notin DOMAIN issues /\ DOMAIN issues' = DOMAIN issues \cup {n}
             /\ \A m \in DOMAIN issues : issues'[m] = issues[m]
             /\ issues'[n].key = key /\ issues'[n].open
             /\ book'[r].todo = book[r].todo \ {key}
             /\ book'[r].left = book[r].left
             /\ book'[r].number = [book[r].number EXCEPT ![key] = n]
             /\ book'[r].closed = book[r].closed
             /\ book'[r].absorbed = book[r].absorbed
             /\ book'[r].deferred = book[r].deferred
             /\ book'[r].raised = book[r].raised + 1
             /\ book'[r].subjects = book[r].subjects \cup {SubjectOf[key]}
             /\ n # 0
<1> DEFINE n == Len(issues) + 1
           e == [key |-> key, open |-> TRUE, stamp |-> Stamp(r, key)]
<1>1. /\ view[r].existing[key] = 0 /\ issues' = Append(issues, e)
      /\ n \in 0..MaxIssues
      /\ book'[r] = [Tracked(r, key, n) EXCEPT !.raised = @ + 1, !.subjects = @ \cup {SubjectOf[key]}]
  BY TrackerAssumption DEF Raise, New, TypeOK
<1>2. e \in Issues
  BY ReadNumbers DEF Issues
<1>3. e.key = key /\ e.open
  OBVIOUS
<1> HIDE DEF e
<1>4. /\ n \notin DOMAIN issues /\ DOMAIN issues' = DOMAIN issues \cup {n} /\ n # 0
      /\ \A m \in DOMAIN issues : issues'[m] = issues[m]
      /\ issues'[n] = e
  <2>1. issues \in Seq(Issues) /\ Len(issues) \in Nat
    BY DEF TypeOK
  <2> QED
    BY <1>1, <1>2, <2>1
<1>5. PICK b \in Book : b = Tracked(r, key, n)
  BY <1>1, TrackedType
<1>5a. book'[r] = [b EXCEPT !.raised = @ + 1, !.subjects = @ \cup {SubjectOf[key]}]
  BY <1>1, <1>5
<1>5b. /\ b.todo = book[r].todo \ {key}
       /\ b.left = book[r].left
       /\ b.number = [book[r].number EXCEPT ![key] = n]
       /\ b.closed = book[r].closed
       /\ b.absorbed = book[r].absorbed
       /\ b.deferred = book[r].deferred
       /\ b.raised = book[r].raised
       /\ b.subjects = book[r].subjects
  BY <1>5, TrackedBook
<1> HIDE DEF n
<1>6. /\ book'[r].todo = book[r].todo \ {key}
      /\ book'[r].left = book[r].left
      /\ book'[r].number = [book[r].number EXCEPT ![key] = n]
      /\ book'[r].closed = book[r].closed
      /\ book'[r].absorbed = book[r].absorbed
      /\ book'[r].deferred = book[r].deferred
      /\ book'[r].raised = book[r].raised + 1
      /\ book'[r].subjects = book[r].subjects \cup {SubjectOf[key]}
  BY <1>5a, <1>5b DEF Book
<1> QED
  BY <1>1, <1>3, <1>4, <1>6 DEF n

LEMMA CloseDoes ==
  ASSUME TypeOK, NEW r \in Runs, NEW key \in Keys, CloseGone(r, key)
  PROVE  LET n == view[r].existing[key]
         IN  /\ DOMAIN issues' = DOMAIN issues
             /\ \A m \in DOMAIN issues :
                  /\ issues'[m].key = issues[m].key /\ issues'[m].stamp = issues[m].stamp
                  /\ issues'[m].open => issues[m].open
                  /\ m # n => issues'[m] = issues[m]
             /\ key \in book[r].left /\ book[r].todo = {}
             /\ book'[r] = [book[r] EXCEPT !.left = @ \ {key}]
<1> DEFINE n == view[r].existing[key]
<1>1. /\ issues' = [issues EXCEPT ![n].open = FALSE]
      /\ book' = [book EXCEPT ![r].left = @ \ {key}]
      /\ key \in book[r].left /\ book[r].todo = {}
  BY DEF CloseGone, Settles, First
<1>2. book'[r] = [book[r] EXCEPT !.left = @ \ {key}]
  BY <1>1 DEF TypeOK
<1> HIDE DEF n
<1>3. /\ DOMAIN issues' = DOMAIN issues
      /\ \A m \in DOMAIN issues :
           /\ issues'[m].key = issues[m].key /\ issues'[m].stamp = issues[m].stamp
           /\ IF m = n THEN issues'[m].open = FALSE ELSE issues'[m] = issues[m]
  BY <1>1, OpenWrite
<1> QED
  BY <1>1, <1>2, <1>3 DEF n

LEMMA PersonDoes ==
  ASSUME TypeOK, Persons
  PROVE  /\ DOMAIN issues' = DOMAIN issues
         /\ \A m \in DOMAIN issues :
              /\ issues'[m].key = issues[m].key /\ issues'[m].stamp = issues[m].stamp
              /\ "reopen" \notin People /\ issues'[m].open => issues[m].open
              /\ "close" \notin People /\ issues[m].open => issues'[m].open
         /\ UNCHANGED <<memory, phase, view, book, seen>>
<1>1. PICK n \in DOMAIN issues : PersonCloses(n) \/ PersonReopens(n)
  BY DEF Persons
<1>2. PICK b \in BOOLEAN :
        /\ issues' = [issues EXCEPT ![n].open = b]
        /\ b = TRUE => "reopen" \in People
        /\ b = FALSE => "close" \in People
  BY <1>1 DEF PersonCloses, PersonReopens
<1>3. /\ DOMAIN issues' = DOMAIN issues
      /\ \A m \in DOMAIN issues :
           /\ issues'[m].key = issues[m].key /\ issues'[m].stamp = issues[m].stamp
           /\ IF m = n THEN issues'[m].open = b ELSE issues'[m] = issues[m]
  BY <1>2, OpenWrite
<1> QED
  BY <1>1, <1>2, <1>3 DEF PersonCloses, PersonReopens

-----------------------------------------------------------------------------
(* The issues the platform lists for a key carry it.                       *)
LEMMA ListedNumbers ==
  ASSUME TypeOK, NEW k \in Keys
  PROVE  /\ OpenTracked[k] # 0 => OpenTracked[k] \in OpenOf(k)
         /\ OpenOf(k) # {} => OpenTracked[k] \in OpenOf(k)
         /\ \A needed \in SUBSET Keys :
              ClosedByKey(needed)[k] # 0 => k \in needed /\ ClosedByKey(needed)[k] \in ClosedOf(k)
<1>1. DOMAIN issues \subseteq 1..MaxIssues
  BY TrackerAssumption DEF TypeOK
<1>2. OpenOf(k) \in SUBSET (1..MaxIssues) /\ ClosedOf(k) \in SUBSET (1..MaxIssues)
  BY <1>1 DEF OpenOf, ClosedOf
<1>3. /\ Newest(OpenOf(k)) # 0 => Newest(OpenOf(k)) \in OpenOf(k)
      /\ OpenOf(k) # {} => Newest(OpenOf(k)) \in OpenOf(k)
      /\ Newest(ClosedOf(k)) # 0 => Newest(ClosedOf(k)) \in ClosedOf(k)
  BY <1>2, NewestIsNumber
<1> QED
  BY <1>3 DEF OpenTracked, ClosedByKey

(* What a run reads before it writes carries the keys it reads it under.   *)
LEMMA ListedCarry ==
  ASSUME TypeOK, NEW k \in Keys
  PROVE  /\ OpenTracked[k] # 0 => Carries(OpenTracked[k], k)
         /\ \A needed \in SUBSET Keys :
              ClosedByKey(needed)[k] # 0 => k \in needed /\ Carries(ClosedByKey(needed)[k], k)
BY ListedNumbers DEF OpenOf, ClosedOf, Carries

-----------------------------------------------------------------------------
(* Names: the numbers a run holds are those of issues with the keys it     *)
(* holds them under.                                                       *)
LEMMA NamesInit == Init => NamesInv
<1> SUFFICES ASSUME Init PROVE NamesInv
  OBVIOUS
<1>1. \A r \in Runs : view[r] = NoView /\ book[r] = NoBook
  BY DEF Init
<1>2. \A k \in Keys : NoView.existing[k] = 0 /\ NoBook.number[k] = 0 /\ NoBook.closed[k] = 0
  BY DEF NoView, NoBook, NoNumbers
<1>3. NoBook.todo = {} /\ NoBook.left = {} /\ NoBook.absorbed = {}
  BY DEF NoBook
<1>4. NothingBooked /\ ExistingCarry /\ NumbersCarry
  BY <1>1, <1>2 DEF NothingBooked, ExistingCarry, NumbersCarry
<1>5. TodoInv
  BY <1>1, <1>3 DEF TodoInv
<1> QED
  BY <1>4, <1>5 DEF NamesInv

LEMMA LeaveNames ==
  ASSUME TypeOK, Alone, NEW r \in Runs, phase'[r] = "idle", view'[r] = NoView, book'[r] = NoBook
  PROVE  NamesInv'
<1>1. \A s \in Runs : phase'[s] = "idle" /\ view'[s] = NoView /\ book'[s] = NoBook
  BY DEF Alone
<1>2. \A k \in Keys : NoView.existing[k] = 0 /\ NoBook.number[k] = 0 /\ NoBook.closed[k] = 0
  BY DEF NoView, NoBook, NoNumbers
<1>3. NoBook.todo = {} /\ NoBook.left = {} /\ NoBook.absorbed = {}
  BY DEF NoBook
<1>4. NothingBooked' /\ ExistingCarry' /\ NumbersCarry'
  BY <1>1, <1>2 DEF NothingBooked, ExistingCarry, NumbersCarry
<1>5. TodoInv'
  BY <1>1, <1>3 DEF TodoInv
<1> QED
  BY <1>4, <1>5 DEF NamesInv

(* Before reconciling, only what was read about the open issues counts.    *)
LEMMA ReadNames ==
  ASSUME TypeOK, Alone, NEW r \in Runs, book'[r] = NoBook,
         \A k \in Keys : view'[r].existing[k] # 0 =>
           /\ view'[r].existing[k] \in DOMAIN issues'
           /\ issues'[view'[r].existing[k]].key = k
  PROVE  NamesInv'
<1>1. \A s \in Runs : s = r
  BY DEF Alone
<1>2. \A k \in Keys : NoBook.number[k] = 0 /\ NoBook.closed[k] = 0
  BY DEF NoBook, NoNumbers
<1>3. NoBook.todo = {} /\ NoBook.left = {} /\ NoBook.absorbed = {}
  BY DEF NoBook
<1>4. NothingBooked' /\ ExistingCarry' /\ NumbersCarry'
  BY <1>1, <1>2, Zenon DEF NothingBooked, ExistingCarry, NumbersCarry, Carries
<1>5. TodoInv'
  BY <1>1, <1>3 DEF TodoInv
<1> QED
  BY <1>4, <1>5 DEF NamesInv

LEMMA BeginNames ==
  ASSUME TypeOK, Alone, NamesInv, NEW r \in Runs, NEW kind \in Kinds, NEW asked \in SUBSET Keys,
         NEW unlock \in BOOLEAN, NEW read \in BOOLEAN, Begin(r, kind, asked, unlock, read)
  PROVE  NamesInv'
<1>1. issues' = issues /\ book'[r] = NoBook
  BY DEF Begin, NamesInv, NothingBooked
<1>2. view'[r].existing = IF read THEN OpenTracked ELSE NoNumbers
  BY DEF Begin, TypeOK, NoView
<1>3. \A k \in Keys : NoNumbers[k] = 0
  BY DEF NoNumbers
<1>4. \A k \in Keys : OpenTracked[k] # 0 => OpenTracked[k] \in DOMAIN issues /\ issues[OpenTracked[k]].key = k
  BY ListedCarry DEF Carries
<1>5. \A k \in Keys : view'[r].existing[k] # 0 =>
        view'[r].existing[k] \in DOMAIN issues' /\ issues'[view'[r].existing[k]].key = k
  BY <1>1, <1>2, <1>3, <1>4
<1> QED
  BY <1>1, <1>5, ReadNames

LEMMA ConcludeNames ==
  ASSUME TypeOK, Alone, NamesInv, NEW r \in Runs,
         NEW outcomes, NEW found, NEW short, NEW recalled,
         Conclude(r, outcomes, found, short, recalled)
  PROVE  NamesInv'
<1>1. issues' = issues /\ book'[r] = NoBook
  BY DEF Conclude, NamesInv, NothingBooked
<1>2. view'[r].existing = view[r].existing
  BY DEF Conclude, TypeOK, View
<1>3. \A k \in Keys : k \notin book[r].absorbed
  BY DEF Conclude, NamesInv, NothingBooked, NoBook
<1>4. \A k \in Keys : view'[r].existing[k] # 0 =>
        view'[r].existing[k] \in DOMAIN issues' /\ issues'[view'[r].existing[k]].key = k
  BY <1>1, <1>2, <1>3, Zenon DEF NamesInv, ExistingCarry, Carries
<1> QED
  BY <1>1, <1>4, ReadNames

(* The issues keep their keys when a permission is written into some.      *)
LEMMA StartTrackingDoes ==
  ASSUME TypeOK, NEW r \in Runs, StartTracking(r)
  PROVE  /\ DOMAIN issues' = DOMAIN issues
         /\ \A n \in DOMAIN issues :
              /\ issues'[n].key = issues[n].key /\ issues'[n].open = issues[n].open
              /\ issues[n].stamp => issues'[n].stamp
              /\ \A k \in (view[r].approvals \cap view[r].unlocked) \ Wanted(r) :
                   view'[r].existing[k] = n /\ n # 0 => issues'[n].stamp
         /\ view'[r].existing = IF view[r].read THEN view[r].existing ELSE OpenTracked
         /\ view'[r].stamped = IF view[r].read THEN view[r].stamped ELSE StampedIn(OpenTracked)
         /\ view'[r].found = view[r].found /\ view'[r].escalated = view[r].escalated
         /\ view'[r].read = view[r].read /\ view'[r].unlocked = view[r].unlocked
         /\ view'[r].approvals = view[r].approvals /\ view'[r].kind = view[r].kind
         /\ book'[r].todo = Wanted(r)
         /\ book'[r].left = {k \in Keys : view'[r].existing[k] # 0} \ Wanted(r)
         /\ book'[r].closed = ClosedByKey(Wanted(r) \ {k \in Keys : view'[r].existing[k] # 0})
         /\ book'[r].number = NoNumbers
         /\ book'[r].absorbed = {} /\ book'[r].deferred = {}
         /\ book'[r].raised = 0 /\ book'[r].subjects = {}
         /\ phase[r] = "concluded" /\ phase'[r] = "tracking"
<1> DEFINE existing == IF view[r].read THEN view[r].existing ELSE OpenTracked
           stamped == IF view[r].read THEN view[r].stamped ELSE StampedIn(OpenTracked)
           tracked == {k \in Keys : existing[k] # 0}
           approved == {k \in (view[r].approvals \cap tracked) \ Wanted(r) :
                          k \notin stamped \/ k \in view[r].unlocked}
<1>1. /\ view' = [view EXCEPT ![r].existing = existing, ![r].stamped = stamped]
      /\ book' = [book EXCEPT ![r] =
           [NoBook EXCEPT !.todo = Wanted(r), !.left = tracked \ Wanted(r),
                          !.closed = ClosedByKey(Wanted(r) \ tracked)]]
      /\ issues' = [n \in DOMAIN issues |->
           IF \E k \in approved : existing[k] = n
           THEN [issues[n] EXCEPT !.stamp = TRUE] ELSE issues[n]]
      /\ phase[r] = "concluded" /\ phase'[r] = "tracking"
  BY DEF StartTracking, TypeOK
<1>2. view[r].approvals \subseteq Keys
  BY DEF TypeOK, View
<1> HIDE DEF existing, stamped
<1>3. /\ view'[r].existing = existing /\ view'[r].stamped = stamped
      /\ view'[r].found = view[r].found /\ view'[r].escalated = view[r].escalated
      /\ view'[r].read = view[r].read /\ view'[r].unlocked = view[r].unlocked
      /\ view'[r].approvals = view[r].approvals /\ view'[r].kind = view[r].kind
  BY <1>1 DEF TypeOK, View
<1> HIDE DEF tracked
<1>4. book'[r] = [NoBook EXCEPT !.todo = Wanted(r), !.left = tracked \ Wanted(r),
                                !.closed = ClosedByKey(Wanted(r) \ tracked)]
  BY <1>1 DEF TypeOK
<1>5. /\ book'[r].todo = Wanted(r)
      /\ book'[r].left = tracked \ Wanted(r)
      /\ book'[r].closed = ClosedByKey(Wanted(r) \ tracked)
      /\ book'[r].number = NoNumbers
      /\ book'[r].absorbed = {} /\ book'[r].deferred = {}
      /\ book'[r].raised = 0 /\ book'[r].subjects = {}
  BY <1>4 DEF NoBook
<1>6. ASSUME NEW n \in DOMAIN issues
      PROVE  /\ issues'[n].key = issues[n].key /\ issues'[n].open = issues[n].open
             /\ issues[n].stamp => issues'[n].stamp
             /\ (\E k \in approved : existing[k] = n) => issues'[n].stamp
  <2>1. issues[n] \in Issues
    BY DEF TypeOK
  <2> QED
    BY <1>1, <2>1 DEF Issues
<1>7. \A k \in (view[r].approvals \cap view[r].unlocked) \ Wanted(r) :
        existing[k] # 0 => k \in approved
  BY <1>2 DEF tracked
<1>8. ASSUME NEW n \in DOMAIN issues, NEW k \in (view[r].approvals \cap view[r].unlocked) \ Wanted(r),
             view'[r].existing[k] = n, n # 0
      PROVE  issues'[n].stamp
  BY <1>3, <1>6, <1>7, <1>8
<1>9. DOMAIN issues' = DOMAIN issues
  BY <1>1
<1>10. tracked = {k \in Keys : view'[r].existing[k] # 0}
  BY <1>3 DEF tracked
<1>11. /\ view'[r].existing = IF view[r].read THEN view[r].existing ELSE OpenTracked
       /\ view'[r].stamped = IF view[r].read THEN view[r].stamped ELSE StampedIn(OpenTracked)
  BY <1>3 DEF existing, stamped
<1> HIDE DEF approved
<1> QED
  BY <1>1, <1>3, <1>5, <1>6, <1>8, <1>9, <1>10, <1>11

LEMMA StartTrackingNames ==
  ASSUME TypeOK, Alone, NamesInv, NEW r \in Runs, StartTracking(r)
  PROVE  NamesInv'
<1>1. \A s \in Runs : s = r
  BY DEF Alone
<1>2. book[r].absorbed = {}
  BY DEF StartTracking, NamesInv, NothingBooked, NoBook
<1>2a. /\ view'[r].existing = IF view[r].read THEN view[r].existing ELSE OpenTracked
       /\ book'[r].todo = Wanted(r)
       /\ book'[r].left = {k \in Keys : view'[r].existing[k] # 0} \ Wanted(r)
       /\ book'[r].number = NoNumbers
       /\ book'[r].absorbed = {}
  BY StartTrackingDoes
<1>3. \A n \in DOMAIN issues : n \in DOMAIN issues' /\ issues'[n].key = issues[n].key
  BY StartTrackingDoes
<1>4. Wanted(r)' = Wanted(r)
  BY StartTrackingDoes DEF Wanted
<1>5. ASSUME NEW k \in Keys, view'[r].existing[k] # 0
      PROVE  Carries(view'[r].existing[k], k)
  <2>1. CASE view[r].read
    BY <1>2, <1>2a, <1>5, <2>1 DEF NamesInv, ExistingCarry
  <2>2. CASE ~ view[r].read
    BY <1>2a, <1>5, <2>2, ListedCarry
  <2> QED
    BY <2>1, <2>2
<1>6. Wanted(r) \subseteq Keys
  BY DEF Wanted, TypeOK, View, Keys
<1>7. ASSUME NEW k \in Keys, book'[r].closed[k] # 0
      PROVE  k \in Wanted(r) /\ Carries(book'[r].closed[k], k)
  <2> DEFINE needed == Wanted(r) \ {j \in Keys : view'[r].existing[j] # 0}
  <2>1. book'[r].closed = ClosedByKey(needed) /\ needed \in SUBSET Keys
    BY <1>6, StartTrackingDoes
  <2>2. needed \subseteq Wanted(r)
    OBVIOUS
  <2> HIDE DEF needed
  <2> QED
    BY <1>7, <2>1, <2>2, ListedCarry
<1>8. \A k \in Keys : book'[r].number[k] = 0
  BY <1>2a DEF NoNumbers
<1>9. ExistingCarry'
  BY <1>1, <1>3, <1>5 DEF ExistingCarry, Carries
<1>10. NumbersCarry'
  BY <1>1, <1>3, <1>4, <1>7, <1>8 DEF NumbersCarry, Carries
<1>11. TodoInv'
  BY <1>1, <1>2a, <1>4 DEF TodoInv
<1>12. NothingBooked'
  BY <1>1, StartTrackingDoes DEF NothingBooked
<1> QED
  BY <1>9, <1>10, <1>11, <1>12 DEF NamesInv

-----------------------------------------------------------------------------
(* A step of the reconciliation that renames no issue and goes through the *)
(* keys in order.                                                          *)
LEMMA NamesKept ==
  ASSUME TypeOK, Alone, NamesInv, NEW r \in Runs, UNCHANGED view,
         phase'[r] \in {"tracking", "remember"},
         \A m \in DOMAIN issues : m \in DOMAIN issues' /\ issues'[m].key = issues[m].key,
         book'[r].absorbed = book[r].absorbed, book'[r].closed = book[r].closed,
         book'[r].todo \subseteq book[r].todo, book'[r].left \subseteq book[r].left,
         book'[r].todo # {} => book'[r].left = book[r].left,
         \A k \in Keys :
           \/ book'[r].number[k] = book[r].number[k]
           \/ /\ k \in Wanted(r)
              /\ book'[r].number[k] \in DOMAIN issues'
              /\ issues'[book'[r].number[k]].key = k
  PROVE  NamesInv'
<1>1. \A s \in Runs : s = r
  BY DEF Alone
<1>2. Wanted(r)' = Wanted(r)
  BY DEF Wanted
<1>3. NothingBooked'
  BY <1>1 DEF NothingBooked
<1>4. ExistingCarry'
  BY <1>1 DEF NamesInv, ExistingCarry, Carries
<1>5. NumbersCarry'
  BY <1>1, <1>2 DEF NamesInv, NumbersCarry, Carries
<1>6. TodoInv'
  <2>1. /\ book[r].todo \subseteq Wanted(r)
        /\ book[r].absorbed \cap Wanted(r) = {}
        /\ book[r].left \cap (Wanted(r) \cup book[r].absorbed) = {}
        /\ \A k \in book[r].left : view[r].existing[k] # 0
        /\ book[r].todo # {} =>
             \A k \in Keys :
               view[r].existing[k] # 0 => k \in Wanted(r) \cup book[r].absorbed \cup book[r].left
    BY DEF NamesInv, TodoInv
  <2> QED
    BY <1>1, <1>2, <2>1 DEF TodoInv
<1> QED
  BY <1>3, <1>4, <1>5, <1>6 DEF NamesInv

(* A key that a step tracks by an issue that carries it.                   *)
LEMMA NamesTracked ==
  ASSUME TypeOK, Alone, NamesInv, NEW r \in Runs, NEW key \in Keys, NEW n,
         UNCHANGED <<phase, view>>, Turn(r, key),
         \A m \in DOMAIN issues : m \in DOMAIN issues' /\ issues'[m].key = issues[m].key,
         n \in DOMAIN issues' /\ issues'[n].key = key,
         book'[r].todo = book[r].todo \ {key}, book'[r].left = book[r].left,
         book'[r].number = [book[r].number EXCEPT ![key] = n],
         book'[r].absorbed = book[r].absorbed, book'[r].closed = book[r].closed
  PROVE  NamesInv'
<1>1. key \in Wanted(r)
  BY DEF Turn, First, NamesInv, TodoInv
<1>2. \A k \in Keys :
        \/ book'[r].number[k] = book[r].number[k]
        \/ k \in Wanted(r) /\ book'[r].number[k] \in DOMAIN issues' /\ issues'[book'[r].number[k]].key = k
  BY <1>1 DEF TypeOK, Book
<1>3. phase'[r] \in {"tracking", "remember"}
  BY DEF Turn
<1> QED
  BY <1>2, <1>3, NamesKept

(* A key that is still to be reconciled was not taken over.                *)
LEMMA TurnCarries ==
  ASSUME TypeOK, NamesInv, NEW r \in Runs, NEW key \in Keys, Turn(r, key)
  PROVE  /\ key \in book[r].todo /\ key \in Wanted(r) /\ key \notin book[r].absorbed
         /\ view[r].existing[key] # 0 => Carries(view[r].existing[key], key)
         /\ book[r].closed[key] # 0 => Carries(book[r].closed[key], key)
BY DEF Turn, First, NamesInv, TodoInv, ExistingCarry, NumbersCarry

(* What a step that tracks a key by an issue it read writes to the book.   *)
LEMMA UpdateBooks ==
  ASSUME TypeOK, NEW r \in Runs, NEW key \in Keys, NEW changed \in BOOLEAN, Update(r, key, changed)
  PROVE  /\ book'[r].todo = book[r].todo \ {key} /\ book'[r].left = book[r].left
         /\ book'[r].number = [book[r].number EXCEPT ![key] = view[r].existing[key]]
         /\ book'[r].absorbed = book[r].absorbed /\ book'[r].closed = book[r].closed
         /\ book'[r].deferred = book[r].deferred
         /\ book'[r].raised = book[r].raised /\ book'[r].subjects = book[r].subjects
<1> DEFINE n == view[r].existing[key]
<1>1. book'[r] = Tracked(r, key, n)
  BY UpdateDoes
<1> HIDE DEF n
<1>2. /\ book'[r].todo = book[r].todo \ {key} /\ book'[r].left = book[r].left
      /\ book'[r].number = [book[r].number EXCEPT ![key] = n]
      /\ book'[r].absorbed = book[r].absorbed /\ book'[r].closed = book[r].closed
      /\ book'[r].deferred = book[r].deferred
      /\ book'[r].raised = book[r].raised /\ book'[r].subjects = book[r].subjects
  BY <1>1, TrackedBook
<1> QED
  BY <1>2 DEF n

LEMMA ReopenBooks ==
  ASSUME TypeOK, NEW r \in Runs, NEW key \in Keys, Reopen(r, key)
  PROVE  /\ book'[r].todo = book[r].todo \ {key} /\ book'[r].left = book[r].left
         /\ book'[r].number = [book[r].number EXCEPT ![key] = book[r].closed[key]]
         /\ book'[r].absorbed = book[r].absorbed /\ book'[r].closed = book[r].closed
         /\ book'[r].deferred = book[r].deferred
         /\ book'[r].raised = book[r].raised /\ book'[r].subjects = book[r].subjects
<1> DEFINE n == book[r].closed[key]
<1>1. book'[r] = Tracked(r, key, n)
  BY ReopenDoes
<1> HIDE DEF n
<1>2. /\ book'[r].todo = book[r].todo \ {key} /\ book'[r].left = book[r].left
      /\ book'[r].number = [book[r].number EXCEPT ![key] = n]
      /\ book'[r].absorbed = book[r].absorbed /\ book'[r].closed = book[r].closed
      /\ book'[r].deferred = book[r].deferred
      /\ book'[r].raised = book[r].raised /\ book'[r].subjects = book[r].subjects
  BY <1>1, TrackedBook
<1> QED
  BY <1>2 DEF n

LEMMA UpdateNames ==
  ASSUME TypeOK, Alone, NamesInv, NEW r \in Runs, NEW key \in Keys, NEW changed \in BOOLEAN,
         Update(r, key, changed)
  PROVE  NamesInv'
<1> DEFINE n == view[r].existing[key]
<1>1. Turn(r, key) /\ UNCHANGED <<phase, view>>
  BY DEF Update
<1>2. n \in DOMAIN issues /\ issues[n].key = key
  BY <1>1, TurnCarries, UpdateDoes DEF Carries
<1>3. \A m \in DOMAIN issues : m \in DOMAIN issues' /\ issues'[m].key = issues[m].key
  BY UpdateDoes
<1>4. /\ book'[r].todo = book[r].todo \ {key} /\ book'[r].left = book[r].left
      /\ book'[r].number = [book[r].number EXCEPT ![key] = n]
      /\ book'[r].absorbed = book[r].absorbed /\ book'[r].closed = book[r].closed
  BY UpdateBooks
<1> HIDE DEF n
<1> QED
  BY <1>1, <1>2, <1>3, <1>4, NamesTracked

LEMMA ReopenNames ==
  ASSUME TypeOK, Alone, NamesInv, NEW r \in Runs, NEW key \in Keys, Reopen(r, key)
  PROVE  NamesInv'
<1> DEFINE n == book[r].closed[key]
<1>1. Turn(r, key) /\ UNCHANGED <<phase, view>>
  BY DEF Reopen
<1>2. n \in DOMAIN issues /\ issues[n].key = key
  BY <1>1, TurnCarries, ReopenDoes DEF Carries
<1>3. \A m \in DOMAIN issues : m \in DOMAIN issues' /\ issues'[m].key = issues[m].key
  BY ReopenDoes
<1>4. /\ book'[r].todo = book[r].todo \ {key} /\ book'[r].left = book[r].left
      /\ book'[r].number = [book[r].number EXCEPT ![key] = n]
      /\ book'[r].absorbed = book[r].absorbed /\ book'[r].closed = book[r].closed
  BY ReopenBooks
<1> HIDE DEF n
<1> QED
  BY <1>1, <1>2, <1>3, <1>4, NamesTracked

LEMMA RaiseNames ==
  ASSUME TypeOK, Alone, NamesInv, NEW r \in Runs, NEW key \in Keys, Raise(r, key)
  PROVE  NamesInv'
<1>1. Turn(r, key) /\ UNCHANGED <<phase, view>>
  BY DEF Raise
<1> DEFINE n == Len(issues) + 1
<1>2. /\ n \in DOMAIN issues' /\ issues'[n].key = key
      /\ \A m \in DOMAIN issues : m \in DOMAIN issues' /\ issues'[m].key = issues[m].key
      /\ book'[r].todo = book[r].todo \ {key} /\ book'[r].left = book[r].left
      /\ book'[r].number = [book[r].number EXCEPT ![key] = n]
      /\ book'[r].absorbed = book[r].absorbed /\ book'[r].closed = book[r].closed
  BY RaiseDoes
<1> HIDE DEF n
<1> QED
  BY <1>1, <1>2, NamesTracked

(* The rephrased key takes the issue, which is its own from then on.       *)
LEMMA MigrateNames ==
  ASSUME TypeOK, Alone, NamesInv, NEW r \in Runs, NEW key \in Keys, MigrateTwin(r, key)
  PROVE  NamesInv'
<1>1. Turn(r, key) /\ UNCHANGED <<phase, view>>
  BY DEF MigrateTwin
<1>2. \A s \in Runs : s = r
  BY DEF Alone
<1>3. PICK old \in Keys \ (Wanted(r) \cup book[r].absorbed) :
        /\ view[r].existing[old] # 0
        /\ DOMAIN issues' = DOMAIN issues
        /\ \A m \in DOMAIN issues :
             /\ m # view[r].existing[old] => issues'[m] = issues[m]
             /\ m = view[r].existing[old] => issues'[m].key = key
        /\ book'[r].left = book[r].left \ {old}
        /\ book'[r].number = [book[r].number EXCEPT ![key] = view[r].existing[old]]
        /\ book'[r].absorbed = book[r].absorbed \cup {old}
  BY MigrateDoes
<1> DEFINE n == view[r].existing[old]
<1>4. n \in DOMAIN issues /\ issues[n].key = old
  BY <1>3 DEF NamesInv, ExistingCarry, Carries
<1>5. /\ book'[r].todo = book[r].todo \ {key} /\ book'[r].closed = book[r].closed
      /\ view[r].existing[key] = 0
  BY MigrateDoes
<1>6. Wanted(r)' = Wanted(r) /\ key \in Wanted(r) /\ old \notin Wanted(r)
  BY <1>1, <1>3, TurnCarries DEF Wanted
<1>7. ASSUME NEW k \in Keys \ {old}, NEW m, Carries(m, k)
      PROVE  m \in DOMAIN issues' /\ issues'[m].key = k
  BY <1>3, <1>4, <1>7 DEF Carries
<1>8. ExistingCarry'
  <2> SUFFICES ASSUME NEW k \in Keys, view[r].existing[k] # 0, k \notin book'[r].absorbed
               PROVE  view[r].existing[k] \in DOMAIN issues' /\ issues'[view[r].existing[k]].key = k
    BY <1>1, <1>2 DEF ExistingCarry, Carries
  <2>1. k # old /\ k \notin book[r].absorbed
    BY <1>3
  <2> QED
    BY <1>7, <2>1 DEF NamesInv, ExistingCarry
<1>9. NumbersCarry'
  <2> SUFFICES ASSUME NEW k \in Keys
               PROVE  /\ book'[r].number[k] # 0 =>
                           /\ k \in Wanted(r)
                           /\ book'[r].number[k] \in DOMAIN issues'
                           /\ issues'[book'[r].number[k]].key = k
                      /\ book'[r].closed[k] # 0 =>
                           /\ k \in Wanted(r)
                           /\ book'[r].closed[k] \in DOMAIN issues'
                           /\ issues'[book'[r].closed[k]].key = k
    BY <1>2, <1>6 DEF NumbersCarry, Carries
  <2>1. book[r].number \in [Keys -> 0..MaxIssues]
    BY DEF TypeOK, Book
  <2>2. book'[r].number[k] = IF k = key THEN n ELSE book[r].number[k]
    BY <1>3, <2>1
  <2>3. /\ book[r].number[k] # 0 => k \in Wanted(r) /\ Carries(book[r].number[k], k)
        /\ book[r].closed[k] # 0 => k \in Wanted(r) /\ Carries(book[r].closed[k], k)
    BY DEF NamesInv, NumbersCarry
  <2>4. n \in DOMAIN issues' /\ issues'[n].key = key
    BY <1>3, <1>4
  <2>5. k \in Wanted(r) => k # old
    BY <1>6
  <2> HIDE DEF n
  <2> QED
    BY <1>5, <1>6, <1>7, <2>2, <2>3, <2>4, <2>5
<1>10. TodoInv'
  <2>1. /\ book[r].todo \subseteq Wanted(r)
        /\ book[r].absorbed \cap Wanted(r) = {}
        /\ book[r].left \cap (Wanted(r) \cup book[r].absorbed) = {}
        /\ \A k \in book[r].left : view[r].existing[k] # 0
        /\ book[r].todo # {} =>
             \A k \in Keys :
               view[r].existing[k] # 0 => k \in Wanted(r) \cup book[r].absorbed \cup book[r].left
    BY DEF NamesInv, TodoInv
  <2> QED
    BY <1>1, <1>2, <1>3, <1>5, <1>6, <2>1 DEF TodoInv
<1>11. NothingBooked'
  BY <1>1, <1>2 DEF NothingBooked, Turn
<1> QED
  BY <1>8, <1>9, <1>10, <1>11 DEF NamesInv

-----------------------------------------------------------------------------
(* Putting a finding off and keeping an issue open write to the book only. *)
LEMMA DeferDoes ==
  ASSUME TypeOK, NEW r \in Runs, NEW key \in Keys, Defer(r, key)
  PROVE  /\ issues' = issues
         /\ book'[r].todo = book[r].todo \ {key}
         /\ book'[r].left = book[r].left
         /\ book'[r].number = book[r].number
         /\ book'[r].closed = book[r].closed
         /\ book'[r].absorbed = book[r].absorbed
         /\ book'[r].deferred = book[r].deferred \cup {key}
         /\ book'[r].raised = book[r].raised
         /\ book'[r].subjects = book[r].subjects
<1>1. PICK b \in Book : b = book[r]
  BY DEF TypeOK
<1>2. book'[r] = [b EXCEPT !.todo = @ \ {key}, !.deferred = @ \cup {key}]
  BY <1>1 DEF Defer, TypeOK
<1>3. issues' = issues
  BY DEF Defer
<1> QED
  BY <1>1, <1>2, <1>3 DEF Book

LEMMA KeepOpenDoes ==
  ASSUME TypeOK, NEW r \in Runs, NEW key \in Keys, KeepOpen(r, key)
  PROVE  /\ issues' = issues
         /\ key \in book[r].left /\ book[r].todo = {}
         /\ book'[r].todo = {}
         /\ book'[r].left = book[r].left \ {key}
         /\ book'[r].number = book[r].number
         /\ book'[r].closed = book[r].closed
         /\ book'[r].absorbed = book[r].absorbed
         /\ book'[r].deferred = book[r].deferred
         /\ book'[r].raised = book[r].raised
         /\ book'[r].subjects = book[r].subjects
<1>1. PICK b \in Book : b = book[r]
  BY DEF TypeOK
<1>2. /\ issues' = issues
      /\ key \in book[r].left /\ book[r].todo = {}
  BY DEF KeepOpen, Settles, First
<1>3. book'[r] = [b EXCEPT !.left = @ \ {key},
                           !.kept = Carried(@, key, view[r].known.absent, key \in view[r].speaks),
                           !.bundles = CarriedBundles(@, key, view[r].known.bundles)]
  BY <1>1 DEF KeepOpen, TypeOK
<1> QED
  BY <1>1, <1>2, <1>3 DEF Book

(* Every step once the run's own findings are through.                     *)
LEMMA SettleDoes ==
  ASSUME TypeOK, NEW r \in Runs, NEW key \in Keys,
         KeepOpen(r, key) \/ CloseGone(r, key)
  PROVE  /\ DOMAIN issues' = DOMAIN issues
         /\ \A m \in DOMAIN issues :
              /\ issues'[m].key = issues[m].key /\ issues'[m].stamp = issues[m].stamp
              /\ m # view[r].existing[key] => issues'[m] = issues[m]
              /\ issues'[m].open => issues[m].open
         /\ UNCHANGED <<memory, phase, view, seen>>
         /\ phase[r] = "tracking"
         /\ key \in book[r].left /\ book[r].todo = {} /\ book'[r].todo = {}
         /\ book'[r].left = book[r].left \ {key}
         /\ book'[r].number = book[r].number
         /\ book'[r].closed = book[r].closed
         /\ book'[r].absorbed = book[r].absorbed
         /\ book'[r].deferred = book[r].deferred
         /\ book'[r].raised = book[r].raised
         /\ book'[r].subjects = book[r].subjects
<1>1. UNCHANGED <<memory, phase, view, seen>> /\ phase[r] = "tracking"
  BY DEF KeepOpen, CloseGone, Settles
<1>2. CASE KeepOpen(r, key)
  BY <1>1, <1>2, KeepOpenDoes
<1>3. CASE CloseGone(r, key)
  <2>1. /\ DOMAIN issues' = DOMAIN issues
        /\ \A m \in DOMAIN issues :
             /\ issues'[m].key = issues[m].key /\ issues'[m].stamp = issues[m].stamp
             /\ m # view[r].existing[key] => issues'[m] = issues[m]
             /\ issues'[m].open => issues[m].open
        /\ key \in book[r].left /\ book[r].todo = {}
    BY <1>3, CloseDoes
  <2>2. book'[r] = [book[r] EXCEPT !.left = @ \ {key}] /\ book[r] \in Book
    BY <1>3, CloseDoes DEF TypeOK
  <2>3. /\ book'[r].todo = book[r].todo
        /\ book'[r].left = book[r].left \ {key}
        /\ book'[r].number = book[r].number
        /\ book'[r].closed = book[r].closed
        /\ book'[r].absorbed = book[r].absorbed
        /\ book'[r].deferred = book[r].deferred
        /\ book'[r].raised = book[r].raised
        /\ book'[r].subjects = book[r].subjects
    BY <2>2 DEF Book
  <2> QED
    BY <1>1, <2>1, <2>3
<1> QED
  BY <1>2, <1>3

(* Closing an issue that another key's issue replaces.                     *)
LEMMA ReplaceDoes ==
  ASSUME TypeOK, NEW r \in Runs, NEW old \in Keys, CloseSuperseded(r, old)
  PROVE  /\ DOMAIN issues' = DOMAIN issues
         /\ \A m \in DOMAIN issues :
              /\ issues'[m].key = issues[m].key /\ issues'[m].stamp = issues[m].stamp
              /\ m # view[r].existing[old] => issues'[m] = issues[m]
              /\ issues'[m].open => issues[m].open
         /\ UNCHANGED <<memory, phase, seen>>
         /\ phase[r] = "tracking"
         /\ view[r].existing[old] # 0
         /\ \E k \in Wanted(r) : book[r].number[k] # 0 /\ old \in Supersedes[k]
         /\ book[r].todo = {} /\ book'[r].todo = {}
         /\ book'[r].left = book[r].left \ {old}
         /\ book'[r].number = book[r].number
         /\ book'[r].closed = book[r].closed
         /\ book'[r].absorbed = book[r].absorbed
         /\ book'[r].deferred = book[r].deferred
         /\ book'[r].raised = book[r].raised
         /\ book'[r].subjects = book[r].subjects
         /\ book'[r].bundles = book[r].bundles
<1> DEFINE n == view[r].existing[old]
<1>1. /\ issues' = [issues EXCEPT ![n].open = FALSE]
      /\ book' = [book EXCEPT ![r].left = @ \ {old}]
      /\ UNCHANGED <<memory, phase, seen>> /\ phase[r] = "tracking" /\ book[r].todo = {}
      /\ view[r].existing[old] # 0
      /\ \E k \in Wanted(r) : book[r].number[k] # 0 /\ old \in Supersedes[k]
  BY DEF CloseSuperseded, Superseded
<1>2. book'[r] = [book[r] EXCEPT !.left = @ \ {old}] /\ book[r] \in Book
  BY <1>1 DEF TypeOK
<1>3. /\ book'[r].todo = book[r].todo
      /\ book'[r].left = book[r].left \ {old}
      /\ book'[r].number = book[r].number
      /\ book'[r].closed = book[r].closed
      /\ book'[r].absorbed = book[r].absorbed
      /\ book'[r].deferred = book[r].deferred
      /\ book'[r].raised = book[r].raised
      /\ book'[r].subjects = book[r].subjects
      /\ book'[r].bundles = book[r].bundles
  BY <1>2 DEF Book
<1> HIDE DEF n
<1>4. /\ DOMAIN issues' = DOMAIN issues
      /\ \A m \in DOMAIN issues :
           /\ issues'[m].key = issues[m].key /\ issues'[m].stamp = issues[m].stamp
           /\ IF m = n THEN issues'[m].open = FALSE ELSE issues'[m] = issues[m]
  BY <1>1, OpenWrite
<1> QED
  BY <1>1, <1>3, <1>4 DEF n

-----------------------------------------------------------------------------
LEMMA DeferNames ==
  ASSUME TypeOK, Alone, NamesInv, NEW r \in Runs, NEW key \in Keys, Defer(r, key)
  PROVE  NamesInv'
<1>1. UNCHANGED view /\ phase'[r] \in {"tracking", "remember"}
  BY DEF Defer, Turn
<1>2. \A m \in DOMAIN issues : m \in DOMAIN issues' /\ issues'[m].key = issues[m].key
  BY DeferDoes
<1>3. /\ book'[r].absorbed = book[r].absorbed /\ book'[r].closed = book[r].closed
      /\ book'[r].todo \subseteq book[r].todo /\ book'[r].left = book[r].left
      /\ book'[r].number = book[r].number
  BY DeferDoes
<1> QED
  BY <1>1, <1>2, <1>3, NamesKept

LEMMA SettleNames ==
  ASSUME TypeOK, Alone, NamesInv, NEW r \in Runs, NEW key \in Keys,
         KeepOpen(r, key) \/ CloseGone(r, key)
  PROVE  NamesInv'
<1>1. UNCHANGED view /\ phase'[r] \in {"tracking", "remember"}
  BY SettleDoes
<1>2. \A m \in DOMAIN issues : m \in DOMAIN issues' /\ issues'[m].key = issues[m].key
  BY SettleDoes
<1>3. /\ book'[r].absorbed = book[r].absorbed /\ book'[r].closed = book[r].closed
      /\ book'[r].todo = {} /\ book'[r].left \subseteq book[r].left
      /\ book'[r].number = book[r].number
  BY SettleDoes
<1> QED
  BY <1>1, <1>2, <1>3, NamesKept

LEMMA ReplaceNames ==
  ASSUME TypeOK, Alone, NamesInv, NEW r \in Runs, NEW old \in Keys, CloseSuperseded(r, old)
  PROVE  NamesInv'
<1>1. \A s \in Runs : s = r
  BY DEF Alone
<1>2. /\ DOMAIN issues' = DOMAIN issues
      /\ \A m \in DOMAIN issues : issues'[m].key = issues[m].key
      /\ UNCHANGED phase /\ phase[r] = "tracking"
      /\ book'[r].todo = {} /\ book'[r].left = book[r].left \ {old}
      /\ book'[r].number = book[r].number /\ book'[r].closed = book[r].closed
      /\ book'[r].absorbed = book[r].absorbed
  BY ReplaceDoes
<1>3. /\ view[r].existing \in [Keys -> 0..MaxIssues]
      /\ view'[r].existing = [view[r].existing EXCEPT ![old] = 0]
      /\ view'[r].found = view[r].found /\ view'[r].escalated = view[r].escalated
  BY ReplaceView DEF TypeOK, View
<1>4. \A k \in Keys : view'[r].existing[k] = IF k = old THEN 0 ELSE view[r].existing[k]
  BY <1>3
<1>5. NothingBooked'
  BY <1>1, <1>2 DEF NothingBooked
<1>6. ExistingCarry'
  BY <1>1, <1>2, <1>4 DEF NamesInv, ExistingCarry, Carries
<1>7. Wanted(r)' = Wanted(r)
  BY <1>3 DEF Wanted
<1>8. NumbersCarry'
  BY <1>1, <1>2, <1>7 DEF NamesInv, NumbersCarry, Carries
<1>9. TodoInv'
  <2>1. /\ book[r].absorbed \cap Wanted(r) = {}
        /\ book[r].left \cap (Wanted(r) \cup book[r].absorbed) = {}
        /\ \A k \in book[r].left : view[r].existing[k] # 0
        /\ book[r].left \subseteq Keys
    BY DEF NamesInv, TodoInv, TypeOK, Book
  <2> QED
    BY <1>1, <1>2, <1>4, <1>7, <2>1 DEF TodoInv
<1> QED
  BY <1>5, <1>6, <1>8, <1>9 DEF NamesInv

(* A call that is refused leaves the names alone, also a reopening that    *)
(* was cut short.                                                          *)
LEMMA CutDoes ==
  ASSUME TypeOK, NEW r \in Runs, NEW key \in Keys, ReopenCut(r, key)
  PROVE  /\ UNCHANGED <<view, book, memory, seen>> /\ phase'[r] = "remember"
         /\ DOMAIN issues' = DOMAIN issues
         /\ \A m \in DOMAIN issues : issues'[m].key = issues[m].key
<1>1. UNCHANGED <<view, book, memory, seen>> /\ phase'[r] = "remember"
  BY DEF ReopenCut, TypeOK, Turn
<1>2. DOMAIN issues' = DOMAIN issues /\ \A m \in DOMAIN issues : issues'[m].key = issues[m].key
  BY ReopenDoes
<1> QED
  BY <1>1, <1>2

LEMMA WrongNames ==
  ASSUME TypeOK, Alone, NamesInv, NEW r \in Runs, GoesWrong(r)
  PROVE  NamesInv'
<1>1. CASE (\E k \in Keys : ReopenCut(r, k)) \/ PlatformFails(r)
  <2>1. PICK k : (k \in Keys /\ ReopenCut(r, k)) \/ PlatformFails(r)
    BY <1>1
  <2>2. /\ UNCHANGED <<view, book>> /\ phase'[r] = "remember"
        /\ \A m \in DOMAIN issues : m \in DOMAIN issues' /\ issues'[m].key = issues[m].key
    <3>1. CASE PlatformFails(r)
      BY <3>1 DEF PlatformFails, TypeOK
    <3>2. CASE k \in Keys /\ ReopenCut(r, k)
      BY <3>2, CutDoes
    <3> QED
      BY <2>1, <3>1, <3>2
  <2> QED
    BY <2>2, NamesKept
<1>2. CASE Forget(r) \/ IdentityFails(r) \/ Crash(r)
  <2>1. phase'[r] = "idle" /\ view'[r] = NoView /\ book'[r] = NoBook
    BY <1>2 DEF Forget, IdentityFails, Crash, Leave, TypeOK
  <2> QED
    BY <2>1, LeaveNames
<1> QED
  BY <1>1, <1>2 DEF GoesWrong

LEMMA StillNames ==
  ASSUME NamesInv, UNCHANGED <<phase, view, book>>,
         \A m \in DOMAIN issues : m \in DOMAIN issues' /\ issues'[m].key = issues[m].key
  PROVE  NamesInv'
<1>1. NothingBooked'
  BY DEF NamesInv, NothingBooked
<1>2. ExistingCarry' /\ NumbersCarry'
  BY DEF NamesInv, ExistingCarry, NumbersCarry, Carries, Wanted
<1>3. TodoInv'
  BY DEF NamesInv, TodoInv, Wanted
<1> QED
  BY <1>1, <1>2, <1>3 DEF NamesInv

LEMMA NamesStep == Alone /\ TypeOK /\ NamesInv /\ [Next]_vars => NamesInv'
<1> SUFFICES ASSUME Alone, TypeOK, NamesInv, [Next]_vars
             PROVE  NamesInv'
  OBVIOUS
<1>1. ASSUME NEW r \in Runs, Start(r) PROVE NamesInv'
  BY <1>1, BeginNames DEF Start
<1>2. ASSUME NEW r \in Runs, Analyse(r) PROVE NamesInv'
  BY <1>2, ConcludeNames DEF Analyse
<1>3. ASSUME NEW r \in Runs, Reconcile(r) PROVE NamesInv'
  BY <1>3, UpdateNames, MigrateNames, ReopenNames, DeferNames, RaiseNames, SettleNames,
     ReplaceNames DEF Reconcile
<1>4. ASSUME NEW r \in Runs, Halt(r) \/ Remember(r) PROVE NamesInv'
  <2>1. phase'[r] = "idle" /\ view'[r] = NoView /\ book'[r] = NoBook
    BY <1>4 DEF Halt, Remember, Leave, TypeOK, NamesInv, NothingBooked
  <2> QED
    BY <2>1, LeaveNames
<1>5. ASSUME NEW r \in Runs, Progress(r) PROVE NamesInv'
  BY <1>1, <1>2, <1>3, <1>4, <1>5, StartTrackingNames DEF Progress
<1>6. CASE Persons
  BY <1>6, PersonDoes, StillNames
<1>7. CASE UNCHANGED vars
  BY <1>7, StillNames DEF vars
<1> QED
  BY <1>5, <1>6, <1>7, WrongNames DEF Next

(* As long as runs follow one another, every number a run holds is that of *)
(* an issue with the key the run holds it under.                           *)
THEOREM NamesAreRight ==
  ASSUME Alone
  PROVE  Spec => []NamesInv
<1>1. TypeOK /\ NamesInv /\ [Next]_vars => NamesInv'
  BY NamesStep
<1> QED
  BY <1>1, NamesInit, TypeCorrect, PTL DEF Spec

(* An issue of an older key is closed as replaced only when the finding    *)
(* that replaces it has an issue of its own.                               *)
THEOREM SupersededAreReplaced ==
  ASSUME Alone
  PROVE  Spec => SupersededIsReplaced
<1> DEFINE Replaced ==
      \A r \in Runs, old \in Keys :
        CloseSuperseded(r, old) =>
          \E k \in Wanted(r) : old \in Supersedes[k] /\ OpenOf(k) \cup ClosedOf(k) # {}
<1>1. TypeOK /\ NamesInv => Replaced
  <2> SUFFICES ASSUME TypeOK, NamesInv, NEW r \in Runs, NEW old \in Keys, old \in Superseded(r)
               PROVE  \E k \in Wanted(r) : old \in Supersedes[k] /\ OpenOf(k) \cup ClosedOf(k) # {}
    BY DEF CloseSuperseded, First
  <2>1. PICK k \in Wanted(r) : book[r].number[k] # 0 /\ old \in Supersedes[k]
    BY DEF Superseded
  <2>2. k \in Keys
    BY DEF Wanted, TypeOK, View, Keys
  <2>3. Carries(book[r].number[k], k)
    BY <2>1, <2>2 DEF NamesInv, NumbersCarry
  <2>4. book[r].number[k] \in OpenOf(k) \cup ClosedOf(k)
    BY <2>3 DEF Carries, OpenOf, ClosedOf
  <2> QED
    BY <2>1, <2>4
<1>2. TypeOK /\ NamesInv => [Replaced]_vars
  BY <1>1
<1> QED
  BY <1>2, TypeCorrect, NamesAreRight, PTL DEF SupersededIsReplaced

-----------------------------------------------------------------------------
(* One conversation: a key that is still to be reconciled has no open      *)
(* issue but the one the run read.                                         *)

InheritedOnce ==
  \A m, n \in DOMAIN Inherited :
    Inherited[m].open /\ Inherited[n].open /\ Inherited[m].key = Inherited[n].key => m = n

(* What is listed of a key is its one open issue.                          *)
LEMMA ListedIsOnly ==
  ASSUME TypeOK, OneOpenIssue, NEW k \in Keys
  PROVE  OpenOf(k) \subseteq {OpenTracked[k]}
<1> SUFFICES ASSUME NEW n \in OpenOf(k) PROVE n = OpenTracked[k]
  OBVIOUS
<1>1. OpenTracked[k] \in OpenOf(k)
  BY ListedNumbers
<1> QED
  BY <1>1 DEF OpenOf, OneOpenIssue

LEMMA OneInit == InheritedOnce /\ Init => OneInv
<1> SUFFICES ASSUME InheritedOnce, Init PROVE OneInv
  OBVIOUS
<1>1. OneOpenIssue
  BY DEF Init, InheritedOnce, OneOpenIssue
<1>2. OneRead
  BY DEF Init, OneRead, Pending, Listed
<1> QED
  BY <1>1, <1>2 DEF OneInv

(* A step that opens no issue.                                             *)
LEMMA OneKept ==
  ASSUME Alone, OneInv, NEW r \in Runs,
         \A m \in DOMAIN issues' :
           issues'[m].open => m \in DOMAIN issues /\ issues[m].open /\ issues'[m].key = issues[m].key,
         \A k \in Keys : Pending(r, k)' => Pending(r, k) /\ view'[r].existing[k] = view[r].existing[k]
  PROVE  OneInv'
<1>1. \A s \in Runs : s = r
  BY DEF Alone
<1>2. OneOpenIssue'
  BY DEF OneInv, OneOpenIssue
<1>3. OneRead'
  <2> SUFFICES ASSUME NEW k \in Keys, Pending(r, k)', NEW m \in OpenOf(k)'
               PROVE  m = view'[r].existing[k]
    BY <1>1 DEF OneRead
  <2>1. m \in OpenOf(k)
    BY DEF OpenOf
  <2>2. Pending(r, k) /\ view'[r].existing[k] = view[r].existing[k]
    OBVIOUS
  <2> QED
    BY <2>1, <2>2 DEF OneInv, OneRead
<1> QED
  BY <1>2, <1>3 DEF OneInv

(* A step that gives a key without an open issue one.                      *)
LEMMA OneOpened ==
  ASSUME TypeOK, Alone, OneInv, NEW r \in Runs, NEW key \in Keys, NEW n,
         Turn(r, key), view[r].existing[key] = 0,
         n \in DOMAIN issues' => issues'[n].key = key,
         \A m \in DOMAIN issues' \ {n} :
           issues'[m].open => m \in DOMAIN issues /\ issues[m].open /\ issues'[m].key = issues[m].key,
         \A k \in Keys :
           Pending(r, k)' => Pending(r, k) /\ k # key /\ view'[r].existing[k] = view[r].existing[k]
  PROVE  OneInv'
<1>1. \A s \in Runs : s = r
  BY DEF Alone
<1>2. OpenOf(key) = {}
  <2>1. OpenOf(key) \subseteq {0}
    BY DEF Turn, First, Pending, OneInv, OneRead
  <2> QED
    BY <2>1, IssueTypes DEF OpenOf
<1>3. \A m \in DOMAIN issues' \ {n} : issues'[m].open => issues'[m].key # key
  BY <1>2 DEF OpenOf
<1>4. OneOpenIssue'
  BY <1>3 DEF OneInv, OneOpenIssue
<1>5. OneRead'
  <2> SUFFICES ASSUME NEW k \in Keys, Pending(r, k)', NEW m \in OpenOf(k)'
               PROVE  m = view'[r].existing[k]
    BY <1>1 DEF OneRead
  <2>1. m # n /\ m \in OpenOf(k)
    BY DEF OpenOf
  <2>2. Pending(r, k) /\ view'[r].existing[k] = view[r].existing[k]
    OBVIOUS
  <2> QED
    BY <2>1, <2>2 DEF OneInv, OneRead
<1> QED
  BY <1>4, <1>5 DEF OneInv

(* Nothing is pending once a run has ended or given up.                    *)
LEMMA OneLeft ==
  ASSUME Alone, OneInv, NEW r \in Runs, phase'[r] \in {"idle", "remember"},
         \A m \in DOMAIN issues' :
           issues'[m].open => m \in DOMAIN issues /\ issues[m].open /\ issues'[m].key = issues[m].key
  PROVE  OneInv'
<1>1. \A k \in Keys : ~ Pending(r, k)'
  BY DEF Pending, Listed
<1> QED
  BY <1>1, OneKept

LEMMA BeginOne ==
  ASSUME TypeOK, Alone, OneInv, NEW r \in Runs, NEW kind \in Kinds, NEW asked \in SUBSET Keys,
         NEW unlock \in BOOLEAN, NEW read \in BOOLEAN, Begin(r, kind, asked, unlock, read)
  PROVE  OneInv'
<1>1. \A s \in Runs : s = r
  BY DEF Alone
<1>2. /\ issues' = issues /\ phase'[r] = "analysing" /\ view'[r].read = read
      /\ view'[r].existing = IF read THEN OpenTracked ELSE NoNumbers
  BY DEF Begin, TypeOK, NoView
<1>3. \A k \in Keys : OpenOf(k) \subseteq {OpenTracked[k]}
  BY ListedIsOnly DEF OneInv
<1>4. \A k \in Keys : OpenOf(k)' = OpenOf(k)
  BY <1>2 DEF OpenOf
<1>5. OneRead'
  BY <1>1, <1>2, <1>3, <1>4 DEF OneRead, Pending, Listed
<1>6. OneOpenIssue'
  BY <1>2 DEF OneInv, OneOpenIssue
<1> QED
  BY <1>5, <1>6 DEF OneInv

LEMMA ConcludeOne ==
  ASSUME TypeOK, Alone, OneInv, NEW r \in Runs,
         NEW outcomes, NEW found, NEW short, NEW recalled,
         Conclude(r, outcomes, found, short, recalled)
  PROVE  OneInv'
<1>1. /\ issues' = issues /\ phase[r] = "analysing" /\ phase'[r] = "concluded"
      /\ view'[r].existing = view[r].existing /\ view'[r].read = view[r].read
  BY DEF Conclude, TypeOK, View
<1>2. \A k \in Keys : Pending(r, k)' => Pending(r, k)
  BY <1>1 DEF Pending, Listed
<1> QED
  BY <1>1, <1>2, OneKept

LEMMA StartTrackingOne ==
  ASSUME TypeOK, Alone, OneInv, NEW r \in Runs, StartTracking(r)
  PROVE  OneInv'
<1>1. \A s \in Runs : s = r
  BY DEF Alone
<1>2. /\ DOMAIN issues' = DOMAIN issues
      /\ \A n \in DOMAIN issues : issues'[n].key = issues[n].key /\ issues'[n].open = issues[n].open
      /\ view'[r].existing = IF view[r].read THEN view[r].existing ELSE OpenTracked
      /\ phase[r] = "concluded"
  BY StartTrackingDoes
<1>3. \A k \in Keys : OpenOf(k)' = OpenOf(k)
  BY <1>2 DEF OpenOf
<1>4. \A k \in Keys : OpenOf(k) \subseteq {OpenTracked[k]}
  BY ListedIsOnly DEF OneInv
<1>5. view[r].read => \A k \in Keys : OpenOf(k) \subseteq {view[r].existing[k]}
  BY <1>2 DEF OneInv, OneRead, Pending, Listed
<1>6. OneRead'
  BY <1>1, <1>2, <1>3, <1>4, <1>5 DEF OneRead
<1>7. OneOpenIssue'
  BY <1>2 DEF OneInv, OneOpenIssue
<1> QED
  BY <1>6, <1>7 DEF OneInv

LEMMA UpdateOne ==
  ASSUME TypeOK, Alone, OneInv, NEW r \in Runs, NEW key \in Keys, NEW changed \in BOOLEAN,
         Update(r, key, changed)
  PROVE  OneInv'
<1>1. /\ DOMAIN issues' = DOMAIN issues
      /\ \A m \in DOMAIN issues : issues'[m].key = issues[m].key /\ issues'[m].open = issues[m].open
  BY UpdateDoes
<1>2. book'[r].todo \subseteq book[r].todo
  BY UpdateBooks
<1>3. UNCHANGED <<phase, view>>
  BY DEF Update
<1>4. \A k \in Keys : Pending(r, k)' => Pending(r, k)
  BY <1>2, <1>3 DEF Pending, Listed
<1> QED
  BY <1>1, <1>3, <1>4, OneKept

(* A key that has had its turn is no longer pending.                       *)
LEMMA PendingLess ==
  ASSUME NEW r \in Runs, NEW key \in Keys, Turn(r, key), UNCHANGED <<phase, view>>,
         book'[r].todo = book[r].todo \ {key}
  PROVE  \A k \in Keys :
           Pending(r, k)' => Pending(r, k) /\ k # key /\ view'[r].existing[k] = view[r].existing[k]
BY DEF Pending, Listed, Turn

LEMMA MigrateOne ==
  ASSUME TypeOK, NamesInv, Alone, OneInv, NEW r \in Runs, NEW key \in Keys, MigrateTwin(r, key)
  PROVE  OneInv'
<1>1. Turn(r, key) /\ UNCHANGED <<phase, view>>
  BY DEF MigrateTwin
<1>2. PICK old \in Keys \ (Wanted(r) \cup book[r].absorbed) :
        /\ view[r].existing[old] # 0
        /\ DOMAIN issues' = DOMAIN issues
        /\ \A m \in DOMAIN issues :
             /\ m # view[r].existing[old] => issues'[m] = issues[m]
             /\ m = view[r].existing[old] => issues'[m].key = key
        /\ book'[r].left = book[r].left \ {old}
        /\ book'[r].number = [book[r].number EXCEPT ![key] = view[r].existing[old]]
        /\ book'[r].absorbed = book[r].absorbed \cup {old}
  BY MigrateDoes
<1> DEFINE n == view[r].existing[old]
<1>2a. /\ n \in DOMAIN issues' => issues'[n].key = key
       /\ \A m \in DOMAIN issues' \ {n} : m \in DOMAIN issues /\ issues'[m] = issues[m]
  BY <1>2
<1> HIDE DEF n
<1>3. view[r].existing[key] = 0 /\ book'[r].todo = book[r].todo \ {key}
  BY MigrateDoes
<1>4. \A k \in Keys :
        Pending(r, k)' => Pending(r, k) /\ k # key /\ view'[r].existing[k] = view[r].existing[k]
  BY <1>1, <1>3, PendingLess
<1> QED
  BY <1>1, <1>2a, <1>3, <1>4, OneOpened

LEMMA ReopenOne ==
  ASSUME TypeOK, NamesInv, Alone, OneInv, NEW r \in Runs, NEW key \in Keys,
         Reopen(r, key) \/ ReopenCut(r, key)
  PROVE  OneInv'
<1> DEFINE n == book[r].closed[key]
<1>1. Turn(r, key) /\ UNCHANGED view
  BY DEF Reopen, ReopenCut
<1>2. /\ view[r].existing[key] = 0
      /\ DOMAIN issues' = DOMAIN issues
      /\ \A m \in DOMAIN issues :
           issues'[m].key = issues[m].key /\ (m # n => issues'[m] = issues[m])
      /\ n # 0
  BY ReopenDoes
<1>3. issues[n].key = key
  BY <1>1, <1>2, TurnCarries DEF Carries
<1>4. \A k \in Keys :
        Pending(r, k)' => Pending(r, k) /\ k # key /\ view'[r].existing[k] = view[r].existing[k]
  <2>1. CASE Reopen(r, key)
    <3>1. UNCHANGED <<phase, view>>
      BY <2>1 DEF Reopen
    <3>2. book'[r].todo = book[r].todo \ {key}
      BY <2>1, ReopenBooks
    <3> QED
      BY <1>1, <3>1, <3>2, PendingLess
  <2>2. CASE ReopenCut(r, key)
    <3>1. phase'[r] = "remember"
      BY <2>2, CutDoes
    <3> QED
      BY <3>1 DEF Pending, Listed
  <2> QED
    BY <2>1, <2>2
<1> HIDE DEF n
<1> QED
  BY <1>1, <1>2, <1>3, <1>4, OneOpened

LEMMA RaiseOne ==
  ASSUME TypeOK, Alone, OneInv, NEW r \in Runs, NEW key \in Keys, Raise(r, key)
  PROVE  OneInv'
<1> DEFINE n == Len(issues) + 1
<1>1. Turn(r, key) /\ UNCHANGED <<phase, view>>
  BY DEF Raise
<1>2. /\ view[r].existing[key] = 0
      /\ DOMAIN issues' = DOMAIN issues \cup {n}
      /\ \A m \in DOMAIN issues : issues'[m] = issues[m]
      /\ issues'[n].key = key
      /\ book'[r].todo = book[r].todo \ {key}
  BY RaiseDoes
<1> HIDE DEF n
<1>3. \A k \in Keys :
        Pending(r, k)' => Pending(r, k) /\ k # key /\ view'[r].existing[k] = view[r].existing[k]
  BY <1>1, <1>2, PendingLess
<1> QED
  BY <1>1, <1>2, <1>3, OneOpened

LEMMA DeferOne ==
  ASSUME TypeOK, Alone, OneInv, NEW r \in Runs, NEW key \in Keys, Defer(r, key)
  PROVE  OneInv'
<1>1. issues' = issues /\ book'[r].todo \subseteq book[r].todo
  BY DeferDoes
<1>2. UNCHANGED <<phase, view>>
  BY DEF Defer
<1>3. \A k \in Keys : Pending(r, k)' => Pending(r, k)
  BY <1>1, <1>2 DEF Pending, Listed
<1> QED
  BY <1>1, <1>2, <1>3, OneKept

LEMMA SettleOne ==
  ASSUME TypeOK, Alone, OneInv, NEW r \in Runs, NEW key \in Keys,
         KeepOpen(r, key) \/ CloseGone(r, key)
  PROVE  OneInv'
<1>1. /\ DOMAIN issues' = DOMAIN issues
      /\ \A m \in DOMAIN issues :
           issues'[m].key = issues[m].key /\ (issues'[m].open => issues[m].open)
  BY SettleDoes
<1>2. UNCHANGED <<phase, view>> /\ book[r].todo = {} /\ book'[r].todo = {}
  BY SettleDoes
<1>3. \A k \in Keys : Pending(r, k)' => Pending(r, k)
  BY <1>2 DEF Pending, Listed
<1> QED
  BY <1>1, <1>2, <1>3, OneKept

LEMMA ReplaceOne ==
  ASSUME TypeOK, Alone, OneInv, NEW r \in Runs, NEW old \in Keys, CloseSuperseded(r, old)
  PROVE  OneInv'
<1>1. /\ DOMAIN issues' = DOMAIN issues
      /\ \A m \in DOMAIN issues :
           issues'[m].key = issues[m].key /\ (issues'[m].open => issues[m].open)
      /\ UNCHANGED phase /\ phase[r] = "tracking" /\ book'[r].todo = {}
  BY ReplaceDoes
<1>2. \A k \in Keys : ~ Pending(r, k)'
  BY <1>1 DEF Pending, Listed
<1> QED
  BY <1>1, <1>2, OneKept

LEMMA EndOne ==
  ASSUME TypeOK, Alone, OneInv, NEW r \in Runs,
         Halt(r) \/ Remember(r) \/ Forget(r) \/ PlatformFails(r) \/ IdentityFails(r) \/ Crash(r)
  PROVE  OneInv'
<1>1. issues' = issues /\ phase'[r] \in {"idle", "remember"}
  BY DEF Halt, Remember, Forget, PlatformFails, IdentityFails, Crash, Leave, TypeOK
<1> QED
  BY <1>1, OneLeft

LEMMA StillOne ==
  ASSUME OneInv, UNCHANGED <<phase, view, book>>,
         \A m \in DOMAIN issues' :
           issues'[m].open => m \in DOMAIN issues /\ issues[m].open /\ issues'[m].key = issues[m].key
  PROVE  OneInv'
<1>1. OneOpenIssue'
  BY DEF OneInv, OneOpenIssue
<1>2. OneRead'
  BY DEF OneInv, OneRead, OpenOf, Pending, Listed
<1> QED
  BY <1>1, <1>2 DEF OneInv

LEMMA OneStep ==
  Alone /\ "reopen" \notin People /\ TypeOK /\ NamesInv /\ OneInv /\ [Next]_vars => OneInv'
<1> SUFFICES ASSUME Alone, "reopen" \notin People, TypeOK, NamesInv, OneInv, [Next]_vars
             PROVE  OneInv'
  OBVIOUS
<1>1. ASSUME NEW r \in Runs, Start(r) PROVE OneInv'
  BY <1>1, BeginOne DEF Start
<1>2. ASSUME NEW r \in Runs, Analyse(r) PROVE OneInv'
  BY <1>2, ConcludeOne DEF Analyse
<1>3. ASSUME NEW r \in Runs, Reconcile(r) PROVE OneInv'
  BY <1>3, UpdateOne, MigrateOne, ReopenOne, DeferOne, RaiseOne, SettleOne,
     ReplaceOne DEF Reconcile
<1>4. ASSUME NEW r \in Runs, Progress(r) PROVE OneInv'
  BY <1>1, <1>2, <1>3, <1>4, StartTrackingOne, EndOne DEF Progress
<1>5. ASSUME NEW r \in Runs, GoesWrong(r) PROVE OneInv'
  BY <1>5, ReopenOne, EndOne DEF GoesWrong
<1>6. CASE Persons
  <2>1. /\ UNCHANGED <<phase, view, book>> /\ DOMAIN issues' = DOMAIN issues
        /\ \A m \in DOMAIN issues :
             issues'[m].key = issues[m].key /\ (issues'[m].open => issues[m].open)
    BY <1>6, PersonDoes
  <2> QED
    BY <2>1, StillOne
<1>7. CASE UNCHANGED vars
  BY <1>7, StillOne DEF vars
<1> QED
  BY <1>4, <1>5, <1>6, <1>7 DEF Next

(* Two open issues never carry one key, as long as runs follow one another *)
(* and nobody reopens an issue by hand.                                    *)
THEOREM OneConversation ==
  ASSUME Alone, "reopen" \notin People, InheritedOnce
  PROVE  Spec => []OneOpenIssue
<1>1. Init => OneInv
  BY OneInit
<1>2. TypeOK /\ NamesInv /\ OneInv /\ [Next]_vars => OneInv'
  BY OneStep
<1>3. OneInv => OneOpenIssue
  BY DEF OneInv
<1> QED
  BY <1>1, <1>2, <1>3, TypeCorrect, NamesAreRight, PTL DEF Spec

-----------------------------------------------------------------------------
(* What became of an issue whose name a run changed: it carries a key that *)
(* the run lists and that names the same code.                             *)

LEMMA AbsorbedKept ==
  ASSUME Alone, AbsorbedCarry, NEW r \in Runs, phase[r] = "tracking",
         Wanted(r)' = Wanted(r),
         \A k \in Keys : view'[r].existing[k] # 0 => view'[r].existing[k] = view[r].existing[k],
         book'[r].absorbed = book[r].absorbed,
         \A m \in DOMAIN issues : m \in DOMAIN issues' /\ issues'[m].key = issues[m].key
  PROVE  AbsorbedCarry'
<1>1. \A s \in Runs : s = r
  BY DEF Alone
<1> QED
  BY <1>1 DEF AbsorbedCarry

LEMMA MigrateAbsorbed ==
  ASSUME TypeOK, Alone, NamesInv, AbsorbedCarry, NEW r \in Runs, NEW key \in Keys,
         MigrateTwin(r, key)
  PROVE  AbsorbedCarry'
<1>1. \A s \in Runs : s = r
  BY DEF Alone
<1>2. Turn(r, key) /\ UNCHANGED <<phase, view>>
  BY DEF MigrateTwin
<1>3. PICK o \in Keys \ (Wanted(r) \cup book[r].absorbed) :
        LET n == view[r].existing[o]
        IN  /\ n # 0
            /\ FingerprintOf[o] = FingerprintOf[key]
            /\ DOMAIN issues' = DOMAIN issues
            /\ \A m \in DOMAIN issues :
                 /\ issues'[m].open = issues[m].open
                 /\ m # n => issues'[m] = issues[m]
                 /\ m = n => issues'[m].key = key
            /\ book'[r].left = book[r].left \ {o}
            /\ book'[r].number = [book[r].number EXCEPT ![key] = n]
            /\ book'[r].absorbed = book[r].absorbed \cup {o}
  BY MigrateDoes
<1>4. key \in Wanted(r) /\ phase[r] = "tracking"
  BY <1>2, TurnCarries DEF Turn
<1>5. Carries(view[r].existing[o], o)
  BY <1>3 DEF NamesInv, ExistingCarry
<1>6. Wanted(r)' = Wanted(r)
  BY <1>2 DEF Wanted
<1>7. ASSUME NEW old \in Keys, old \in book'[r].absorbed, view[r].existing[old] # 0
      PROVE  /\ view[r].existing[old] \in DOMAIN issues'
             /\ issues'[view[r].existing[old]].key \in Wanted(r)
             /\ FingerprintOf[issues'[view[r].existing[old]].key] = FingerprintOf[old]
  <2>1. CASE old = o
    BY <1>3, <1>4, <1>5, <2>1 DEF Carries
  <2>2. CASE old # o
    <3>1. /\ view[r].existing[old] \in DOMAIN issues
          /\ issues[view[r].existing[old]].key \in Wanted(r)
          /\ FingerprintOf[issues[view[r].existing[old]].key] = FingerprintOf[old]
      BY <1>3, <1>4, <1>7, <2>2 DEF AbsorbedCarry
    <3>2. view[r].existing[old] # view[r].existing[o]
      BY <1>3, <1>5, <3>1 DEF Carries
    <3> QED
      BY <1>3, <3>1, <3>2
  <2> QED
    BY <2>1, <2>2
<1> QED
  BY <1>1, <1>2, <1>6, <1>7 DEF AbsorbedCarry

LEMMA ReconcileAbsorbed ==
  ASSUME TypeOK, Alone, NamesInv, AbsorbedCarry, NEW r \in Runs, Reconcile(r)
  PROVE  AbsorbedCarry'
<1>1. PICK key \in Keys :
        \/ \E changed \in BOOLEAN : Update(r, key, changed)
        \/ MigrateTwin(r, key) \/ Reopen(r, key) \/ Defer(r, key) \/ Raise(r, key)
        \/ CloseSuperseded(r, key) \/ KeepOpen(r, key) \/ CloseGone(r, key)
  BY DEF Reconcile
<1>2. CASE CloseSuperseded(r, key)
  <2>1. /\ phase[r] = "tracking" /\ book'[r].absorbed = book[r].absorbed
        /\ DOMAIN issues' = DOMAIN issues
        /\ \A m \in DOMAIN issues : issues'[m].key = issues[m].key
    BY <1>2, ReplaceDoes
  <2>2. /\ view[r].existing \in [Keys -> 0..MaxIssues]
        /\ view'[r].existing = [view[r].existing EXCEPT ![key] = 0]
        /\ view'[r].found = view[r].found /\ view'[r].escalated = view[r].escalated
    BY <1>2, ReplaceView DEF TypeOK, View
  <2>3. Wanted(r)' = Wanted(r)
    BY <2>2 DEF Wanted
  <2>4. \A k \in Keys : view'[r].existing[k] # 0 => view'[r].existing[k] = view[r].existing[k]
    BY <2>2
  <2> QED
    BY <2>1, <2>3, <2>4, AbsorbedKept
<1>3. CASE ~ CloseSuperseded(r, key) /\ ~ MigrateTwin(r, key)
  <2>1. UNCHANGED view /\ phase[r] = "tracking"
    BY <1>1, <1>3 DEF Update, Reopen, Defer, Raise, KeepOpen, CloseGone, Turn, Settles
  <2>2. /\ book'[r].absorbed = book[r].absorbed
        /\ \A m \in DOMAIN issues : m \in DOMAIN issues' /\ issues'[m].key = issues[m].key
    <3>1. ASSUME NEW changed \in BOOLEAN, Update(r, key, changed)
          PROVE  /\ book'[r].absorbed = book[r].absorbed
                 /\ \A m \in DOMAIN issues : m \in DOMAIN issues' /\ issues'[m].key = issues[m].key
      <4>1. book'[r].absorbed = book[r].absorbed /\ book'[r].closed = book[r].closed
        BY <3>1, UpdateBooks, Zenon
      <4>2. /\ DOMAIN issues' = DOMAIN issues
            /\ \A m \in DOMAIN issues : issues'[m].key = issues[m].key
        BY <3>1, UpdateDoes
      <4> QED
        BY <4>1, <4>2
    <3>2. CASE Reopen(r, key)
      BY <3>2, ReopenDoes, ReopenBooks
    <3>3. CASE Defer(r, key)
      BY <3>3, DeferDoes
    <3>4. CASE Raise(r, key)
      BY <3>4, RaiseDoes
    <3>5. CASE KeepOpen(r, key) \/ CloseGone(r, key)
      BY <3>5, SettleDoes
    <3> QED
      BY <1>1, <1>3, <3>1, <3>2, <3>3, <3>4, <3>5
  <2>3. Wanted(r)' = Wanted(r)
    BY <2>1 DEF Wanted
  <2> QED
    BY <2>1, <2>2, <2>3, AbsorbedKept
<1> QED
  BY <1>1, <1>2, <1>3, MigrateAbsorbed

LEMMA AbsorbedStep ==
  Alone /\ TypeOK /\ NamesInv /\ AbsorbedCarry /\ [Next]_vars => AbsorbedCarry'
<1> SUFFICES ASSUME Alone, TypeOK, NamesInv, AbsorbedCarry, [Next]_vars
             PROVE  AbsorbedCarry'
  OBVIOUS
<1>1. ASSUME NEW r \in Runs,
             \/ Start(r) \/ Halt(r) \/ Analyse(r) \/ Remember(r)
             \/ GoesWrong(r)
      PROVE  AbsorbedCarry'
  <2>1. phase'[r] # "tracking"
    BY <1>1 DEF Start, Begin, Halt, Analyse, Conclude, Remember, GoesWrong, ReopenCut, Forget,
                PlatformFails, IdentityFails, Crash, Leave, TypeOK
  <2> QED
    BY <2>1 DEF Alone, AbsorbedCarry
<1>2. ASSUME NEW r \in Runs, StartTracking(r) PROVE AbsorbedCarry'
  <2>1. book'[r].absorbed = {}
    BY <1>2, StartTrackingDoes
  <2> QED
    BY <2>1 DEF Alone, AbsorbedCarry
<1>3. ASSUME NEW r \in Runs, Progress(r) PROVE AbsorbedCarry'
  BY <1>1, <1>2, <1>3, ReconcileAbsorbed DEF Progress
<1>4. CASE Persons
  <2>1. /\ UNCHANGED <<phase, view, book>> /\ DOMAIN issues' = DOMAIN issues
        /\ \A m \in DOMAIN issues : issues'[m].key = issues[m].key
    BY <1>4, PersonDoes
  <2>2. \A r \in Runs : Wanted(r)' = Wanted(r)
    BY <2>1 DEF Wanted
  <2> QED
    BY <2>1, <2>2 DEF AbsorbedCarry
<1>5. CASE UNCHANGED vars
  BY <1>5 DEF vars, AbsorbedCarry, Wanted
<1> QED
  BY <1>1, <1>3, <1>4, <1>5 DEF Next

LEMMA AbsorbedAlways ==
  ASSUME Alone
  PROVE  Spec => []AbsorbedCarry
<1>1. Init => AbsorbedCarry
  BY DEF Init, AbsorbedCarry
<1>2. TypeOK /\ NamesInv /\ AbsorbedCarry /\ [Next]_vars => AbsorbedCarry'
  BY AbsorbedStep
<1> QED
  BY <1>1, <1>2, TypeCorrect, NamesAreRight, PTL DEF Spec

-----------------------------------------------------------------------------
(* What a run lists stays reported: what it read open is open until the    *)
(* run is past it, and what it is past is open, deferred or replaced.      *)

(* What was replaced stays replaced while a run goes on reconciling.       *)
LEMMA StillSupplanted ==
  ASSUME NEW r \in Runs, NEW key, Supplanted(r, key), Wanted(r)' = Wanted(r),
         \A k \in Wanted(r) : book[r].number[k] # 0 => book'[r].number[k] # 0,
         book[r].absorbed \subseteq book'[r].absorbed
  PROVE  Supplanted(r, key)'
BY DEF Supplanted

LEMMA ReportedInit == Init => ReportedInv
BY DEF Init, ReportedInv, OpenStill, Reported, Pending, Listed

(* Nothing is owed by a run that has ended, given up, or not yet begun to  *)
(* reconcile what it read as open.                                         *)
LEMMA ReportedBefore ==
  ASSUME Alone, NEW r \in Runs, phase'[r] # "tracking",
         \A k \in Keys : Pending(r, k)' /\ view'[r].existing[k] # 0 => issues'[view'[r].existing[k]].open
  PROVE  ReportedInv'
<1>1. \A s \in Runs : s = r
  BY DEF Alone
<1> QED
  BY <1>1 DEF ReportedInv, OpenStill, Reported

LEMMA BeginReported ==
  ASSUME TypeOK, Alone, NEW r \in Runs, NEW kind \in Kinds, NEW asked \in SUBSET Keys,
         NEW unlock \in BOOLEAN, NEW read \in BOOLEAN, Begin(r, kind, asked, unlock, read)
  PROVE  ReportedInv'
<1>1. /\ issues' = issues /\ phase'[r] = "analysing" /\ view'[r].read = read
      /\ view'[r].existing = IF read THEN OpenTracked ELSE NoNumbers
  BY DEF Begin, TypeOK, NoView
<1>2. \A k \in Keys : OpenTracked[k] # 0 => issues[OpenTracked[k]].open
  BY ListedNumbers DEF OpenOf
<1>3. \A k \in Keys : Pending(r, k)' /\ view'[r].existing[k] # 0 => issues'[view'[r].existing[k]].open
  BY <1>1, <1>2 DEF Pending, Listed
<1> QED
  BY <1>1, <1>3, ReportedBefore

LEMMA ConcludeReported ==
  ASSUME TypeOK, Alone, ReportedInv, NEW r \in Runs,
         NEW outcomes, NEW found, NEW short, NEW recalled,
         Conclude(r, outcomes, found, short, recalled)
  PROVE  ReportedInv'
<1>1. /\ issues' = issues /\ phase[r] = "analysing" /\ phase'[r] = "concluded"
      /\ view'[r].existing = view[r].existing /\ view'[r].read = view[r].read
  BY DEF Conclude, TypeOK, View
<1>2. \A k \in Keys : Pending(r, k)' => Pending(r, k)
  BY <1>1 DEF Pending, Listed
<1>3. \A k \in Keys : Pending(r, k)' /\ view'[r].existing[k] # 0 => issues'[view'[r].existing[k]].open
  BY <1>1, <1>2 DEF ReportedInv, OpenStill
<1> QED
  BY <1>1, <1>3, ReportedBefore

LEMMA StartTrackingReported ==
  ASSUME TypeOK, Alone, NamesInv, ReportedInv, NEW r \in Runs, StartTracking(r)
  PROVE  ReportedInv'
<1>1. \A s \in Runs : s = r
  BY DEF Alone
<1>2. /\ DOMAIN issues' = DOMAIN issues
      /\ \A n \in DOMAIN issues : issues'[n].open = issues[n].open
      /\ view'[r].existing = IF view[r].read THEN view[r].existing ELSE OpenTracked
      /\ view'[r].found = view[r].found /\ view'[r].escalated = view[r].escalated
      /\ book'[r].todo = Wanted(r)
      /\ phase[r] = "concluded" /\ phase'[r] = "tracking"
  BY StartTrackingDoes
<1>3. \A k \in Keys : OpenTracked[k] # 0 => OpenTracked[k] \in DOMAIN issues /\ issues[OpenTracked[k]].open
  BY ListedNumbers DEF OpenOf
<1>4. book[r].absorbed = {}
  BY <1>2 DEF NamesInv, NothingBooked, NoBook
<1>5. view[r].read =>
        \A k \in Keys : view[r].existing[k] # 0 =>
          view[r].existing[k] \in DOMAIN issues /\ issues[view[r].existing[k]].open
  BY <1>2, <1>4 DEF NamesInv, ExistingCarry, Carries, ReportedInv, OpenStill, Pending, Listed
<1>6. \A k \in Keys : view'[r].existing[k] # 0 => issues'[view'[r].existing[k]].open
  BY <1>2, <1>3, <1>5
<1>7. OpenStill'
  BY <1>1, <1>6 DEF OpenStill
<1>8. Wanted(r)' = book'[r].todo
  BY <1>2 DEF Wanted
<1>9. Reported'
  BY <1>1, <1>8 DEF Reported
<1> QED
  BY <1>7, <1>9 DEF ReportedInv

(* A key that has had its turn is deferred or has an open issue, and no    *)
(* issue was closed.                                                       *)
LEMMA ReportedTracked ==
  ASSUME TypeOK, Alone, NamesInv, ReportedInv, NEW r \in Runs, NEW key \in Keys,
         Turn(r, key), UNCHANGED <<phase, view>>,
         \A m \in DOMAIN issues : issues[m].open => m \in DOMAIN issues' /\ issues'[m].open,
         book'[r].todo = book[r].todo \ {key}, book'[r].left \subseteq book[r].left,
         book[r].deferred \subseteq book'[r].deferred,
         \A k \in Keys \ {key} : book'[r].number[k] = book[r].number[k],
         book[r].number[key] # 0 => book'[r].number[key] # 0,
         book[r].absorbed \subseteq book'[r].absorbed,
         \/ key \in book'[r].deferred
         \/ book'[r].number[key] # 0 /\ issues'[book'[r].number[key]].open
  PROVE  ReportedInv'
<1>1. \A s \in Runs : s = r
  BY DEF Alone
<1>2. OpenStill'
  <2> SUFFICES ASSUME NEW k \in Keys, view[r].existing[k] # 0,
                      Pending(r, k)' \/ k \in book'[r].left
               PROVE  issues'[view[r].existing[k]].open
    BY <1>1 DEF OpenStill
  <2>1. phase[r] = "tracking" /\ (k \in book[r].todo \/ k \in book[r].left)
    BY DEF Turn, Pending, Listed
  <2>2. issues[view[r].existing[k]].open
    BY <2>1 DEF ReportedInv, OpenStill, Pending
  <2>3. k \notin book[r].absorbed
    BY <2>1 DEF NamesInv, TodoInv
  <2>4. view[r].existing[k] \in DOMAIN issues
    BY <2>3 DEF NamesInv, ExistingCarry, Carries
  <2> QED
    BY <2>2, <2>4
<1>3a. Wanted(r)' = Wanted(r) /\ Wanted(r) \subseteq Keys
  BY DEF Wanted, TypeOK, View, Keys
<1>3b. \A k : Supplanted(r, k) => Supplanted(r, k)'
  BY <1>3a, StillSupplanted
<1>3. Reported'
  <2> SUFFICES ASSUME NEW k \in Wanted(r) \ book'[r].todo
               PROVE  \/ k \in book'[r].deferred
                      \/ /\ book'[r].number[k] # 0
                         /\ issues'[book'[r].number[k]].open \/ Supplanted(r, k)'
    BY <1>1, <1>3a DEF Reported
  <2>1. CASE k = key
    BY <2>1
  <2>2. CASE k # key
    <3>1. k \in Keys /\ k \in Wanted(r) \ book[r].todo /\ phase[r] = "tracking"
      BY <2>2 DEF Wanted, TypeOK, View, Keys, Turn
    <3>2. \/ k \in book[r].deferred
          \/ /\ book[r].number[k] # 0
             /\ issues[book[r].number[k]].open \/ Supplanted(r, k)
      BY <3>1 DEF ReportedInv, Reported
    <3>3. book[r].number[k] # 0 => book[r].number[k] \in DOMAIN issues
      BY <3>1 DEF NamesInv, NumbersCarry, Carries
    <3>4. book'[r].number[k] = book[r].number[k]
      BY <2>2, <3>1
    <3> QED
      BY <1>3b, <3>2, <3>3, <3>4
  <2> QED
    BY <2>1, <2>2
<1> QED
  BY <1>2, <1>3 DEF ReportedInv

LEMMA UpdateReported ==
  ASSUME TypeOK, Alone, NamesInv, ReportedInv, NEW r \in Runs, NEW key \in Keys,
         NEW changed \in BOOLEAN, Update(r, key, changed)
  PROVE  ReportedInv'
<1>1. Turn(r, key) /\ UNCHANGED <<phase, view>>
  BY DEF Update
<1>2. /\ DOMAIN issues' = DOMAIN issues
      /\ \A m \in DOMAIN issues : issues'[m].open = issues[m].open
      /\ view[r].existing[key] # 0
  BY UpdateDoes
<1>3. /\ book'[r].todo = book[r].todo \ {key} /\ book'[r].left = book[r].left
      /\ book'[r].number = [book[r].number EXCEPT ![key] = view[r].existing[key]]
      /\ book'[r].deferred = book[r].deferred /\ book'[r].absorbed = book[r].absorbed
  BY UpdateBooks
<1>4. book[r].number \in [Keys -> 0..MaxIssues]
  BY DEF TypeOK, Book
<1>5. issues[view[r].existing[key]].open /\ view[r].existing[key] \in DOMAIN issues
  BY <1>1, <1>2, TurnCarries DEF Turn, First, ReportedInv, OpenStill, Pending, Carries
<1>6. /\ book'[r].number[key] # 0 /\ issues'[book'[r].number[key]].open
      /\ \A k \in Keys \ {key} : book'[r].number[k] = book[r].number[k]
  BY <1>2, <1>3, <1>4, <1>5
<1> QED
  BY <1>1, <1>2, <1>3, <1>6, ReportedTracked

LEMMA MigrateReported ==
  ASSUME TypeOK, Alone, NamesInv, ReportedInv, NEW r \in Runs, NEW key \in Keys,
         MigrateTwin(r, key)
  PROVE  ReportedInv'
<1>1. Turn(r, key) /\ UNCHANGED <<phase, view>>
  BY DEF MigrateTwin
<1>2. PICK old \in Keys \ (Wanted(r) \cup book[r].absorbed) :
        LET n == view[r].existing[old]
        IN  /\ n # 0
            /\ DOMAIN issues' = DOMAIN issues
            /\ \A m \in DOMAIN issues :
                 /\ issues'[m].open = issues[m].open
                 /\ m # n => issues'[m] = issues[m]
                 /\ m = n => issues'[m].key = key
            /\ book'[r].left = book[r].left \ {old}
            /\ book'[r].number = [book[r].number EXCEPT ![key] = n]
            /\ book'[r].absorbed = book[r].absorbed \cup {old}
  BY MigrateDoes
<1>3. book'[r].todo = book[r].todo \ {key} /\ book'[r].deferred = book[r].deferred
  BY MigrateDoes
<1>4. book[r].number \in [Keys -> 0..MaxIssues]
  BY DEF TypeOK, Book
<1>5. old \in book[r].left
  BY <1>1, <1>2, TurnCarries DEF NamesInv, TodoInv
<1>6. issues[view[r].existing[old]].open
  BY <1>1, <1>2, <1>5 DEF Turn, ReportedInv, OpenStill
<1>7. view[r].existing[old] \in DOMAIN issues
  BY <1>2 DEF NamesInv, ExistingCarry, Carries
<1>8. /\ DOMAIN issues' = DOMAIN issues
      /\ \A m \in DOMAIN issues : issues'[m].open = issues[m].open
      /\ book'[r].left \subseteq book[r].left
      /\ book[r].absorbed \subseteq book'[r].absorbed
  BY <1>2
<1>9. /\ book'[r].number[key] # 0 /\ issues'[book'[r].number[key]].open
      /\ \A k \in Keys \ {key} : book'[r].number[k] = book[r].number[k]
  BY <1>2, <1>4, <1>6, <1>7, <1>8
<1> QED
  BY <1>1, <1>3, <1>8, <1>9, ReportedTracked

LEMMA ReopenReported ==
  ASSUME TypeOK, Alone, NamesInv, ReportedInv, NEW r \in Runs, NEW key \in Keys, Reopen(r, key)
  PROVE  ReportedInv'
<1>1. Turn(r, key) /\ UNCHANGED <<phase, view>>
  BY DEF Reopen
<1>2. /\ book[r].closed[key] # 0
      /\ DOMAIN issues' = DOMAIN issues
      /\ \A m \in DOMAIN issues :
           /\ m # book[r].closed[key] => issues'[m] = issues[m]
           /\ m = book[r].closed[key] => issues'[m].open
  BY ReopenDoes
<1>3. /\ book'[r].todo = book[r].todo \ {key} /\ book'[r].left = book[r].left
      /\ book'[r].number = [book[r].number EXCEPT ![key] = book[r].closed[key]]
      /\ book'[r].deferred = book[r].deferred /\ book'[r].absorbed = book[r].absorbed
  BY ReopenBooks
<1>4. book[r].number \in [Keys -> 0..MaxIssues]
  BY DEF TypeOK, Book
<1>5. book[r].closed[key] \in DOMAIN issues
  BY <1>1, <1>2, TurnCarries DEF Carries
<1>6. /\ book'[r].number[key] # 0 /\ issues'[book'[r].number[key]].open
      /\ \A k \in Keys \ {key} : book'[r].number[k] = book[r].number[k]
  BY <1>2, <1>3, <1>4, <1>5
<1>7. \A m \in DOMAIN issues : issues[m].open => m \in DOMAIN issues' /\ issues'[m].open
  BY <1>2
<1> QED
  BY <1>1, <1>3, <1>6, <1>7, ReportedTracked

LEMMA RaiseReported ==
  ASSUME TypeOK, Alone, NamesInv, ReportedInv, NEW r \in Runs, NEW key \in Keys, Raise(r, key)
  PROVE  ReportedInv'
<1> DEFINE n == Len(issues) + 1
<1>1. Turn(r, key) /\ UNCHANGED <<phase, view>>
  BY DEF Raise
<1>2. /\ DOMAIN issues' = DOMAIN issues \cup {n} /\ n # 0
      /\ \A m \in DOMAIN issues : issues'[m] = issues[m]
      /\ issues'[n].open
      /\ book'[r].todo = book[r].todo \ {key} /\ book'[r].left = book[r].left
      /\ book'[r].number = [book[r].number EXCEPT ![key] = n]
      /\ book'[r].deferred = book[r].deferred /\ book'[r].absorbed = book[r].absorbed
  BY RaiseDoes
<1> HIDE DEF n
<1>3. book[r].number \in [Keys -> 0..MaxIssues]
  BY DEF TypeOK, Book
<1>4. /\ book'[r].number[key] # 0 /\ issues'[book'[r].number[key]].open
      /\ \A k \in Keys \ {key} : book'[r].number[k] = book[r].number[k]
  BY <1>2, <1>3
<1>5. \A m \in DOMAIN issues : issues[m].open => m \in DOMAIN issues' /\ issues'[m].open
  BY <1>2
<1> QED
  BY <1>1, <1>2, <1>4, <1>5, ReportedTracked

LEMMA DeferReported ==
  ASSUME TypeOK, Alone, NamesInv, ReportedInv, NEW r \in Runs, NEW key \in Keys, Defer(r, key)
  PROVE  ReportedInv'
<1>1. Turn(r, key) /\ UNCHANGED <<phase, view>>
  BY DEF Defer
<1>2. /\ issues' = issues
      /\ book'[r].todo = book[r].todo \ {key} /\ book'[r].left = book[r].left
      /\ book'[r].number = book[r].number
      /\ book'[r].deferred = book[r].deferred \cup {key}
      /\ book'[r].absorbed = book[r].absorbed
  BY DeferDoes
<1> QED
  BY <1>1, <1>2, ReportedTracked

(* What is settled is an issue of a finding the run does not list.         *)
LEMMA SettleReported ==
  ASSUME TypeOK, Alone, NamesInv, ReportedInv, NEW r \in Runs, NEW key \in Keys,
         KeepOpen(r, key) \/ CloseGone(r, key)
  PROVE  ReportedInv'
<1>1. \A s \in Runs : s = r
  BY DEF Alone
<1>2. /\ DOMAIN issues' = DOMAIN issues
      /\ \A m \in DOMAIN issues : m # view[r].existing[key] => issues'[m] = issues[m]
      /\ UNCHANGED <<phase, view>> /\ phase[r] = "tracking"
      /\ key \in book[r].left /\ book[r].todo = {} /\ book'[r].todo = {}
      /\ book'[r].left = book[r].left \ {key}
      /\ book'[r].number = book[r].number /\ book'[r].deferred = book[r].deferred
  BY SettleDoes
<1>3. /\ book[r].left \cap (Wanted(r) \cup book[r].absorbed) = {}
      /\ \A k \in book[r].left : view[r].existing[k] # 0
  BY DEF NamesInv, TodoInv
<1>4. Carries(view[r].existing[key], key)
  BY <1>2, <1>3 DEF NamesInv, ExistingCarry
<1>5. \A m \in DOMAIN issues, k \in Keys \ {key} : issues[m].key = k => issues'[m] = issues[m]
  BY <1>2, <1>4 DEF Carries
<1>6. OpenStill'
  <2> SUFFICES ASSUME NEW k \in book'[r].left, k \in Keys
               PROVE  issues'[view[r].existing[k]].open
    BY <1>1, <1>2 DEF OpenStill, Pending, Listed
  <2>1. k \in book[r].left /\ k # key
    BY <1>2
  <2>2. issues[view[r].existing[k]].open
    BY <1>2, <1>3, <2>1 DEF ReportedInv, OpenStill
  <2>3. Carries(view[r].existing[k], k)
    BY <1>3, <2>1 DEF NamesInv, ExistingCarry
  <2> QED
    BY <1>5, <2>1, <2>2, <2>3 DEF Carries
<1>7. Reported'
  <2>1. Wanted(r)' = Wanted(r) /\ book'[r].absorbed = book[r].absorbed
    BY <1>2, SettleDoes DEF Wanted
  <2>2. \A k : Supplanted(r, k) => Supplanted(r, k)'
    BY <1>2, <2>1, StillSupplanted
  <2> SUFFICES ASSUME NEW k \in Wanted(r)
               PROVE  \/ k \in book[r].deferred
                      \/ /\ book[r].number[k] # 0
                         /\ issues'[book[r].number[k]].open \/ Supplanted(r, k)'
    BY <1>1, <1>2, <2>1 DEF Reported
  <2>3. k \in Keys /\ k # key
    BY <1>2, <1>3 DEF Wanted, TypeOK, View, Keys
  <2>4. \/ k \in book[r].deferred
        \/ /\ book[r].number[k] # 0
           /\ issues[book[r].number[k]].open \/ Supplanted(r, k)
    BY <1>2 DEF ReportedInv, Reported
  <2>5. book[r].number[k] # 0 => Carries(book[r].number[k], k)
    BY <2>3 DEF NamesInv, NumbersCarry
  <2> QED
    BY <1>5, <2>2, <2>3, <2>4, <2>5 DEF Carries
<1> QED
  BY <1>6, <1>7 DEF ReportedInv

(* The issue closed as replaced is of no key the run still has to settle,  *)
(* and the key that had it, if the run lists it, is one that was replaced. *)
LEMMA ReplaceReported ==
  ASSUME TypeOK, Alone, NamesInv, AbsorbedCarry, ReportedInv,
         NEW r \in Runs, NEW old \in Keys, CloseSuperseded(r, old)
  PROVE  ReportedInv'
<1> DEFINE n == view[r].existing[old]
<1>1. \A s \in Runs : s = r
  BY DEF Alone
<1>2. /\ DOMAIN issues' = DOMAIN issues
      /\ \A m \in DOMAIN issues : m # n => issues'[m] = issues[m]
      /\ UNCHANGED phase /\ phase[r] = "tracking" /\ n # 0
      /\ \E k \in Wanted(r) : book[r].number[k] # 0 /\ old \in Supersedes[k]
      /\ book[r].todo = {} /\ book'[r].todo = {}
      /\ book'[r].left = book[r].left \ {old}
      /\ book'[r].number = book[r].number /\ book'[r].deferred = book[r].deferred
      /\ book'[r].absorbed = book[r].absorbed
  BY ReplaceDoes
<1>3. /\ view[r].existing \in [Keys -> 0..MaxIssues]
      /\ view'[r].existing = [view[r].existing EXCEPT ![old] = 0]
      /\ view'[r].found = view[r].found /\ view'[r].escalated = view[r].escalated
  BY ReplaceView DEF TypeOK, View
<1>4. Wanted(r)' = Wanted(r) /\ Wanted(r) \subseteq Keys
  BY <1>3 DEF Wanted, TypeOK, View, Keys
<1>5. \/ old \notin book[r].absorbed /\ Carries(n, old)
      \/ /\ old \in book[r].absorbed /\ n \in DOMAIN issues
         /\ issues[n].key \in Wanted(r) /\ FingerprintOf[issues[n].key] = FingerprintOf[old]
  BY <1>2 DEF NamesInv, ExistingCarry, AbsorbedCarry
<1> HIDE DEF n
<1>6. OpenStill'
  <2> SUFFICES ASSUME NEW k \in book'[r].left, k \in Keys
               PROVE  issues'[view'[r].existing[k]].open
    BY <1>1, <1>2 DEF OpenStill, Pending, Listed
  <2>1. k \in book[r].left /\ k # old /\ k \notin Wanted(r) \cup book[r].absorbed
    BY <1>2 DEF NamesInv, TodoInv
  <2>2. view'[r].existing[k] = view[r].existing[k] /\ view[r].existing[k] # 0
    BY <1>3, <2>1 DEF NamesInv, TodoInv
  <2>3. issues[view[r].existing[k]].open /\ Carries(view[r].existing[k], k)
    BY <1>2, <2>1, <2>2 DEF ReportedInv, OpenStill, NamesInv, ExistingCarry
  <2>4. view[r].existing[k] # n
    BY <1>5, <2>1, <2>3 DEF Carries
  <2> QED
    BY <1>2, <2>2, <2>3, <2>4 DEF Carries
<1>7. \A k : Supplanted(r, k) => Supplanted(r, k)'
  BY <1>2, <1>4, StillSupplanted
<1>8. Reported'
  <2> SUFFICES ASSUME NEW k \in Wanted(r)
               PROVE  \/ k \in book[r].deferred
                      \/ /\ book[r].number[k] # 0
                         /\ issues'[book[r].number[k]].open \/ Supplanted(r, k)'
    BY <1>1, <1>2, <1>4 DEF Reported
  <2>1. \/ k \in book[r].deferred
        \/ /\ book[r].number[k] # 0
           /\ issues[book[r].number[k]].open \/ Supplanted(r, k)
    BY <1>2 DEF ReportedInv, Reported
  <2>2. k \in Keys /\ (book[r].number[k] # 0 => Carries(book[r].number[k], k))
    BY <1>4 DEF NamesInv, NumbersCarry
  <2>3. CASE book[r].number[k] = n /\ n # 0
    <3>1. Carries(n, k)
      BY <2>2, <2>3
    <3>2. old # k => old \in book[r].absorbed /\ FingerprintOf[old] = FingerprintOf[k]
      BY <1>5, <3>1 DEF Carries
    <3>3. Supplanted(r, k)
      BY <1>2, <3>2 DEF Supplanted
    <3> QED
      BY <1>7, <2>3, <3>3
  <2> QED
    BY <1>2, <1>7, <2>1, <2>2, <2>3 DEF Carries, n
<1> QED
  BY <1>6, <1>8 DEF ReportedInv

LEMMA EndReported ==
  ASSUME TypeOK, Alone, NEW r \in Runs, phase'[r] \in {"idle", "remember"}
  PROVE  ReportedInv'
<1>1. \A k \in Keys : ~ Pending(r, k)'
  BY DEF Pending, Listed
<1> QED
  BY <1>1, ReportedBefore

LEMMA StillReported ==
  ASSUME TypeOK, NamesInv, ReportedInv, UNCHANGED <<phase, view, book>>,
         \A m \in DOMAIN issues : issues[m].open => m \in DOMAIN issues' /\ issues'[m].open
  PROVE  ReportedInv'
<1>1. OpenStill'
  <2> SUFFICES ASSUME NEW r \in Runs, NEW k \in Keys, view[r].existing[k] # 0,
                      Pending(r, k)' \/ (phase[r] = "tracking" /\ k \in book[r].left)
               PROVE  issues'[view[r].existing[k]].open
    BY DEF OpenStill
  <2>1. Pending(r, k) \/ (phase[r] = "tracking" /\ k \in book[r].left)
    BY DEF Pending, Listed
  <2>2. issues[view[r].existing[k]].open
    BY <2>1 DEF ReportedInv, OpenStill
  <2>3. k \notin book[r].absorbed
    BY <2>1 DEF NamesInv, TodoInv, Pending, Listed, NothingBooked, NoBook
  <2> QED
    BY <2>2, <2>3 DEF NamesInv, ExistingCarry, Carries
<1>2. Reported'
  <2>0. \A r \in Runs : Wanted(r)' = Wanted(r) /\ \A k : Supplanted(r, k) => Supplanted(r, k)'
    BY DEF Wanted, Supplanted
  <2> SUFFICES ASSUME NEW r \in Runs, phase[r] = "tracking", NEW k \in Wanted(r) \ book[r].todo
               PROVE  \/ k \in book[r].deferred
                      \/ /\ book[r].number[k] # 0
                         /\ issues'[book[r].number[k]].open \/ Supplanted(r, k)
    BY <2>0 DEF Reported
  <2>1. \/ k \in book[r].deferred
        \/ /\ book[r].number[k] # 0
           /\ issues[book[r].number[k]].open \/ Supplanted(r, k)
    BY DEF ReportedInv, Reported
  <2>2. issues[book[r].number[k]].open /\ book[r].number[k] \in DOMAIN issues =>
          issues'[book[r].number[k]].open
    OBVIOUS
  <2>3. k \in Keys => (book[r].number[k] # 0 => book[r].number[k] \in DOMAIN issues)
    BY DEF NamesInv, NumbersCarry, Carries
  <2>4. k \in Keys
    BY DEF Wanted, TypeOK, View, Keys
  <2> QED
    BY <2>1, <2>2, <2>3, <2>4
<1> QED
  BY <1>1, <1>2 DEF ReportedInv

LEMMA ReportedStep ==
  /\ Alone /\ "close" \notin People /\ TypeOK /\ NamesInv /\ AbsorbedCarry
  /\ ReportedInv /\ [Next]_vars
  => ReportedInv'
<1> SUFFICES ASSUME Alone, "close" \notin People, TypeOK, NamesInv, AbsorbedCarry,
                    ReportedInv, [Next]_vars
             PROVE  ReportedInv'
  OBVIOUS
<1>1. ASSUME NEW r \in Runs, Start(r) PROVE ReportedInv'
  BY <1>1, BeginReported DEF Start
<1>2. ASSUME NEW r \in Runs, Analyse(r) PROVE ReportedInv'
  BY <1>2, ConcludeReported DEF Analyse
<1>3. ASSUME NEW r \in Runs, Reconcile(r) PROVE ReportedInv'
  BY <1>3, UpdateReported, MigrateReported, ReopenReported, DeferReported, RaiseReported,
     ReplaceReported, SettleReported DEF Reconcile
<1>4. ASSUME NEW r \in Runs, Halt(r) \/ Remember(r) PROVE ReportedInv'
  <2>1. phase'[r] = "idle"
    BY <1>4 DEF Halt, Remember, Leave, TypeOK
  <2> QED
    BY <2>1, EndReported
<1>5. ASSUME NEW r \in Runs, Progress(r) PROVE ReportedInv'
  BY <1>1, <1>2, <1>3, <1>4, <1>5, StartTrackingReported DEF Progress
<1>6. ASSUME NEW r \in Runs, GoesWrong(r) PROVE ReportedInv'
  <2>1. phase'[r] \in {"idle", "remember"}
    BY <1>6 DEF GoesWrong, ReopenCut, Forget, PlatformFails, IdentityFails, Crash, Leave, TypeOK
  <2> QED
    BY <2>1, EndReported
<1>7. CASE Persons
  <2>1. /\ UNCHANGED <<phase, view, book>> /\ DOMAIN issues' = DOMAIN issues
        /\ \A m \in DOMAIN issues : issues[m].open => issues'[m].open
    BY <1>7, PersonDoes
  <2> QED
    BY <2>1, StillReported
<1>8. CASE UNCHANGED vars
  BY <1>8, StillReported DEF vars
<1> QED
  BY <1>5, <1>6, <1>7, <1>8 DEF Next

(* A run that reconciled everything left each finding it listed with an    *)
(* open issue of that key, or deferred it, or closed its issue for that of *)
(* another key it listed, as long as runs follow one another and nobody    *)
(* closes an issue meanwhile.                                              *)
THEOREM ReportedAreTracked ==
  ASSUME Alone, "close" \notin People
  PROVE  Spec => []ReportedIsTracked
<1>1. Init => ReportedInv
  BY ReportedInit
<1>2. TypeOK /\ NamesInv /\ AbsorbedCarry /\ ReportedInv /\ [Next]_vars => ReportedInv'
  BY ReportedStep
<1>3. TypeOK /\ NamesInv /\ ReportedInv => ReportedIsTracked
  <2> SUFFICES ASSUME TypeOK, NamesInv, ReportedInv, NEW r \in Runs, Reconciled(r),
                      NEW k \in Wanted(r)
               PROVE  k \in book[r].deferred \/ OpenOf(k) # {} \/ Supplanted(r, k)
    BY DEF ReportedIsTracked
  <2>1. k \in Keys
    BY DEF Wanted, TypeOK, View, Keys
  <2>2. \/ k \in book[r].deferred
        \/ /\ book[r].number[k] # 0
           /\ issues[book[r].number[k]].open \/ Supplanted(r, k)
    BY DEF Reconciled, ReportedInv, Reported
  <2>3. book[r].number[k] # 0 => Carries(book[r].number[k], k)
    BY <2>1 DEF NamesInv, NumbersCarry
  <2> QED
    BY <2>2, <2>3 DEF OpenOf, Carries
<1> QED
  BY <1>1, <1>2, <1>3, TypeCorrect, NamesAreRight, AbsorbedAlways, PTL DEF Spec

-----------------------------------------------------------------------------
(* A permission stays where it was read until the issue is rewritten, and  *)
(* is on the issue it was given on from then on.                           *)

LEMMA StampsInit == Init => StampsInv
BY DEF Init, StampsInv, StampedStill, UnlockedInv, Pending, Listed, NoView

LEMMA LeaveStamps ==
  ASSUME Alone, NEW r \in Runs, phase'[r] = "idle", view'[r] = NoView
  PROVE  StampsInv'
<1>1. \A s \in Runs : phase'[s] = "idle" /\ view'[s] = NoView
  BY DEF Alone
<1>2. NoView.unlocked = {}
  BY DEF NoView
<1> QED
  BY <1>1, <1>2 DEF StampsInv, StampedStill, UnlockedInv, Pending, Listed

LEMMA BeginStamps ==
  ASSUME TypeOK, Alone, NEW r \in Runs, NEW kind \in Kinds, NEW asked \in SUBSET Keys,
         NEW unlock \in BOOLEAN, NEW read \in BOOLEAN, Begin(r, kind, asked, unlock, read)
  PROVE  StampsInv'
<1>1. \A s \in Runs : s = r
  BY DEF Alone
<1>2. /\ issues' = issues /\ phase'[r] = "analysing"
      /\ unlock => kind = "woken"
  BY DEF Begin, TypeOK
<1> DEFINE existing == IF read THEN OpenTracked ELSE NoNumbers
           unlocked == IF unlock THEN asked ELSE {}
           granted == IF read THEN Granted ELSE {}
<1>3. view' = [view EXCEPT ![r] =
          [NoView EXCEPT !.kind = kind, !.asked = asked, !.unlocked = unlocked,
                         !.read = read, !.existing = existing,
                         !.stamped = StampedIn(existing),
                         !.approvals = granted \cup unlocked]]
  BY DEF Begin
<1> HIDE DEF existing, unlocked, granted
<1>4. /\ view'[r].existing = existing /\ view'[r].stamped = StampedIn(existing)
      /\ view'[r].unlocked = unlocked /\ unlocked \subseteq view'[r].approvals
      /\ view'[r].escalated = {} /\ view'[r].kind = kind
  BY <1>3 DEF TypeOK, NoView
<1>5. unlocked # {} => kind = "woken"
  BY <1>2 DEF unlocked
<1>6. StampedStill'
  BY <1>1, <1>2, <1>4 DEF StampedStill, StampedIn
<1>7. UnlockedInv'
  BY <1>1, <1>2, <1>4, <1>5 DEF UnlockedInv
<1> QED
  BY <1>6, <1>7 DEF StampsInv

LEMMA ConcludeStamps ==
  ASSUME TypeOK, Alone, StampsInv, NEW r \in Runs,
         NEW outcomes, NEW found, NEW short, NEW recalled,
         Conclude(r, outcomes, found, short, recalled)
  PROVE  StampsInv'
<1>1. \A s \in Runs : s = r
  BY DEF Alone
<1>2. /\ issues' = issues /\ phase[r] = "analysing" /\ phase'[r] = "concluded"
      /\ view'[r].existing = view[r].existing /\ view'[r].read = view[r].read
      /\ view'[r].stamped = view[r].stamped /\ view'[r].unlocked = view[r].unlocked
      /\ view'[r].approvals = view[r].approvals /\ view'[r].kind = view[r].kind
      /\ view[r].kind # "scheduled" => view'[r].escalated = {}
  BY DEF Conclude, TypeOK, View
<1>3. \A k \in Keys : Pending(r, k)' => Pending(r, k)
  BY <1>2 DEF Pending, Listed
<1>4. StampedStill'
  BY <1>1, <1>2, <1>3 DEF StampsInv, StampedStill
<1>5. UnlockedInv'
  BY <1>1, <1>2 DEF StampsInv, UnlockedInv
<1> QED
  BY <1>4, <1>5 DEF StampsInv

LEMMA StartTrackingStamps ==
  ASSUME TypeOK, Alone, NamesInv, StampsInv, NEW r \in Runs, StartTracking(r)
  PROVE  StampsInv'
<1>1. \A s \in Runs : s = r
  BY DEF Alone
<1>2. /\ DOMAIN issues' = DOMAIN issues
      /\ \A n \in DOMAIN issues :
           /\ issues[n].stamp => issues'[n].stamp
           /\ \A k \in (view[r].approvals \cap view[r].unlocked) \ Wanted(r) :
                view'[r].existing[k] = n /\ n # 0 => issues'[n].stamp
      /\ view'[r].existing = IF view[r].read THEN view[r].existing ELSE OpenTracked
      /\ view'[r].stamped = IF view[r].read THEN view[r].stamped ELSE StampedIn(OpenTracked)
      /\ view'[r].escalated = view[r].escalated /\ view'[r].unlocked = view[r].unlocked
      /\ view'[r].approvals = view[r].approvals /\ view'[r].kind = view[r].kind
      /\ book'[r].todo = Wanted(r)
      /\ phase[r] = "concluded" /\ phase'[r] = "tracking"
  BY StartTrackingDoes
<1>3. \A k \in Keys : view'[r].existing[k] # 0 => view'[r].existing[k] \in DOMAIN issues
  <2>1. \A k \in Keys : OpenTracked[k] # 0 => OpenTracked[k] \in DOMAIN issues
    BY ListedCarry DEF Carries
  <2>2. view[r].read => \A k \in Keys : view[r].existing[k] # 0 => view[r].existing[k] \in DOMAIN issues
    BY <1>2 DEF NamesInv, NothingBooked, NoBook, ExistingCarry, Carries
  <2> QED
    BY <1>2, <2>1, <2>2
<1>4. \A k \in Keys : view'[r].existing[k] # 0 /\ k \in view'[r].stamped => issues'[view'[r].existing[k]].stamp
  <2>1. CASE view[r].read
    BY <1>2, <1>3, <2>1 DEF StampsInv, StampedStill, Pending, Listed
  <2>2. CASE ~ view[r].read
    BY <1>2, <1>3, <2>2 DEF StampedIn
  <2> QED
    BY <2>1, <2>2
<1>5. StampedStill'
  BY <1>1, <1>4 DEF StampedStill
<1>6. UnlockedInv'
  <2>1. /\ view[r].unlocked \subseteq view[r].approvals
        /\ view[r].unlocked # {} => view[r].escalated = {} /\ view[r].kind = "woken"
    BY DEF StampsInv, UnlockedInv
  <2>2. view[r].unlocked \subseteq Keys
    BY DEF TypeOK, View
  <2>3. \A k \in view[r].unlocked \ Wanted(r) :
          view'[r].existing[k] # 0 => issues'[view'[r].existing[k]].stamp
    BY <1>2, <1>3, <2>1, <2>2
  <2> QED
    BY <1>1, <1>2, <2>1, <2>3 DEF UnlockedInv
<1> QED
  BY <1>5, <1>6 DEF StampsInv

(* A step of the reconciliation that leaves the permissions of the keys    *)
(* that are not taken over.                                                *)
LEMMA StampsKept ==
  ASSUME Alone, StampsInv, NEW r \in Runs, UNCHANGED <<phase, view>>,
         book'[r].todo \subseteq book[r].todo,
         book[r].absorbed \subseteq book'[r].absorbed,
         \A k \in book'[r].todo : k \notin book'[r].absorbed,
         phase[r] = "tracking",
         \A k \in Keys \ book'[r].absorbed :
           view[r].existing[k] # 0 /\ issues[view[r].existing[k]].stamp =>
             issues'[view[r].existing[k]].stamp \/ k \notin book'[r].todo \cup view[r].unlocked,
         \A k \in view[r].unlocked \ book'[r].absorbed :
           k \in book[r].todo \ book'[r].todo /\ view[r].existing[k] # 0 => issues'[view[r].existing[k]].stamp,
         view[r].unlocked \subseteq Keys
  PROVE  StampsInv'
<1>1. \A s \in Runs : s = r
  BY DEF Alone
<1>2. StampedStill'
  <2> SUFFICES ASSUME NEW k \in Keys, view[r].existing[k] # 0, k \in view[r].stamped, k \in book'[r].todo
               PROVE  issues'[view[r].existing[k]].stamp
    BY <1>1 DEF StampedStill, Pending, Listed
  <2>1. issues[view[r].existing[k]].stamp
    BY DEF StampsInv, StampedStill, Pending
  <2> QED
    BY <2>1
<1>3. UnlockedInv'
  <2> SUFFICES ASSUME NEW k \in view[r].unlocked \ (book'[r].todo \cup book'[r].absorbed),
                      view[r].existing[k] # 0
               PROVE  issues'[view[r].existing[k]].stamp
    BY <1>1 DEF StampsInv, UnlockedInv
  <2>1. CASE k \in book[r].todo
    BY <2>1
  <2>2. CASE k \notin book[r].todo
    <3>1. issues[view[r].existing[k]].stamp
      BY <2>2 DEF StampsInv, UnlockedInv
    <3> QED
      BY <3>1
  <2> QED
    BY <2>1, <2>2
<1> QED
  BY <1>2, <1>3 DEF StampsInv

(* Two keys that were not taken over never share an issue.                 *)
LEMMA ReadApart ==
  ASSUME NamesInv, NEW r \in Runs, NEW j \in Keys \ book[r].absorbed, NEW k \in Keys \ book[r].absorbed,
         view[r].existing[j] # 0, view[r].existing[j] = view[r].existing[k]
  PROVE  j = k
BY DEF NamesInv, ExistingCarry, Carries

LEMMA UpdateStamps ==
  ASSUME TypeOK, Alone, NamesInv, StampsInv, NEW r \in Runs, NEW key \in Keys,
         NEW changed \in BOOLEAN, Update(r, key, changed)
  PROVE  StampsInv'
<1> DEFINE n == view[r].existing[key]
<1>1. Turn(r, key) /\ UNCHANGED <<phase, view>>
  BY DEF Update
<1>2. /\ n # 0
      /\ \A m \in DOMAIN issues : m # n => issues'[m] = issues[m]
      /\ n \in DOMAIN issues =>
           \/ issues'[n].stamp = Stamp(r, key)
           \/ issues'[n] = issues[n] /\ (key \in view[r].stamped) = Stamp(r, key)
  BY UpdateDoes
<1>3. /\ book'[r].todo = book[r].todo \ {key} /\ book'[r].absorbed = book[r].absorbed
  BY UpdateBooks
<1>4. key \in book[r].todo /\ key \notin book[r].absorbed /\ n \in DOMAIN issues /\ key \in Wanted(r)
  BY <1>1, <1>2, TurnCarries DEF Carries
<1>5. key \in view[r].unlocked => issues'[n].stamp
  <2> SUFFICES ASSUME key \in view[r].unlocked PROVE issues'[n].stamp
    OBVIOUS
  <2>1. Stamp(r, key)
    BY <1>4 DEF StampsInv, UnlockedInv, Stamp, Wanted
  <2>2. key \in view[r].stamped => issues[n].stamp
    BY <1>1, <1>2, <1>4 DEF StampsInv, StampedStill, Pending, Turn
  <2> QED
    BY <1>2, <1>4, <2>1, <2>2
<1>6. \A k \in Keys \ book[r].absorbed :
        view[r].existing[k] # 0 /\ k # key => issues'[view[r].existing[k]] = issues[view[r].existing[k]]
  BY <1>2, <1>4, ReadApart DEF NamesInv, ExistingCarry, Carries
<1>7. /\ phase[r] = "tracking" /\ view[r].unlocked \subseteq Keys
      /\ \A k \in book[r].todo : k \notin book[r].absorbed
  BY <1>1 DEF Turn, TypeOK, View, NamesInv, TodoInv
<1>8. \A k \in Keys \ book'[r].absorbed :
        view[r].existing[k] # 0 /\ issues[view[r].existing[k]].stamp =>
          issues'[view[r].existing[k]].stamp \/ k \notin book'[r].todo \cup view[r].unlocked
  BY <1>3, <1>5, <1>6
<1>9. \A k \in view[r].unlocked \ book'[r].absorbed :
        k \in book[r].todo \ book'[r].todo /\ view[r].existing[k] # 0 => issues'[view[r].existing[k]].stamp
  BY <1>3, <1>5
<1> QED
  BY <1>1, <1>3, <1>7, <1>8, <1>9, StampsKept

LEMMA MigrateStamps ==
  ASSUME TypeOK, Alone, NamesInv, StampsInv, NEW r \in Runs, NEW key \in Keys, MigrateTwin(r, key)
  PROVE  StampsInv'
<1>1. Turn(r, key) /\ UNCHANGED <<phase, view>>
  BY DEF MigrateTwin
<1>2. PICK old \in Keys \ (Wanted(r) \cup book[r].absorbed) :
        LET n == view[r].existing[old]
        IN  /\ n # 0
            /\ DOMAIN issues' = DOMAIN issues
            /\ \A m \in DOMAIN issues :
                 /\ issues'[m].open = issues[m].open
                 /\ m # n => issues'[m] = issues[m]
                 /\ m = n => issues'[m].key = key
            /\ book'[r].left = book[r].left \ {old}
            /\ book'[r].number = [book[r].number EXCEPT ![key] = n]
            /\ book'[r].absorbed = book[r].absorbed \cup {old}
  BY MigrateDoes
<1>3. book'[r].todo = book[r].todo \ {key} /\ view[r].existing[key] = 0
  BY MigrateDoes
<1>4. \A m \in DOMAIN issues : m # view[r].existing[old] => issues'[m] = issues[m]
  BY <1>2
<1>5. book'[r].absorbed = book[r].absorbed \cup {old} /\ view[r].existing[old] # 0
  BY <1>2
<1>6. \A k \in Keys \ book'[r].absorbed :
        view[r].existing[k] # 0 => issues'[view[r].existing[k]] = issues[view[r].existing[k]]
  BY <1>4, <1>5, ReadApart DEF NamesInv, ExistingCarry, Carries
<1>7. /\ phase[r] = "tracking" /\ view[r].unlocked \subseteq Keys
      /\ \A k \in book'[r].todo : k \notin book'[r].absorbed
  BY <1>1, <1>3, <1>5 DEF Turn, TypeOK, View, NamesInv, TodoInv
<1>8. \A k \in Keys \ book'[r].absorbed :
        view[r].existing[k] # 0 /\ issues[view[r].existing[k]].stamp =>
          issues'[view[r].existing[k]].stamp \/ k \notin book'[r].todo \cup view[r].unlocked
  BY <1>6
<1>9. \A k \in view[r].unlocked \ book'[r].absorbed :
        k \in book[r].todo \ book'[r].todo /\ view[r].existing[k] # 0 => issues'[view[r].existing[k]].stamp
  BY <1>3
<1> QED
  BY <1>1, <1>3, <1>5, <1>7, <1>8, <1>9, StampsKept

(* A reopened issue carries a key that had no open issue when it was read. *)
LEMMA ReopenStamps ==
  ASSUME TypeOK, Alone, NamesInv, StampsInv, NEW r \in Runs, NEW key \in Keys, Reopen(r, key)
  PROVE  StampsInv'
<1> DEFINE n == book[r].closed[key]
<1>1. Turn(r, key) /\ UNCHANGED <<phase, view>>
  BY DEF Reopen
<1>2. /\ n # 0 /\ view[r].existing[key] = 0
      /\ \A m \in DOMAIN issues : m # n => issues'[m] = issues[m]
  BY ReopenDoes
<1>3. book'[r].todo = book[r].todo \ {key} /\ book'[r].absorbed = book[r].absorbed
  BY ReopenBooks
<1>4. issues[n].key = key
  BY <1>1, <1>2, TurnCarries DEF Carries
<1> HIDE DEF n
<1>5. \A k \in Keys \ book[r].absorbed :
        view[r].existing[k] # 0 => issues'[view[r].existing[k]] = issues[view[r].existing[k]]
  BY <1>2, <1>4 DEF NamesInv, ExistingCarry, Carries
<1>6. /\ phase[r] = "tracking" /\ view[r].unlocked \subseteq Keys
      /\ \A k \in book[r].todo : k \notin book[r].absorbed
  BY <1>1 DEF Turn, TypeOK, View, NamesInv, TodoInv
<1>7. \A k \in Keys \ book'[r].absorbed :
        view[r].existing[k] # 0 /\ issues[view[r].existing[k]].stamp =>
          issues'[view[r].existing[k]].stamp \/ k \notin book'[r].todo \cup view[r].unlocked
  BY <1>3, <1>5
<1>8. \A k \in view[r].unlocked \ book'[r].absorbed :
        k \in book[r].todo \ book'[r].todo /\ view[r].existing[k] # 0 => issues'[view[r].existing[k]].stamp
  BY <1>2, <1>3
<1> QED
  BY <1>1, <1>3, <1>6, <1>7, <1>8, StampsKept

(* A finding that is new to the run has no issue a permission is on.       *)
LEMMA NewStamps ==
  ASSUME TypeOK, Alone, NamesInv, StampsInv, NEW r \in Runs, NEW key \in Keys,
         Raise(r, key) \/ Defer(r, key)
  PROVE  StampsInv'
<1>1. Turn(r, key) /\ UNCHANGED <<phase, view>> /\ view[r].existing[key] = 0
  BY DEF Raise, Defer, New
<1>2. /\ \A m \in DOMAIN issues : issues'[m] = issues[m]
      /\ book'[r].todo = book[r].todo \ {key} /\ book'[r].absorbed = book[r].absorbed
  <2>1. CASE Raise(r, key)
    BY <2>1, RaiseDoes
  <2>2. CASE Defer(r, key)
    BY <2>2, DeferDoes
  <2> QED
    BY <2>1, <2>2
<1>3. \A k \in Keys \ book[r].absorbed :
        view[r].existing[k] # 0 => issues'[view[r].existing[k]] = issues[view[r].existing[k]]
  BY <1>2 DEF NamesInv, ExistingCarry, Carries
<1>4. /\ phase[r] = "tracking" /\ view[r].unlocked \subseteq Keys
      /\ \A k \in book[r].todo : k \notin book[r].absorbed
  BY <1>1 DEF Turn, TypeOK, View, NamesInv, TodoInv
<1>5. \A k \in Keys \ book'[r].absorbed :
        view[r].existing[k] # 0 /\ issues[view[r].existing[k]].stamp =>
          issues'[view[r].existing[k]].stamp \/ k \notin book'[r].todo \cup view[r].unlocked
  BY <1>2, <1>3
<1>6. \A k \in view[r].unlocked \ book'[r].absorbed :
        k \in book[r].todo \ book'[r].todo /\ view[r].existing[k] # 0 => issues'[view[r].existing[k]].stamp
  BY <1>1, <1>2
<1> QED
  BY <1>1, <1>2, <1>4, <1>5, <1>6, StampsKept

LEMMA SettleStamps ==
  ASSUME TypeOK, Alone, NamesInv, StampsInv, NEW r \in Runs, NEW key \in Keys,
         KeepOpen(r, key) \/ CloseGone(r, key)
  PROVE  StampsInv'
<1>1. /\ \A m \in DOMAIN issues : issues'[m].stamp = issues[m].stamp
      /\ UNCHANGED <<phase, view>> /\ phase[r] = "tracking"
      /\ book[r].todo = {} /\ book'[r].todo = {} /\ book'[r].absorbed = book[r].absorbed
  BY SettleDoes
<1>2. view[r].unlocked \subseteq Keys
  BY DEF TypeOK, View
<1>3. \A k \in Keys \ book[r].absorbed :
        view[r].existing[k] # 0 => issues'[view[r].existing[k]].stamp = issues[view[r].existing[k]].stamp
  BY <1>1 DEF NamesInv, ExistingCarry, Carries
<1>4. \A k \in Keys \ book'[r].absorbed :
        view[r].existing[k] # 0 /\ issues[view[r].existing[k]].stamp =>
          issues'[view[r].existing[k]].stamp \/ k \notin book'[r].todo \cup view[r].unlocked
  BY <1>1, <1>3
<1> QED
  BY <1>1, <1>2, <1>4, StampsKept

LEMMA ReplaceStamps ==
  ASSUME TypeOK, Alone, NamesInv, StampsInv, NEW r \in Runs, NEW old \in Keys,
         CloseSuperseded(r, old)
  PROVE  StampsInv'
<1>1. \A s \in Runs : s = r
  BY DEF Alone
<1>2. /\ \A m \in DOMAIN issues : issues'[m].stamp = issues[m].stamp
      /\ UNCHANGED phase /\ phase[r] = "tracking"
      /\ book[r].todo = {} /\ book'[r].todo = {} /\ book'[r].absorbed = book[r].absorbed
  BY ReplaceDoes
<1>3. /\ view[r].existing \in [Keys -> 0..MaxIssues]
      /\ view'[r].existing = [view[r].existing EXCEPT ![old] = 0]
      /\ view'[r].unlocked = view[r].unlocked /\ view'[r].approvals = view[r].approvals
      /\ view'[r].escalated = view[r].escalated /\ view'[r].kind = view[r].kind
      /\ view[r].unlocked \subseteq Keys
  BY ReplaceView DEF TypeOK, View
<1>4. \A k \in Keys : view'[r].existing[k] # 0 => view'[r].existing[k] = view[r].existing[k]
  BY <1>3
<1>5. StampedStill'
  BY <1>1, <1>2 DEF StampedStill, Pending, Listed
<1>6. \A k \in view[r].unlocked \ book[r].absorbed :
        view'[r].existing[k] # 0 => issues'[view'[r].existing[k]].stamp
  <2> SUFFICES ASSUME NEW k \in view[r].unlocked \ book[r].absorbed, view'[r].existing[k] # 0
               PROVE  issues'[view'[r].existing[k]].stamp
    OBVIOUS
  <2>1. k \in Keys /\ view'[r].existing[k] = view[r].existing[k]
    BY <1>3, <1>4
  <2>2. issues[view[r].existing[k]].stamp
    BY <1>2, <2>1 DEF StampsInv, UnlockedInv
  <2>3. view[r].existing[k] \in DOMAIN issues
    BY <2>1 DEF NamesInv, ExistingCarry, Carries
  <2> QED
    BY <1>2, <2>1, <2>2, <2>3
<1>7. UnlockedInv'
  BY <1>1, <1>2, <1>3, <1>6 DEF StampsInv, UnlockedInv
<1> QED
  BY <1>5, <1>7 DEF StampsInv

LEMMA CutStamps ==
  ASSUME TypeOK, Alone, StampsInv, NEW r \in Runs, phase'[r] = "remember", UNCHANGED view
  PROVE  StampsInv'
<1>1. \A s \in Runs : s = r
  BY DEF Alone
<1> QED
  BY <1>1 DEF StampsInv, StampedStill, UnlockedInv, Pending, Listed

LEMMA WrongStamps ==
  ASSUME TypeOK, Alone, StampsInv, NEW r \in Runs, GoesWrong(r)
  PROVE  StampsInv'
<1>1. CASE (\E k \in Keys : ReopenCut(r, k)) \/ PlatformFails(r)
  <2>1. phase'[r] = "remember" /\ UNCHANGED view
    BY <1>1 DEF ReopenCut, PlatformFails, TypeOK
  <2> QED
    BY <2>1, CutStamps
<1>2. CASE Forget(r) \/ IdentityFails(r) \/ Crash(r)
  <2>1. phase'[r] = "idle" /\ view'[r] = NoView
    BY <1>2 DEF Forget, IdentityFails, Crash, Leave, TypeOK
  <2> QED
    BY <2>1, LeaveStamps
<1> QED
  BY <1>1, <1>2 DEF GoesWrong

(* People change no stamp.                                                 *)
LEMMA StillStamps ==
  ASSUME TypeOK, NamesInv, StampsInv, UNCHANGED <<phase, view, book>>,
         \A m \in DOMAIN issues : issues'[m].stamp = issues[m].stamp
  PROVE  StampsInv'
<1>1. \A r \in Runs : \A k \in Keys \ book[r].absorbed :
        view[r].existing[k] # 0 => issues'[view[r].existing[k]].stamp = issues[view[r].existing[k]].stamp
  BY DEF NamesInv, ExistingCarry, Carries
<1>2. StampedStill'
  <2> SUFFICES ASSUME NEW r \in Runs, NEW k \in Keys, view[r].existing[k] # 0,
                      k \in view[r].stamped, Pending(r, k)'
               PROVE  issues'[view[r].existing[k]].stamp
    BY DEF StampedStill
  <2>1. Pending(r, k)
    BY DEF Pending, Listed
  <2>2. k \notin book[r].absorbed
    BY <2>1 DEF NamesInv, TodoInv, Pending, Listed, NothingBooked, NoBook
  <2> QED
    BY <1>1, <2>1, <2>2 DEF StampsInv, StampedStill
<1>3. UnlockedInv'
  <2>1. \A r \in Runs : view[r].unlocked \subseteq Keys
    BY DEF TypeOK, View
  <2> QED
    BY <1>1, <2>1 DEF StampsInv, UnlockedInv
<1> QED
  BY <1>2, <1>3 DEF StampsInv

LEMMA StampsStep == Alone /\ TypeOK /\ NamesInv /\ StampsInv /\ [Next]_vars => StampsInv'
<1> SUFFICES ASSUME Alone, TypeOK, NamesInv, StampsInv, [Next]_vars
             PROVE  StampsInv'
  OBVIOUS
<1>1. ASSUME NEW r \in Runs, Start(r) PROVE StampsInv'
  BY <1>1, BeginStamps DEF Start
<1>2. ASSUME NEW r \in Runs, Analyse(r) PROVE StampsInv'
  BY <1>2, ConcludeStamps DEF Analyse
<1>3. ASSUME NEW r \in Runs, Reconcile(r) PROVE StampsInv'
  BY <1>3, UpdateStamps, MigrateStamps, ReopenStamps, NewStamps, ReplaceStamps, SettleStamps
     DEF Reconcile
<1>4. ASSUME NEW r \in Runs, Halt(r) \/ Remember(r) PROVE StampsInv'
  <2>1. phase'[r] = "idle" /\ view'[r] = NoView
    BY <1>4 DEF Halt, Remember, Leave, TypeOK
  <2> QED
    BY <2>1, LeaveStamps
<1>5. ASSUME NEW r \in Runs, Progress(r) PROVE StampsInv'
  BY <1>1, <1>2, <1>3, <1>4, <1>5, StartTrackingStamps DEF Progress
<1>6. CASE Persons
  <2>1. /\ UNCHANGED <<phase, view, book>>
        /\ \A m \in DOMAIN issues : issues'[m].stamp = issues[m].stamp
    BY <1>6, PersonDoes
  <2> QED
    BY <2>1, StillStamps
<1>7. CASE UNCHANGED vars
  BY <1>7, StillStamps DEF vars
<1> QED
  BY <1>5, <1>6, <1>7, WrongStamps DEF Next

(* A run that was given a permission and reconciled everything has left it *)
(* on the issue it was given on, whatever people do meanwhile.             *)
THEOREM UnlocksAreStamped ==
  ASSUME Alone
  PROVE  Spec => []UnlockIsStamped
<1>1. Init => StampsInv
  BY StampsInit
<1>2. TypeOK /\ NamesInv /\ StampsInv /\ [Next]_vars => StampsInv'
  BY StampsStep
<1>3. StampsInv => UnlockIsStamped
  BY DEF StampsInv, UnlockedInv, UnlockIsStamped, Reconciled
<1> QED
  BY <1>1, <1>2, <1>3, TypeCorrect, NamesAreRight, PTL DEF Spec

-----------------------------------------------------------------------------
(* The limit on new issues, run by run: also of runs that overlap.         *)

(* Until it has concluded a run books nothing.                             *)
LEMMA EarlyDoes ==
  ASSUME NEW r \in Runs, Start(r) \/ Halt(r) \/ Analyse(r)
  PROVE  /\ phase[r] \in {"idle", "analysing"} /\ UNCHANGED <<issues, book>>
         /\ \E v : view' = [view EXCEPT ![r] = v]
         /\ \E p : phase' = [phase EXCEPT ![r] = p]
<1>1. ASSUME NEW kind, NEW asked, NEW unlock, NEW read, Begin(r, kind, asked, unlock, read)
      PROVE  /\ phase[r] \in {"idle", "analysing"} /\ UNCHANGED <<issues, book>>
             /\ \E v : view' = [view EXCEPT ![r] = v]
             /\ \E p : phase' = [phase EXCEPT ![r] = p]
  BY <1>1, Zenon DEF Begin
<1>2. ASSUME NEW outcomes, NEW found, NEW short, NEW recalled, Conclude(r, outcomes, found, short, recalled)
      PROVE  /\ phase[r] \in {"idle", "analysing"} /\ UNCHANGED <<issues, book>>
             /\ \E v : view' = [view EXCEPT ![r] = v]
             /\ \E p : phase' = [phase EXCEPT ![r] = p]
  BY <1>2, Zenon DEF Conclude
<1>3. CASE Halt(r)
  BY <1>3, Zenon DEF Halt
<1>4. CASE Start(r)
  BY <1>1, <1>4, Zenon DEF Start
<1>5. CASE Analyse(r)
  BY <1>2, <1>5, Zenon DEF Analyse
<1> QED
  BY <1>3, <1>4, <1>5

(* A step of one run leaves the other runs' views and books alone.         *)
LEMMA OthersStay ==
  ASSUME TypeOK, NEW r \in Runs, Progress(r) \/ GoesWrong(r), NEW s \in Runs \ {r}
  PROVE  phase'[s] = phase[s] /\ view'[s] = view[s] /\ book'[s] = book[s]
<1>1. CASE Reconcile(r)
  <2>1. PICK key \in Keys :
          \/ \E changed \in BOOLEAN : Update(r, key, changed)
          \/ MigrateTwin(r, key) \/ Reopen(r, key) \/ Defer(r, key) \/ Raise(r, key)
          \/ CloseSuperseded(r, key) \/ KeepOpen(r, key) \/ CloseGone(r, key)
    BY <1>1 DEF Reconcile
  <2>2. phase'[s] = phase[s] /\ view'[s] = view[s]
    <3>1. CASE CloseSuperseded(r, key)
      BY <3>1, ReplaceView DEF CloseSuperseded
    <3>2. CASE ~ CloseSuperseded(r, key)
      BY <2>1, <3>2 DEF Update, MigrateTwin, Reopen, Defer, Raise, KeepOpen, CloseGone
    <3> QED
      BY <3>1, <3>2
  <2>3. book'[s] = book[s]
    BY <2>1 DEF Update, MigrateTwin, Reopen, Defer, Raise, CloseSuperseded, KeepOpen, CloseGone, TypeOK
  <2> QED
    BY <2>2, <2>3
<1>2. CASE Start(r) \/ Halt(r) \/ Analyse(r)
  <2>1. PICK v : view' = [view EXCEPT ![r] = v]
    BY <1>2, EarlyDoes
  <2>2. PICK p : phase' = [phase EXCEPT ![r] = p]
    BY <1>2, EarlyDoes
  <2> QED
    BY <1>2, <2>1, <2>2, EarlyDoes DEF TypeOK
<1>3. CASE StartTracking(r)
  <2> DEFINE existing == IF view[r].read THEN view[r].existing ELSE OpenTracked
             stamped == IF view[r].read THEN view[r].stamped ELSE StampedIn(OpenTracked)
             tracked == {k \in Keys : existing[k] # 0}
  <2>1. PICK b :
          /\ view' = [view EXCEPT ![r].existing = existing, ![r].stamped = stamped]
          /\ book' = [book EXCEPT ![r] = b]
          /\ phase' = [phase EXCEPT ![r] = "tracking"]
    BY <1>3 DEF StartTracking
  <2> HIDE DEF existing, stamped
  <2> QED
    BY <2>1 DEF TypeOK
<1>4. CASE Remember(r) \/ GoesWrong(r)
  BY <1>4 DEF Remember, Leave, GoesWrong, ReopenCut, Forget, PlatformFails, IdentityFails, Crash, TypeOK
<1> QED
  BY <1>1, <1>2, <1>3, <1>4 DEF Progress

(* What one run may have raised.                                           *)
Charged(r) == book[r].subjects \ {SubjectOf[k] : k \in view[r].escalated}

Counted(r) ==
  /\ IsFiniteSet(book[r].subjects)
  /\ Cardinality(Charged(r)) <= book[r].raised
  /\ Cardinality(Charged(r)) <= Limit

Unbooked(r) == phase[r] \in {"idle", "analysing", "concluded"} => book[r] = NoBook

LEMMA CeilingParts == CeilingInv <=> \A r \in Runs : Unbooked(r) /\ Counted(r)
BY DEF CeilingInv, NothingBooked, SubjectsCounted, Unbooked, Counted, Charged

(* Nothing raised, nothing charged.                                        *)
LEMMA NothingCharged ==
  ASSUME NEW S, NEW n \in Nat
  PROVE  /\ IsFiniteSet({})
         /\ Cardinality({} \ S) <= n /\ Cardinality({} \ S) <= Limit
<1>1. {} \ S = {} /\ Cardinality({}) = 0 /\ IsFiniteSet({})
  BY FS_EmptySet
<1>2. Limit \in Nat
  BY TrackerAssumption
<1> QED
  BY <1>1, <1>2

LEMMA CeilingInit == Init => CeilingInv
<1> SUFFICES ASSUME Init, NEW r \in Runs PROVE Unbooked(r) /\ Counted(r)
  BY CeilingParts
<1>1. book[r] = NoBook /\ NoBook.subjects = {} /\ NoBook.raised = 0
  BY DEF Init, NoBook
<1> QED
  BY <1>1, NothingCharged DEF Unbooked, Counted, Charged

(* A run whose book is empty is charged nothing.                           *)
LEMMA EmptyCounted ==
  ASSUME NEW r \in Runs, book'[r].subjects = {}, book'[r].raised = 0
  PROVE  Counted(r)'
BY NothingCharged DEF Counted, Charged

LEMMA SameCounted ==
  ASSUME NEW r \in Runs, Counted(r), view'[r].escalated = view[r].escalated,
         book'[r].subjects = book[r].subjects, book'[r].raised = book[r].raised
  PROVE  Counted(r)'
BY DEF Counted, Charged

(* One more issue brings at most one more subject, and none beyond the     *)
(* limit unless it is exempt or was charged before.                        *)
LEMMA RaiseCounted ==
  ASSUME TypeOK, NEW r \in Runs, Counted(r), NEW key \in Keys, Raise(r, key)
  PROVE  Counted(r)'
<1>1. /\ book'[r].raised = book[r].raised + 1
      /\ book'[r].subjects = book[r].subjects \cup {SubjectOf[key]}
  BY RaiseDoes
<1>2. UNCHANGED view /\ ~ AtCeiling(r, key)
  BY DEF Raise
<1>3. book[r].raised \in Nat /\ Limit \in Nat
  BY TrackerAssumption DEF TypeOK, Book
<1>4. IsFiniteSet(book[r].subjects) /\ IsFiniteSet(book'[r].subjects)
  BY <1>1, FS_AddElement DEF Counted
<1>5. IsFiniteSet(Charged(r)) /\ Cardinality(Charged(r)) \in Nat
  BY <1>4, FS_Subset, FS_CardinalityType DEF Charged
<1>6. CASE SubjectOf[key] \in book[r].subjects \/ key \in view[r].escalated
  <2>1. Charged(r)' = Charged(r)
    BY <1>1, <1>2, <1>6 DEF Charged
  <2>2. Cardinality(Charged(r)) <= book[r].raised + 1
    BY <1>3, <1>5 DEF Counted
  <2> QED
    BY <1>1, <1>4, <2>1, <2>2 DEF Counted
<1>7. CASE SubjectOf[key] \notin book[r].subjects /\ key \notin view[r].escalated
  <2>1. book[r].raised < Limit
    BY <1>2, <1>3, <1>7 DEF AtCeiling
  <2>2. Charged(r)' = Charged(r) \/ Charged(r)' = Charged(r) \cup {SubjectOf[key]}
    BY <1>1, <1>2 DEF Charged
  <2>3. Cardinality(Charged(r) \cup {SubjectOf[key]}) <= Cardinality(Charged(r)) + 1
    BY <1>5, FS_AddElement
  <2>4. Cardinality(Charged(r) \cup {SubjectOf[key]}) \in Nat
    BY <1>5, FS_AddElement, FS_CardinalityType
  <2> DEFINE c == Cardinality(Charged(r))
             d == Cardinality(Charged(r) \cup {SubjectOf[key]})
  <2>5. c \in Nat /\ d \in Nat /\ d <= c + 1 /\ c <= book[r].raised
    BY <1>5, <2>3, <2>4 DEF Counted
  <2>6. Cardinality(Charged(r)') = c \/ Cardinality(Charged(r)') = d
    BY <2>2
  <2> HIDE DEF c, d
  <2>7. c <= book[r].raised + 1 /\ d <= book[r].raised + 1 /\ c <= Limit /\ d <= Limit
    BY <1>3, <2>1, <2>5
  <2> QED
    BY <1>1, <1>4, <2>6, <2>7 DEF Counted
<1> QED
  BY <1>6, <1>7

LEMMA ReconcileCounted ==
  ASSUME TypeOK, NEW r \in Runs, Counted(r), Reconcile(r)
  PROVE  Unbooked(r)' /\ Counted(r)'
<1> SUFFICES ASSUME NEW key \in Keys,
                    \/ \E changed \in BOOLEAN : Update(r, key, changed)
                    \/ MigrateTwin(r, key) \/ Reopen(r, key) \/ Defer(r, key) \/ Raise(r, key)
                    \/ CloseSuperseded(r, key) \/ KeepOpen(r, key) \/ CloseGone(r, key)
             PROVE  Unbooked(r)' /\ Counted(r)'
  BY DEF Reconcile
<1>1. view'[r].escalated = view[r].escalated /\ phase'[r] = "tracking"
  <2>1. CASE CloseSuperseded(r, key)
    <3>1. view'[r].escalated = view[r].escalated /\ view'[r].known = view[r].known
      BY <2>1, ReplaceView, Zenon
    <3>2. phase'[r] = "tracking"
      BY <2>1 DEF CloseSuperseded
    <3> QED
      BY <3>1, <3>2
  <2>2. CASE ~ CloseSuperseded(r, key)
    <3>1. UNCHANGED view /\ phase'[r] = "tracking"
      BY <2>2 DEF Update, MigrateTwin, Reopen, Defer, Raise, KeepOpen, CloseGone, Turn, Settles
    <3> QED
      BY <3>1
  <2> QED
    BY <2>1, <2>2
<1>2. Unbooked(r)'
  BY <1>1 DEF Unbooked
<1>3. ASSUME ~ Raise(r, key)
      PROVE  book'[r].subjects = book[r].subjects /\ book'[r].raised = book[r].raised
  <2>1. CASE \E changed \in BOOLEAN : Update(r, key, changed)
    BY <2>1, UpdateBooks
  <2>2. CASE MigrateTwin(r, key)
    BY <2>2, MigrateDoes
  <2>3. CASE Reopen(r, key)
    BY <2>3, ReopenBooks
  <2>4. CASE Defer(r, key)
    BY <2>4, DeferDoes
  <2>5. CASE KeepOpen(r, key) \/ CloseGone(r, key)
    BY <2>5, SettleDoes
  <2>6. CASE CloseSuperseded(r, key)
    BY <2>6, ReplaceDoes
  <2> QED
    BY <1>3, <2>1, <2>2, <2>3, <2>4, <2>5, <2>6
<1> QED
  BY <1>1, <1>2, <1>3, RaiseCounted, SameCounted

LEMMA CeilingOwn ==
  ASSUME TypeOK, NEW r \in Runs, Unbooked(r), Counted(r), Progress(r) \/ GoesWrong(r)
  PROVE  Unbooked(r)' /\ Counted(r)'
<1>1. NoBook.subjects = {} /\ NoBook.raised = 0
  BY DEF NoBook
<1>2. CASE Start(r) \/ Halt(r) \/ Analyse(r)
  <2>1. book'[r] = NoBook
    BY <1>2, EarlyDoes DEF Unbooked
  <2> QED
    BY <1>1, <2>1, EmptyCounted DEF Unbooked
<1>3. CASE StartTracking(r)
  <2>1. book'[r].subjects = {} /\ book'[r].raised = 0 /\ phase'[r] = "tracking"
    BY <1>3, StartTrackingDoes
  <2> QED
    BY <2>1, EmptyCounted DEF Unbooked
<1>4. CASE Remember(r) \/ Forget(r) \/ IdentityFails(r) \/ Crash(r)
  <2>1. book'[r] = NoBook
    BY <1>4 DEF Remember, Forget, IdentityFails, Crash, Leave, TypeOK
  <2> QED
    BY <1>1, <2>1, EmptyCounted DEF Unbooked
<1>5. CASE (\E k \in Keys : ReopenCut(r, k)) \/ PlatformFails(r)
  <2>1. UNCHANGED <<view, book>> /\ phase'[r] = "remember"
    BY <1>5 DEF ReopenCut, PlatformFails, TypeOK
  <2> QED
    BY <2>1, SameCounted DEF Unbooked
<1> QED
  BY <1>2, <1>3, <1>4, <1>5, ReconcileCounted DEF Progress, GoesWrong

LEMMA CeilingStep == TypeOK /\ CeilingInv /\ [Next]_vars => CeilingInv'
<1> SUFFICES ASSUME TypeOK, \A r \in Runs : Unbooked(r) /\ Counted(r), [Next]_vars
             PROVE  \A r \in Runs : Unbooked(r)' /\ Counted(r)'
  BY CeilingParts DEF CeilingInv, NothingBooked, SubjectsCounted, Unbooked, Counted, Charged
<1>1. ASSUME NEW r \in Runs, Progress(r) \/ GoesWrong(r), NEW s \in Runs
      PROVE  Unbooked(s)' /\ Counted(s)'
  <2>1. CASE s = r
    BY <1>1, <2>1, CeilingOwn
  <2>2. CASE s # r
    <3>1. phase'[s] = phase[s] /\ view'[s] = view[s] /\ book'[s] = book[s]
      BY <1>1, <2>2, OthersStay
    <3> QED
      BY <3>1, SameCounted DEF Unbooked
  <2> QED
    BY <2>1, <2>2
<1>2. ASSUME UNCHANGED <<phase, view, book>>, NEW s \in Runs
      PROVE  Unbooked(s)' /\ Counted(s)'
  BY <1>2, SameCounted DEF Unbooked
<1>3. CASE Persons
  BY <1>2, <1>3, PersonDoes
<1>4. CASE UNCHANGED vars
  BY <1>2, <1>4 DEF vars
<1> QED
  BY <1>1, <1>3, <1>4 DEF Next

(* The findings new to a run never take more subjects than its limit, also *)
(* when runs overlap.                                                      *)
THEOREM CeilingIsKept == Spec => []CeilingHolds
<1>1. Init => CeilingInv
  BY CeilingInit
<1>2. TypeOK /\ CeilingInv /\ [Next]_vars => CeilingInv'
  BY CeilingStep
<1>3. CeilingInv => CeilingHolds
  BY DEF CeilingInv, SubjectsCounted, CeilingHolds
<1> QED
  BY <1>1, <1>2, <1>3, TypeCorrect, PTL DEF Spec

-----------------------------------------------------------------------------
(* Permissions on the issues of findings stay where they are: the run that *)
(* rewrites an issue goes by every permission that was on it.              *)

(* A step of the reconciliation leaves the permissions on the issues of    *)
(* the keys that are still to be reconciled.                               *)
LEMMA OthersWait ==
  ASSUME TypeOK, NamesInv, NEW r \in Runs, Reconcile(r)
  PROVE  /\ UNCHANGED phase /\ phase[r] = "tracking"
         /\ view'[r].read = view[r].read /\ view'[r].approvals = view[r].approvals
         /\ book'[r].todo = {} \/ view'[r] = view[r]
         /\ book'[r].todo \subseteq book[r].todo
         /\ \A k \in book'[r].todo : view[r].existing[k] # 0 =>
              issues'[view[r].existing[k]].stamp = issues[view[r].existing[k]].stamp
<1>1. PICK key \in Keys :
        \/ \E changed \in BOOLEAN : Update(r, key, changed)
        \/ MigrateTwin(r, key) \/ Reopen(r, key) \/ Defer(r, key) \/ Raise(r, key)
        \/ CloseSuperseded(r, key) \/ KeepOpen(r, key) \/ CloseGone(r, key)
  BY DEF Reconcile
<1>2. \A k \in book[r].todo : k \in Keys \ book[r].absorbed /\ k \in Wanted(r)
  BY DEF TypeOK, Book, NamesInv, TodoInv
<1>3. \A k \in Keys \ book[r].absorbed : view[r].existing[k] # 0 => Carries(view[r].existing[k], k)
  BY DEF NamesInv, ExistingCarry
<1>4. ASSUME NEW changed \in BOOLEAN, Update(r, key, changed)
      PROVE  /\ UNCHANGED <<phase, view>> /\ phase[r] = "tracking"
             /\ book'[r].todo \subseteq book[r].todo
             /\ \A k \in book'[r].todo : view[r].existing[k] # 0 =>
                  issues'[view[r].existing[k]] = issues[view[r].existing[k]]
  <2>1. Turn(r, key) /\ UNCHANGED <<phase, view>>
    BY <1>4 DEF Update
  <2>2. /\ view[r].existing[key] # 0
        /\ \A m \in DOMAIN issues : m # view[r].existing[key] => issues'[m] = issues[m]
    BY <1>4, UpdateDoes
  <2>3. book'[r].todo = book[r].todo \ {key}
    <3>1. book'[r].todo = book[r].todo \ {key} /\ book'[r].left = book[r].left
      BY <1>4, UpdateBooks, Zenon
    <3> QED
      BY <3>1
  <2>4. key \in Keys \ book[r].absorbed
    BY <2>1, TurnCarries
  <2>5. \A k \in book'[r].todo : view[r].existing[k] # 0 =>
          view[r].existing[k] \in DOMAIN issues /\ view[r].existing[k] # view[r].existing[key]
    BY <1>2, <1>3, <2>2, <2>3, <2>4 DEF Carries
  <2> QED
    BY <2>1, <2>2, <2>3, <2>5 DEF Turn
<1>5. ASSUME MigrateTwin(r, key)
      PROVE  /\ UNCHANGED <<phase, view>> /\ phase[r] = "tracking"
             /\ book'[r].todo \subseteq book[r].todo
             /\ \A k \in book'[r].todo : view[r].existing[k] # 0 =>
                  issues'[view[r].existing[k]] = issues[view[r].existing[k]]
  <2>1. Turn(r, key) /\ UNCHANGED <<phase, view>>
    BY <1>5 DEF MigrateTwin
  <2>2. PICK old \in Keys \ (Wanted(r) \cup book[r].absorbed) :
          LET n == view[r].existing[old]
          IN  /\ n # 0
              /\ DOMAIN issues' = DOMAIN issues
              /\ \A m \in DOMAIN issues :
                   /\ issues'[m].open = issues[m].open
                   /\ m # n => issues'[m] = issues[m]
                   /\ m = n => issues'[m].key = key
              /\ book'[r].left = book[r].left \ {old}
              /\ book'[r].number = [book[r].number EXCEPT ![key] = n]
              /\ book'[r].absorbed = book[r].absorbed \cup {old}
    BY <1>5, MigrateDoes
  <2>3. book'[r].todo = book[r].todo \ {key}
    BY <1>5, MigrateDoes
  <2>4. \A k \in book'[r].todo : view[r].existing[k] # 0 =>
          view[r].existing[k] \in DOMAIN issues /\ view[r].existing[k] # view[r].existing[old]
    BY <1>2, <1>3, <2>2, <2>3 DEF Carries
  <2> QED
    BY <2>1, <2>2, <2>3, <2>4 DEF Turn
<1>6. ASSUME Reopen(r, key)
      PROVE  /\ UNCHANGED <<phase, view>> /\ phase[r] = "tracking"
             /\ book'[r].todo \subseteq book[r].todo
             /\ \A k \in book'[r].todo : view[r].existing[k] # 0 =>
                  issues'[view[r].existing[k]] = issues[view[r].existing[k]]
  <2>1. Turn(r, key) /\ UNCHANGED <<phase, view>>
    BY <1>6 DEF Reopen
  <2>2. /\ book[r].closed[key] # 0
        /\ \A m \in DOMAIN issues : m # book[r].closed[key] => issues'[m] = issues[m]
    BY <1>6, ReopenDoes
  <2>3. book'[r].todo = book[r].todo \ {key}
    BY <1>6, ReopenBooks
  <2>4. Carries(book[r].closed[key], key)
    BY <2>1, <2>2, TurnCarries
  <2>5. \A k \in book'[r].todo : view[r].existing[k] # 0 =>
          view[r].existing[k] \in DOMAIN issues /\ view[r].existing[k] # book[r].closed[key]
    BY <1>2, <1>3, <2>3, <2>4 DEF Carries
  <2> QED
    BY <2>1, <2>2, <2>3, <2>5 DEF Turn
<1>7. ASSUME Raise(r, key) \/ Defer(r, key)
      PROVE  /\ UNCHANGED <<phase, view>> /\ phase[r] = "tracking"
             /\ book'[r].todo \subseteq book[r].todo
             /\ \A k \in book'[r].todo : view[r].existing[k] # 0 =>
                  issues'[view[r].existing[k]] = issues[view[r].existing[k]]
  <2>1. Turn(r, key) /\ UNCHANGED <<phase, view>>
    BY <1>7 DEF Raise, Defer
  <2>2. /\ \A m \in DOMAIN issues : issues'[m] = issues[m]
        /\ book'[r].todo = book[r].todo \ {key}
    <3>1. CASE Raise(r, key)
      BY <3>1, RaiseDoes
    <3>2. CASE Defer(r, key)
      BY <3>2, DeferDoes
    <3> QED
      BY <1>7, <3>1, <3>2
  <2>3. \A k \in book'[r].todo : view[r].existing[k] # 0 => view[r].existing[k] \in DOMAIN issues
    BY <1>2, <1>3, <2>2 DEF Carries
  <2> QED
    BY <2>1, <2>2, <2>3 DEF Turn
<1>8. ASSUME KeepOpen(r, key) \/ CloseGone(r, key)
      PROVE  /\ UNCHANGED <<phase, view>> /\ phase[r] = "tracking"
             /\ book[r].todo = {} /\ book'[r].todo = {}
  BY <1>8, SettleDoes
<1>9. ASSUME CloseSuperseded(r, key)
      PROVE  /\ UNCHANGED phase /\ phase[r] = "tracking"
             /\ view'[r].read = view[r].read /\ view'[r].approvals = view[r].approvals
             /\ book[r].todo = {} /\ book'[r].todo = {}
  BY <1>9, ReplaceDoes, ReplaceView
<1> QED
  BY <1>1, <1>4, <1>5, <1>6, <1>7, <1>8, <1>9

(* Starting to reconcile writes no permission but those just given, on     *)
(* issues that are not about to be rewritten.                              *)
LEMMA StampsWritten ==
  ASSUME TypeOK, NEW r \in Runs, StartTracking(r)
  PROVE  \A n \in DOMAIN issues :
           issues'[n].stamp =>
             \/ issues[n].stamp
             \/ \E k \in (view[r].approvals \cap Keys) \ Wanted(r) :
                  view'[r].existing[k] = n /\ n # 0
<1> DEFINE existing == IF view[r].read THEN view[r].existing ELSE OpenTracked
           stamped == IF view[r].read THEN view[r].stamped ELSE StampedIn(OpenTracked)
           tracked == {k \in Keys : existing[k] # 0}
           approved == {k \in (view[r].approvals \cap tracked) \ Wanted(r) :
                          k \notin stamped \/ k \in view[r].unlocked}
<1>1. issues' = [n \in DOMAIN issues |->
           IF \E k \in approved : existing[k] = n
           THEN [issues[n] EXCEPT !.stamp = TRUE] ELSE issues[n]]
  BY DEF StartTracking
<1>2. view'[r].existing = existing
  BY StartTrackingDoes
<1>3. \A k \in approved : k \in (view[r].approvals \cap Keys) \ Wanted(r) /\ existing[k] # 0
  OBVIOUS
<1> HIDE DEF existing, approved
<1>4. ASSUME NEW n \in DOMAIN issues, issues'[n].stamp, ~ issues[n].stamp
      PROVE  \E k \in approved : existing[k] = n
  BY <1>1, <1>4
<1> QED
  BY <1>2, <1>3, <1>4

LEMMA ApprovedInit == Init => ApprovedInv
BY DEF Init, ApprovedInv, AllRead, ApprovedStill, Pending, Listed, NoView

LEMMA BeginApproved ==
  ASSUME TypeOK, Alone, ApprovedInv, "unread" \notin Faults, NEW r \in Runs, NEW kind \in Kinds,
         NEW asked \in SUBSET Keys, NEW unlock \in BOOLEAN, NEW read \in BOOLEAN,
         Begin(r, kind, asked, unlock, read)
  PROVE  ApprovedInv'
<1>1. \A s \in Runs : s = r
  BY DEF Alone
<1>2. issues' = issues /\ phase'[r] = "analysing" /\ read
  BY DEF Begin, TypeOK
<1> DEFINE unlocked == IF unlock THEN asked ELSE {}
           given == [NoView EXCEPT !.kind = kind, !.asked = asked, !.unlocked = unlocked,
                         !.read = read, !.existing = OpenTracked,
                         !.stamped = StampedIn(OpenTracked),
                         !.approvals = Granted \cup unlocked]
<1>3. view' = [view EXCEPT ![r] = given]
  BY <1>2 DEF Begin
<1> HIDE DEF unlocked
<1>4. view'[r].existing = OpenTracked /\ Granted \subseteq view'[r].approvals /\ view'[r].read = read
  BY <1>3 DEF TypeOK, NoView
<1> HIDE DEF given
<1>5. ASSUME NEW k \in Keys, OpenTracked[k] # 0, issues[OpenTracked[k]].stamp
      PROVE  k \in Granted
  BY <1>5, ListedNumbers DEF Granted
<1>6. FindingKeys \subseteq Keys
  BY DEF Keys
<1>7. AllRead'
  BY <1>1, <1>2, <1>4 DEF AllRead
<1>8. ApprovedStill'
  BY <1>1, <1>2, <1>4, <1>5, <1>6 DEF ApprovedStill
<1> QED
  BY <1>7, <1>8 DEF ApprovedInv

LEMMA ConcludeApproved ==
  ASSUME TypeOK, Alone, ApprovedInv, NEW r \in Runs,
         NEW outcomes, NEW found, NEW short, NEW recalled,
         Conclude(r, outcomes, found, short, recalled)
  PROVE  ApprovedInv'
<1>1. \A s \in Runs : s = r
  BY DEF Alone
<1>2. /\ issues' = issues /\ phase[r] = "analysing" /\ phase'[r] = "concluded"
      /\ view'[r].existing = view[r].existing /\ view'[r].read = view[r].read
      /\ view'[r].approvals = view[r].approvals
  BY DEF Conclude, TypeOK, View
<1>3. \A k \in Keys : Pending(r, k)' => Pending(r, k)
  BY <1>2 DEF Pending, Listed
<1>4. FindingKeys \subseteq Keys
  BY DEF Keys
<1> QED
  BY <1>1, <1>2, <1>3, <1>4 DEF ApprovedInv, AllRead, ApprovedStill

LEMMA StartTrackingApproved ==
  ASSUME TypeOK, Alone, NamesInv, ApprovedInv, NEW r \in Runs, StartTracking(r)
  PROVE  ApprovedInv'
<1>1. \A s \in Runs : s = r
  BY DEF Alone
<1>2. /\ view'[r].existing = view[r].existing /\ view'[r].approvals = view[r].approvals
      /\ view'[r].read = view[r].read /\ view[r].read
      /\ book'[r].todo = Wanted(r)
      /\ phase[r] = "concluded" /\ phase'[r] = "tracking"
  BY StartTrackingDoes DEF ApprovedInv, AllRead
<1>3. \A k \in Keys : view[r].existing[k] # 0 => Carries(view[r].existing[k], k)
  BY <1>2 DEF NamesInv, NothingBooked, NoBook, ExistingCarry
<1>4. ASSUME NEW k \in FindingKeys, k \in Wanted(r), view[r].existing[k] # 0,
             issues'[view[r].existing[k]].stamp
      PROVE  k \in view[r].approvals
  <2>1. k \in Keys
    BY DEF Keys
  <2>2. view[r].existing[k] \in DOMAIN issues
    BY <1>3, <1>4, <2>1 DEF Carries
  <2>3. \A j \in Keys : view[r].existing[j] = view[r].existing[k] => j = k
    BY <1>3, <1>4, <2>1 DEF Carries
  <2>4. issues[view[r].existing[k]].stamp
    BY <1>2, <1>4, <2>2, <2>3, StampsWritten
  <2> QED
    BY <1>2, <1>4, <2>4 DEF ApprovedInv, ApprovedStill, Pending, Listed
<1>5. ApprovedStill'
  BY <1>1, <1>2, <1>4 DEF ApprovedStill, Pending, Listed
<1> QED
  BY <1>1, <1>2, <1>5 DEF ApprovedInv, AllRead

LEMMA ReconcileApproved ==
  ASSUME TypeOK, Alone, NamesInv, ApprovedInv, NEW r \in Runs, Reconcile(r)
  PROVE  ApprovedInv'
<1>1. \A s \in Runs : s = r
  BY DEF Alone
<1>2. ApprovedStill'
  <2> SUFFICES ASSUME NEW k \in FindingKeys, Pending(r, k)', view'[r].existing[k] # 0,
                      issues'[view'[r].existing[k]].stamp
               PROVE  k \in view'[r].approvals
    BY <1>1 DEF ApprovedStill
  <2>1. k \in book'[r].todo /\ k \in book[r].todo /\ phase[r] = "tracking" /\ view'[r] = view[r]
    BY OthersWait DEF Pending, Listed
  <2>2. issues[view[r].existing[k]].stamp
    BY <2>1, OthersWait
  <2> QED
    BY <2>1, <2>2 DEF ApprovedInv, ApprovedStill, Pending
<1> QED
  BY <1>1, <1>2, OthersWait DEF ApprovedInv, AllRead

(* A run that ends, or gives the reconciliation up.                        *)
LEMMA EndApproved ==
  ASSUME TypeOK, Alone, ApprovedInv, NEW r \in Runs, phase'[r] \in {"idle", "remember"},
         view'[r] = NoView \/ view'[r] = view[r]
  PROVE  ApprovedInv'
<1>1. \A s \in Runs : s = r
  BY DEF Alone
<1>2. view'[r].read
  BY DEF ApprovedInv, AllRead, NoView
<1> QED
  BY <1>1, <1>2 DEF ApprovedInv, AllRead, ApprovedStill, Pending, Listed

(* How a run comes to its end, or to giving up.                            *)
LEMMA EndDoes ==
  ASSUME TypeOK, NEW r \in Runs, Halt(r) \/ Remember(r) \/ GoesWrong(r)
  PROVE  phase'[r] \in {"idle", "remember"} /\ (view'[r] = NoView \/ view'[r] = view[r])
BY DEF Halt, Remember, GoesWrong, ReopenCut, Forget, PlatformFails, IdentityFails, Crash, Leave, TypeOK

LEMMA StillApproved ==
  ASSUME TypeOK, NamesInv, ApprovedInv, UNCHANGED <<phase, view, book>>,
         \A m \in DOMAIN issues : issues'[m].stamp = issues[m].stamp
  PROVE  ApprovedInv'
<1>1. AllRead'
  BY DEF ApprovedInv, AllRead
<1>2. ApprovedStill'
  <2> SUFFICES ASSUME NEW r \in Runs, NEW k \in FindingKeys, view[r].existing[k] # 0,
                      Pending(r, k)', issues'[view[r].existing[k]].stamp
               PROVE  k \in view[r].approvals
    BY DEF ApprovedStill
  <2>1. Pending(r, k) /\ k \in Keys
    BY DEF Pending, Listed, Keys
  <2>2. k \notin book[r].absorbed
    BY <2>1 DEF NamesInv, TodoInv, Pending, Listed, NothingBooked, NoBook
  <2>3. view[r].existing[k] \in DOMAIN issues
    BY <2>1, <2>2 DEF NamesInv, ExistingCarry, Carries
  <2> QED
    BY <2>1, <2>3 DEF ApprovedInv, ApprovedStill
<1> QED
  BY <1>1, <1>2 DEF ApprovedInv

LEMMA ApprovedStep ==
  Alone /\ "unread" \notin Faults /\ TypeOK /\ NamesInv /\ ApprovedInv /\ [Next]_vars => ApprovedInv'
<1> SUFFICES ASSUME Alone, "unread" \notin Faults, TypeOK, NamesInv, ApprovedInv, [Next]_vars
             PROVE  ApprovedInv'
  OBVIOUS
<1>1. ASSUME NEW r \in Runs, Start(r) PROVE ApprovedInv'
  BY <1>1, BeginApproved DEF Start
<1>2. ASSUME NEW r \in Runs, Analyse(r) PROVE ApprovedInv'
  BY <1>2, ConcludeApproved DEF Analyse
<1>3. ASSUME NEW r \in Runs, Halt(r) \/ Remember(r) \/ GoesWrong(r) PROVE ApprovedInv'
  BY <1>3, EndDoes, EndApproved
<1>4. ASSUME NEW r \in Runs, Progress(r) PROVE ApprovedInv'
  BY <1>1, <1>2, <1>3, <1>4, StartTrackingApproved, ReconcileApproved DEF Progress
<1>5. CASE Persons
  <2>1. /\ UNCHANGED <<phase, view, book>>
        /\ \A m \in DOMAIN issues : issues'[m].stamp = issues[m].stamp
    BY <1>5, PersonDoes
  <2> QED
    BY <2>1, StillApproved
<1>6. CASE UNCHANGED vars
  BY <1>6, StillApproved DEF vars
<1> QED
  BY <1>3, <1>4, <1>5, <1>6 DEF Next

(* A step of the reconciliation takes no permission from an open issue of  *)
(* a finding that keeps its name.                                          *)
LEMMA ReconcileKeepsStamp ==
  ASSUME TypeOK, NamesInv, OneInv, ApprovedInv, NEW r \in Runs,
         Reconcile(r) \/ \E k \in Keys : ReopenCut(r, k),
         NEW n \in DOMAIN issues, issues[n].open, issues[n].stamp,
         issues[n].key \in FindingKeys, issues'[n].key = issues[n].key
  PROVE  issues'[n].stamp
<1>1. PICK key \in Keys :
        \/ \E changed \in BOOLEAN : Update(r, key, changed)
        \/ MigrateTwin(r, key) \/ Reopen(r, key) \/ ReopenCut(r, key)
        \/ Defer(r, key) \/ Raise(r, key)
        \/ CloseSuperseded(r, key) \/ KeepOpen(r, key) \/ CloseGone(r, key)
  BY DEF Reconcile
<1>2. ASSUME NEW changed \in BOOLEAN, Update(r, key, changed) PROVE issues'[n].stamp
  <2>1. Turn(r, key)
    BY <1>2 DEF Update
  <2>2. /\ view[r].existing[key] # 0
        /\ \A m \in DOMAIN issues : m # view[r].existing[key] => issues'[m] = issues[m]
        /\ view[r].existing[key] \in DOMAIN issues =>
             \/ issues'[view[r].existing[key]].stamp = Stamp(r, key)
             \/ issues'[view[r].existing[key]] = issues[view[r].existing[key]]
    BY <1>2, UpdateDoes
  <2>3. CASE n = view[r].existing[key]
    <3>1. issues[n].key = key /\ key \in book[r].todo /\ key \in Wanted(r)
      BY <2>1, <2>2, <2>3, TurnCarries DEF Carries
    <3>2. key \in view[r].found
      BY <3>1, ChecksAssumption DEF Wanted, TypeOK, View
    <3>3. key \in view[r].approvals
      BY <2>1, <2>2, <2>3, <3>1 DEF ApprovedInv, ApprovedStill, Pending, Turn
    <3> QED
      BY <2>2, <2>3, <3>2, <3>3 DEF Stamp
  <2> QED
    BY <2>2, <2>3
<1>3. CASE MigrateTwin(r, key)
  <2>1. key \in Wanted(r)
    BY <1>3, TurnCarries DEF MigrateTwin
  <2>2. PICK old \in Keys \ (Wanted(r) \cup book[r].absorbed) :
          LET number == view[r].existing[old]
          IN  /\ number # 0
              /\ DOMAIN issues' = DOMAIN issues
              /\ \A m \in DOMAIN issues :
                   /\ issues'[m].open = issues[m].open
                   /\ m # number => issues'[m] = issues[m]
                   /\ m = number => issues'[m].key = key
              /\ book'[r].left = book[r].left \ {old}
              /\ book'[r].number = [book[r].number EXCEPT ![key] = number]
              /\ book'[r].absorbed = book[r].absorbed \cup {old}
    BY <1>3, MigrateDoes
  <2>3. Carries(view[r].existing[old], old) /\ old # key
    BY <2>1, <2>2 DEF NamesInv, ExistingCarry
  <2>4. n # view[r].existing[old]
    BY <2>2, <2>3 DEF Carries
  <2> QED
    BY <2>2, <2>4
<1>4. CASE Reopen(r, key) \/ ReopenCut(r, key)
  <2>1. Turn(r, key)
    BY <1>4 DEF Reopen, ReopenCut
  <2>2. /\ book[r].closed[key] # 0 /\ view[r].existing[key] = 0
        /\ \A m \in DOMAIN issues : m # book[r].closed[key] => issues'[m] = issues[m]
    BY <1>4, ReopenDoes
  <2>3. OpenOf(key) \subseteq {0}
    BY <2>1, <2>2, TurnCarries DEF OneInv, OneRead, Pending, Turn
  <2>4. Carries(book[r].closed[key], key)
    BY <2>1, <2>2, TurnCarries
  <2>5. n # book[r].closed[key]
    BY <2>2, <2>3, <2>4 DEF Carries, OpenOf
  <2> QED
    BY <2>2, <2>5
<1>5. CASE Raise(r, key)
  BY <1>5, RaiseDoes
<1>6. CASE Defer(r, key)
  BY <1>6, DeferDoes
<1>7. CASE KeepOpen(r, key) \/ CloseGone(r, key)
  BY <1>7, SettleDoes
<1>8. CASE CloseSuperseded(r, key)
  BY <1>8, ReplaceDoes
<1> QED
  BY <1>1, <1>2, <1>3, <1>4, <1>5, <1>6, <1>7, <1>8

(* Everything else takes no permission from any issue.                     *)
LEMMA OthersKeepStamp ==
  ASSUME TypeOK, NEW r \in Runs, Progress(r) \/ GoesWrong(r),
         ~ Reconcile(r), \A k \in Keys : ~ ReopenCut(r, k),
         NEW n \in DOMAIN issues, issues[n].stamp
  PROVE  issues'[n].stamp
<1>1. CASE StartTracking(r)
  BY <1>1, StartTrackingDoes
<1>2. CASE Start(r) \/ Halt(r) \/ Analyse(r)
  BY <1>2, EarlyDoes
<1>3. CASE Remember(r) \/ Forget(r) \/ PlatformFails(r) \/ IdentityFails(r) \/ Crash(r)
  BY <1>3 DEF Remember, Forget, PlatformFails, IdentityFails, Crash
<1> QED
  BY <1>1, <1>2, <1>3 DEF Progress, GoesWrong

KeptOn(n) ==
  issues[n].open /\ issues[n].stamp /\ issues'[n].open /\ issues'[n].key = issues[n].key
    => issues'[n].stamp

LEMMA FindingsKeepStamp ==
  ASSUME TypeOK, NamesInv, OneInv, ApprovedInv, [Next]_vars,
         NEW n \in DOMAIN issues, issues[n].key \in FindingKeys
  PROVE  KeptOn(n)
<1> SUFFICES ASSUME issues[n].open, issues[n].stamp, issues'[n].key = issues[n].key
             PROVE  issues'[n].stamp
  BY DEF KeptOn
<1>1. ASSUME NEW r \in Runs, Progress(r) \/ GoesWrong(r) PROVE issues'[n].stamp
  BY <1>1, ReconcileKeepsStamp, OthersKeepStamp
<1>2. CASE Persons
  BY <1>2, PersonDoes
<1>3. CASE UNCHANGED vars
  BY <1>3 DEF vars
<1> QED
  BY <1>1, <1>2, <1>3 DEF Next

(* A permission stays on the issue of a finding for as long as the issue   *)
(* is open and keeps its name, whatever fails after the run's first        *)
(* listing: every rewrite of an issue goes by the stamp that was on it     *)
(* (agent/issues.py, agent/unlock.py).                                     *)
THEOREM FindingsKeepApproval ==
  ASSUME Alone, "unread" \notin Faults, "reopen" \notin People, InheritedOnce
  PROVE  Spec => [][\A n \in DOMAIN issues : issues[n].key \in FindingKeys => KeptOn(n)]_vars
<1> DEFINE Kept == \A n \in DOMAIN issues : issues[n].key \in FindingKeys => KeptOn(n)
<1>1. Init => OneInv
  BY OneInit
<1>2. TypeOK /\ NamesInv /\ OneInv /\ [Next]_vars => OneInv'
  BY OneStep
<1>3. TypeOK /\ NamesInv /\ ApprovedInv /\ [Next]_vars => ApprovedInv'
  BY ApprovedStep
<1>4. TypeOK /\ NamesInv /\ OneInv /\ ApprovedInv /\ [Next]_vars => [Kept]_vars
  BY FindingsKeepStamp
<1> QED
  BY <1>1, <1>2, <1>3, <1>4, ApprovedInit, TypeCorrect, NamesAreRight, PTL DEF Spec

-----------------------------------------------------------------------------
(* Issues about failing checks carry no permission where no comment can    *)
(* give one, so that their rewriting takes none.                           *)

(* No check that escalates is performed as one task: a comment on its      *)
(* issue starts nothing.                                                   *)
EscalationsUnowned == \A f \in FailureKeys : Narrow(f) = {}

InheritedUnstamped ==
  \A n \in DOMAIN Inherited : Inherited[n].key \in FailureKeys => ~ Inherited[n].stamp

(* No finding is found again under another name.                           *)
NoTwins ==
  \A j, k \in Keys :
    FingerprintOf[j] = FingerprintOf[k] /\ FingerprintOf[j] # NoFingerprint => j = k

LEMMA NothingMigrates ==
  ASSUME NoTwins, TypeOK, NamesInv, NEW r \in Runs, NEW key \in Keys
  PROVE  ~ MigrateTwin(r, key)
<1> SUFFICES ASSUME MigrateTwin(r, key) PROVE FALSE
  OBVIOUS
<1>1. PICK old \in Keys : Twins(r, key) = {old}
  BY DEF MigrateTwin
<1>2. old \notin Wanted(r) /\ FingerprintOf[key] # NoFingerprint /\ FingerprintOf[old] = FingerprintOf[key]
  BY <1>1 DEF Twins
<1>3. key \in Wanted(r)
  BY TurnCarries DEF MigrateTwin
<1> QED
  BY <1>2, <1>3 DEF NoTwins

LEMMA NamesStay ==
  ASSUME NoTwins, TypeOK, NamesInv, [Next]_vars, NEW n \in DOMAIN issues
  PROVE  issues'[n].key = issues[n].key
<1>1. ASSUME NEW r \in Runs, NEW key \in Keys,
             \/ \E changed \in BOOLEAN : Update(r, key, changed)
             \/ MigrateTwin(r, key) \/ Reopen(r, key) \/ ReopenCut(r, key)
             \/ Defer(r, key) \/ Raise(r, key)
             \/ CloseSuperseded(r, key) \/ KeepOpen(r, key) \/ CloseGone(r, key)
      PROVE  issues'[n].key = issues[n].key
  <2>1. ASSUME NEW changed \in BOOLEAN, Update(r, key, changed) PROVE issues'[n].key = issues[n].key
    BY <2>1, UpdateDoes
  <2>2. CASE Reopen(r, key) \/ ReopenCut(r, key)
    BY <2>2, ReopenDoes
  <2>3. CASE Raise(r, key)
    BY <2>3, RaiseDoes
  <2>4. CASE Defer(r, key)
    BY <2>4, DeferDoes
  <2>5. CASE KeepOpen(r, key) \/ CloseGone(r, key)
    BY <2>5, SettleDoes
  <2>6. CASE CloseSuperseded(r, key)
    BY <2>6, ReplaceDoes
  <2> QED
    BY <1>1, <2>1, <2>2, <2>3, <2>4, <2>5, <2>6, NothingMigrates
<1>2. ASSUME NEW r \in Runs, Reconcile(r) \/ \E k \in Keys : ReopenCut(r, k)
      PROVE  issues'[n].key = issues[n].key
  BY <1>1, <1>2 DEF Reconcile
<1>3. ASSUME NEW r \in Runs, StartTracking(r) PROVE issues'[n].key = issues[n].key
  BY <1>3, StartTrackingDoes
<1>4. ASSUME NEW r \in Runs, Start(r) \/ Halt(r) \/ Analyse(r) PROVE issues'[n].key = issues[n].key
  BY <1>4, EarlyDoes
<1>5. ASSUME NEW r \in Runs,
             Remember(r) \/ Forget(r) \/ PlatformFails(r) \/ IdentityFails(r) \/ Crash(r)
      PROVE  issues'[n].key = issues[n].key
  BY <1>5 DEF Remember, Forget, PlatformFails, IdentityFails, Crash
<1>6. ASSUME NEW r \in Runs, Progress(r) \/ GoesWrong(r) PROVE issues'[n].key = issues[n].key
  BY <1>2, <1>3, <1>4, <1>5, <1>6 DEF Progress, GoesWrong
<1>7. CASE Persons
  BY <1>7, PersonDoes
<1>8. CASE UNCHANGED vars
  BY <1>8 DEF vars
<1> QED
  BY <1>6, <1>7, <1>8 DEF Next

LEMMA EscalationsInit == InheritedUnstamped /\ Init => EscalationsInv
BY DEF Init, InheritedUnstamped, EscalationsInv, EscalationsUnstamped, PermittedFindings, NoView

(* Nothing is written on the issues.                                       *)
LEMMA EscalationsRead ==
  ASSUME Alone, EscalationsInv, NEW r \in Runs, issues' = issues,
         phase'[r] = "analysing" =>
           \A f \in view'[r].approvals \cap FailureKeys :
             view'[r].kind = "woken" /\ view'[r].asked = {f},
         phase'[r] \in {"concluded", "tracking"} => view'[r].approvals \cap FailureKeys = {}
  PROVE  EscalationsInv'
<1>1. \A s \in Runs : s = r
  BY DEF Alone
<1> QED
  BY <1>1 DEF EscalationsInv, EscalationsUnstamped, PermittedFindings

LEMMA BeginEscalations ==
  ASSUME TypeOK, Alone, EscalationsInv, NEW r \in Runs, NEW kind \in Kinds,
         NEW asked \in SUBSET Keys, NEW unlock \in BOOLEAN, NEW read \in BOOLEAN,
         Begin(r, kind, asked, unlock, read)
  PROVE  EscalationsInv'
<1>1. /\ issues' = issues /\ phase'[r] = "analysing"
      /\ unlock => kind = "woken"
      /\ kind = "woken" => \E k \in Keys : asked = {k}
  BY DEF Begin, TypeOK
<1> DEFINE existing == IF read THEN OpenTracked ELSE NoNumbers
           unlocked == IF unlock THEN asked ELSE {}
           granted == IF read THEN Granted ELSE {}
<1>2. view' = [view EXCEPT ![r] =
          [NoView EXCEPT !.kind = kind, !.asked = asked, !.unlocked = unlocked,
                         !.read = read, !.existing = existing,
                         !.stamped = StampedIn(existing),
                         !.approvals = granted \cup unlocked]]
  BY DEF Begin
<1>3. granted \cap FailureKeys = {}
  BY DEF Granted, OpenOf, EscalationsInv, EscalationsUnstamped
<1>4. unlocked # {} => kind = "woken" /\ unlocked = asked
  BY <1>1
<1> HIDE DEF existing, unlocked, granted
<1>5. /\ view'[r].approvals = granted \cup unlocked
      /\ view'[r].kind = kind /\ view'[r].asked = asked
  BY <1>2 DEF TypeOK, NoView
<1>6. \A f \in view'[r].approvals \cap FailureKeys : view'[r].kind = "woken" /\ view'[r].asked = {f}
  BY <1>1, <1>3, <1>4, <1>5
<1>7. phase'[r] \notin {"concluded", "tracking"}
  BY <1>1
<1> QED
  BY <1>1, <1>6, <1>7, EscalationsRead

LEMMA AnalyseEscalations ==
  ASSUME TypeOK, Alone, EscalationsInv, EscalationsUnowned, NEW r \in Runs, Analyse(r)
  PROVE  EscalationsInv'
<1>1. /\ Performed(r) # {}
      /\ \E outcomes, found, short, recalled : Conclude(r, outcomes, found, short, recalled)
  BY DEF Analyse
<1>2. /\ issues' = issues /\ phase[r] = "analysing" /\ phase'[r] = "concluded"
      /\ view'[r].approvals = view[r].approvals
  BY <1>1 DEF Conclude, TypeOK, View
<1>3. ASSUME NEW f \in view[r].approvals \cap FailureKeys PROVE FALSE
  <2>1. view[r].kind = "woken" /\ view[r].asked = {f}
    BY <1>2, <1>3 DEF EscalationsInv, PermittedFindings
  <2>2. Performed(r) = {Narrow(k) : k \in view[r].asked} \ {{}}
    BY <2>1 DEF Performed
  <2> QED
    BY <1>1, <2>1, <2>2 DEF EscalationsUnowned
<1>4. phase'[r] # "analysing" /\ view'[r].approvals \cap FailureKeys = {}
  BY <1>2, <1>3
<1> QED
  BY <1>2, <1>4, EscalationsRead

LEMMA StartTrackingEscalations ==
  ASSUME TypeOK, Alone, NamesInv, AllRead, EscalationsInv, NEW r \in Runs, StartTracking(r)
  PROVE  EscalationsInv'
<1>1. \A s \in Runs : s = r
  BY DEF Alone
<1>2. /\ DOMAIN issues' = DOMAIN issues
      /\ \A n \in DOMAIN issues : issues'[n].key = issues[n].key
      /\ view'[r].existing = view[r].existing /\ view'[r].approvals = view[r].approvals
      /\ phase[r] = "concluded" /\ phase'[r] = "tracking"
  BY StartTrackingDoes DEF AllRead
<1>3. \A k \in Keys : view[r].existing[k] # 0 => Carries(view[r].existing[k], k)
  BY <1>2 DEF NamesInv, NothingBooked, NoBook, ExistingCarry
<1>4. view[r].approvals \cap FailureKeys = {}
  BY <1>2 DEF EscalationsInv, PermittedFindings
<1>5. ASSUME NEW n \in DOMAIN issues, issues[n].key \in FailureKeys PROVE ~ issues'[n].stamp
  <2>1. ~ issues[n].stamp
    BY <1>5 DEF EscalationsInv, EscalationsUnstamped
  <2>2. \A k \in view[r].approvals \cap Keys : view[r].existing[k] = n /\ n # 0 => FALSE
    BY <1>3, <1>4, <1>5 DEF Carries
  <2> QED
    BY <1>2, <1>5, <2>1, <2>2, StampsWritten
<1>6. EscalationsUnstamped'
  BY <1>2, <1>5 DEF EscalationsUnstamped
<1> QED
  BY <1>1, <1>2, <1>4, <1>6 DEF EscalationsInv, PermittedFindings

(* An issue that a run writes for a key carries a permission only if the   *)
(* key is that of a finding.                                               *)
LEMMA StampIsOfFinding ==
  ASSUME TypeOK, NEW r \in Runs, NEW key \in FailureKeys
  PROVE  Stamp(r, key) = FALSE
BY ChecksAssumption DEF Stamp, TypeOK, View

LEMMA ReconcileEscalations ==
  ASSUME TypeOK, Alone, NamesInv, NoTwins, EscalationsInv, NEW r \in Runs,
         Reconcile(r) \/ \E k \in Keys : ReopenCut(r, k)
  PROVE  EscalationsUnstamped'
<1>1. PICK key \in Keys :
        \/ \E changed \in BOOLEAN : Update(r, key, changed)
        \/ MigrateTwin(r, key) \/ Reopen(r, key) \/ ReopenCut(r, key)
        \/ Defer(r, key) \/ Raise(r, key)
        \/ CloseSuperseded(r, key) \/ KeepOpen(r, key) \/ CloseGone(r, key)
  BY DEF Reconcile
<1>2. \A n \in DOMAIN issues : issues[n].key \in FailureKeys => ~ issues[n].stamp
  BY DEF EscalationsInv, EscalationsUnstamped
<1>3. ASSUME NEW changed \in BOOLEAN, Update(r, key, changed) PROVE EscalationsUnstamped'
  <2>1. Turn(r, key)
    BY <1>3 DEF Update
  <2>2. /\ view[r].existing[key] # 0
        /\ DOMAIN issues' = DOMAIN issues
        /\ \A m \in DOMAIN issues :
             /\ issues'[m].key = issues[m].key
             /\ m # view[r].existing[key] => issues'[m] = issues[m]
        /\ view[r].existing[key] \in DOMAIN issues =>
             \/ issues'[view[r].existing[key]].stamp = Stamp(r, key)
             \/ issues'[view[r].existing[key]] = issues[view[r].existing[key]]
    BY <1>3, UpdateDoes
  <2>3. issues[view[r].existing[key]].key = key
    BY <2>1, <2>2, TurnCarries DEF Carries
  <2> QED
    BY <1>2, <2>2, <2>3, StampIsOfFinding DEF EscalationsUnstamped
<1>4. CASE Reopen(r, key) \/ ReopenCut(r, key)
  <2>1. Turn(r, key) /\ book[r].closed[key] # 0
    BY <1>4 DEF Reopen, ReopenCut
  <2>2. issues[book[r].closed[key]].key = key
    BY <2>1, TurnCarries DEF Carries
  <2>3. /\ DOMAIN issues' = DOMAIN issues
        /\ \A m \in DOMAIN issues :
             /\ issues'[m].key = issues[m].key
             /\ \/ issues'[m].stamp = issues[m].stamp
                \/ m = book[r].closed[key] /\ issues'[m].stamp = Stamp(r, key)
    <3>1. CASE Reopen(r, key)
      <4>1. issues' = [issues EXCEPT ![book[r].closed[key]].open = TRUE,
                                     ![book[r].closed[key]].stamp = Stamp(r, key)]
        BY <3>1 DEF Reopen
      <4> QED
        BY <4>1, ReopenWrite
    <3>2. CASE ReopenCut(r, key)
      <4>1. issues' = [issues EXCEPT ![book[r].closed[key]].open = TRUE]
        BY <3>2 DEF ReopenCut
      <4> QED
        BY <4>1, OpenWrite
    <3> QED
      BY <1>4, <3>1, <3>2
  <2> SUFFICES ASSUME NEW m \in DOMAIN issues, issues[m].key \in FailureKeys
               PROVE  ~ issues'[m].stamp
    BY <2>3 DEF EscalationsUnstamped
  <2>4. ~ issues[m].stamp
    BY <1>2
  <2>5. CASE m = book[r].closed[key]
    BY <2>2, <2>3, <2>4, <2>5, StampIsOfFinding
  <2>6. CASE m # book[r].closed[key]
    BY <2>3, <2>4, <2>6
  <2> QED
    BY <2>5, <2>6
<1>5. CASE Raise(r, key)
  <2> DEFINE e == [key |-> key, open |-> TRUE, stamp |-> Stamp(r, key)]
  <2>1. issues' = Append(issues, e) /\ issues \in Seq(Issues) /\ Len(issues) \in Nat
    BY <1>5 DEF Raise, TypeOK
  <2>2. key \in FailureKeys => e.stamp = FALSE
    BY StampIsOfFinding
  <2>3. e.key = key
    OBVIOUS
  <2> HIDE DEF e
  <2>4. \A n \in DOMAIN issues' : (n \in DOMAIN issues /\ issues'[n] = issues[n]) \/ issues'[n] = e
    BY <2>1
  <2> QED
    BY <1>2, <2>2, <2>3, <2>4 DEF EscalationsUnstamped
<1>6. CASE Defer(r, key)
  BY <1>2, <1>6, DeferDoes DEF EscalationsUnstamped
<1>7. CASE KeepOpen(r, key) \/ CloseGone(r, key)
  BY <1>2, <1>7, SettleDoes DEF EscalationsUnstamped
<1>8. CASE CloseSuperseded(r, key)
  BY <1>2, <1>8, ReplaceDoes DEF EscalationsUnstamped
<1>9. ~ MigrateTwin(r, key)
  BY NothingMigrates
<1> QED
  BY <1>1, <1>3, <1>4, <1>5, <1>6, <1>7, <1>8, <1>9

LEMMA EscalationsStep ==
  ASSUME Alone, EscalationsUnowned, NoTwins, TypeOK, NamesInv, ApprovedInv, EscalationsInv, [Next]_vars
  PROVE  EscalationsInv'
<1>1. ASSUME NEW r \in Runs, Start(r) PROVE EscalationsInv'
  BY <1>1, BeginEscalations DEF Start
<1>2. ASSUME NEW r \in Runs, Reconcile(r) \/ \E k \in Keys : ReopenCut(r, k) PROVE EscalationsInv'
  <2>1. EscalationsUnstamped'
    BY <1>2, ReconcileEscalations
  <2>2. /\ phase[r] = "tracking" /\ phase'[r] \in {"tracking", "remember"}
        /\ view'[r].approvals = view[r].approvals
    <3>1. CASE Reconcile(r)
      BY <3>1, OthersWait
    <3>2. CASE \E k \in Keys : ReopenCut(r, k)
      BY <3>2 DEF ReopenCut, Turn, TypeOK
    <3> QED
      BY <1>2, <3>1, <3>2
  <2>3. \A s \in Runs : s = r
    BY DEF Alone
  <2> QED
    BY <2>1, <2>2, <2>3 DEF EscalationsInv, PermittedFindings
<1>3. ASSUME NEW r \in Runs,
             Halt(r) \/ Remember(r) \/ Forget(r) \/ PlatformFails(r) \/ IdentityFails(r) \/ Crash(r)
      PROVE  EscalationsInv'
  <2>1. issues' = issues /\ phase'[r] \in {"idle", "remember"}
    BY <1>3 DEF Halt, Remember, Forget, PlatformFails, IdentityFails, Crash, Leave, TypeOK
  <2> QED
    BY <2>1, EscalationsRead
<1>4. ASSUME NEW r \in Runs, Progress(r) \/ GoesWrong(r) PROVE EscalationsInv'
  BY <1>1, <1>2, <1>3, <1>4, AnalyseEscalations, StartTrackingEscalations
     DEF Progress, GoesWrong, ApprovedInv
<1>5. CASE Persons
  <2>1. /\ UNCHANGED <<phase, view, book>> /\ DOMAIN issues' = DOMAIN issues
        /\ \A m \in DOMAIN issues :
             issues'[m].key = issues[m].key /\ issues'[m].stamp = issues[m].stamp
    BY <1>5, PersonDoes
  <2> QED
    BY <2>1 DEF EscalationsInv, EscalationsUnstamped, PermittedFindings
<1>6. CASE UNCHANGED vars
  BY <1>6 DEF vars, EscalationsInv, EscalationsUnstamped, PermittedFindings
<1> QED
  BY <1>4, <1>5, <1>6 DEF Next

(* A permission stays on its issue for as long as the issue is open, where *)
(* no finding changes its name and no comment can give a failing check a   *)
(* permission.                                                             *)
THEOREM ApprovalsStay ==
  ASSUME Alone, "unread" \notin Faults, "reopen" \notin People, InheritedOnce,
         EscalationsUnowned, InheritedUnstamped, NoTwins
  PROVE  Spec => ApprovalStays
<1> DEFINE Stays == \A n \in DOMAIN issues :
                      issues[n].open /\ issues[n].stamp /\ issues'[n].open => issues'[n].stamp
           Inv == OneInv /\ ApprovedInv /\ EscalationsInv
<1>1. Init => Inv
  BY OneInit, ApprovedInit, EscalationsInit
<1>2. TypeOK /\ NamesInv /\ Inv /\ [Next]_vars => Inv'
  <2> SUFFICES ASSUME TypeOK, NamesInv, Inv, [Next]_vars PROVE Inv'
    OBVIOUS
  <2>1. OneInv' /\ ApprovedInv'
    BY OneStep, ApprovedStep
  <2>2. EscalationsInv'
    BY EscalationsStep
  <2> QED
    BY <2>1, <2>2
<1>3. TypeOK /\ NamesInv /\ Inv /\ [Next]_vars => Stays
  <2> SUFFICES ASSUME TypeOK, NamesInv, Inv, [Next]_vars, NEW n \in DOMAIN issues,
                      issues[n].open, issues[n].stamp, issues'[n].open
               PROVE  issues'[n].stamp
    OBVIOUS
  <2>1. issues[n].key \in FindingKeys
    <3>1. issues[n].key \in Keys
      BY IssueTypes DEF Issues
    <3>2. issues[n].key \notin FailureKeys
      BY DEF EscalationsInv, EscalationsUnstamped
    <3> QED
      BY <3>1, <3>2 DEF Keys
  <2>2. issues'[n].key = issues[n].key
    BY NamesStay
  <2> QED
    BY <2>1, <2>2, FindingsKeepStamp DEF KeptOn
<1>4. TypeOK /\ NamesInv /\ Inv /\ [Next]_vars => [Stays]_vars
  BY <1>3
<1> QED
  BY <1>1, <1>2, <1>4, TypeCorrect, NamesAreRight, PTL DEF Spec, ApprovalStays

-----------------------------------------------------------------------------
(* What the tracker remembers of bundles, as long as no document is lost.  *)

InheritedUnbundled ==
  \A n \in DOMAIN Inherited : Inherited[n].open => Inherited[n].key \notin BundleKeys

(* No run is cut off while it writes, and the document is read and stored. *)
DocumentsKept == {"platform", "crash", "memory_read", "memory_push"} \cap Faults = {}

LEMMA BundleInit == InheritedUnbundled /\ Init => BundleInv
BY DEF Init, InheritedUnbundled, BundleInv, OpenRemembered, ListedRemembered, SpokenLooked,
       OpenOf, Listed, NoView

(* A run that has not begun to reconcile.                                  *)
LEMMA BundleRead ==
  ASSUME Alone, NEW r \in Runs, phase[r] \in {"idle", "analysing", "concluded"},
         phase'[r] \in {"idle", "analysing", "concluded"}, BundleInv, UNCHANGED <<issues, memory>>,
         \A b \in BundleKeys : Listed(r)' /\ view'[r].existing[b] # 0 =>
           OpenOf(b) # {} \/ (Listed(r) /\ view[r].existing[b] # 0),
         view'[r].recalled,
         phase'[r] = "concluded" => \A b \in BundleKeys :
           b \in view'[r].speaks \cap view'[r].known.bundles => b \in view'[r].looked
  PROVE  BundleInv'
<1>1. \A s \in Runs : s = r
  BY DEF Alone
<1>2. \A b \in BundleKeys : OpenOf(b)' = OpenOf(b)
  BY DEF OpenOf
<1>3. OpenRemembered'
  BY <1>1, <1>2 DEF BundleInv, OpenRemembered
<1>4. ListedRemembered'
  BY <1>1, <1>2 DEF BundleInv, OpenRemembered, ListedRemembered
<1>5. SpokenLooked'
  BY <1>1 DEF SpokenLooked
<1> QED
  BY <1>3, <1>4, <1>5 DEF BundleInv

LEMMA BeginBundle ==
  ASSUME TypeOK, Alone, BundleInv, NEW r \in Runs, NEW kind \in Kinds, NEW asked \in SUBSET Keys,
         NEW unlock \in BOOLEAN, NEW read \in BOOLEAN, Begin(r, kind, asked, unlock, read)
  PROVE  BundleInv'
<1>1. UNCHANGED <<issues, memory>> /\ phase[r] = "idle" /\ phase'[r] = "analysing"
  BY DEF Begin, TypeOK
<1>2. view'[r].existing = (IF read THEN OpenTracked ELSE NoNumbers) /\ view'[r].recalled
  BY DEF Begin, TypeOK, NoView
<1>3. ASSUME NEW b \in BundleKeys, view'[r].existing[b] # 0 PROVE OpenOf(b) # {}
  <2>1. b \in Keys
    BY ChecksAssumption DEF Keys
  <2>2. read /\ OpenTracked[b] # 0
    BY <1>2, <1>3, <2>1 DEF NoNumbers
  <2> QED
    BY <2>1, <2>2, ListedNumbers
<1> QED
  BY <1>1, <1>2, <1>3, BundleRead

(* A run that remembers a bundle's members asks about each.                *)
LEMMA MembersAsked ==
  ASSUME NEW b \in BundleKeys, NEW outcomes, NEW short, NEW bundles, b \in bundles,
         Speaks(b, outcomes, short, bundles)
  PROVE  ~ Unproven(b, outcomes, MembersOf[b])
BY DEF Speaks, Members

LEMMA AnalyseBundle ==
  ASSUME TypeOK, Alone, BundleInv, DocumentsKept, NEW r \in Runs, Analyse(r)
  PROVE  BundleInv'
<1>1. PICK outcomes, found, short, recalled : Conclude(r, outcomes, found, short, recalled)
  BY DEF Analyse
<1>2. recalled
  BY <1>1 DEF Conclude, DocumentsKept
<1>3. /\ UNCHANGED <<issues, memory>> /\ phase[r] = "analysing" /\ phase'[r] = "concluded"
      /\ view'[r].existing = view[r].existing /\ view'[r].read = view[r].read
      /\ view'[r].recalled = recalled /\ view'[r].known = memory
      /\ view'[r].speaks = {k \in Keys : Speaks(k, outcomes, short, memory.bundles)}
      /\ view'[r].looked = {b \in BundleKeys : ~ Unproven(b, outcomes, MembersOf[b])}
  BY <1>1, <1>2 DEF Conclude, TypeOK, View
<1>4. \A b \in BundleKeys : b \in view'[r].speaks \cap view'[r].known.bundles => b \in view'[r].looked
  BY <1>3, MembersAsked
<1>5. Listed(r)' => Listed(r)
  BY <1>3 DEF Listed
<1> QED
  BY <1>2, <1>3, <1>4, <1>5, BundleRead

LEMMA LeaveBundle ==
  ASSUME TypeOK, Alone, BundleInv, NEW r \in Runs, Halt(r) \/ IdentityFails(r)
  PROVE  BundleInv'
<1>1. /\ UNCHANGED <<issues, memory>> /\ phase[r] \in {"analysing", "concluded"} /\ phase'[r] = "idle"
      /\ view'[r] = NoView
  BY DEF Halt, IdentityFails, Leave, TypeOK
<1>2. ~ Listed(r)' /\ view'[r].recalled
  BY <1>1 DEF Listed, NoView
<1> QED
  BY <1>1, <1>2, BundleRead

LEMMA StartTrackingBundle ==
  ASSUME TypeOK, Alone, NothingBooked, ReadIsStored, OneInv, BundleInv, NEW r \in Runs, StartTracking(r)
  PROVE  BundleInv'
<1>1. \A s \in Runs : s = r
  BY DEF Alone
<1>2. /\ DOMAIN issues' = DOMAIN issues
      /\ \A n \in DOMAIN issues : issues'[n].key = issues[n].key /\ issues'[n].open = issues[n].open
      /\ view'[r].existing = IF view[r].read THEN view[r].existing ELSE OpenTracked
      /\ book'[r].todo = Wanted(r)
      /\ book'[r].left = {k \in Keys : view'[r].existing[k] # 0} \ Wanted(r)
      /\ phase[r] = "concluded" /\ phase'[r] = "tracking"
  BY StartTrackingDoes
<1>3. /\ view'[r].known = view[r].known /\ view'[r].recalled = view[r].recalled
      /\ view'[r].speaks = view[r].speaks /\ view'[r].looked = view[r].looked
      /\ memory' = memory
  <2> DEFINE existing == IF view[r].read THEN view[r].existing ELSE OpenTracked
             stamped == IF view[r].read THEN view[r].stamped ELSE StampedIn(OpenTracked)
  <2>1. view' = [view EXCEPT ![r].existing = existing, ![r].stamped = stamped] /\ memory' = memory
    BY DEF StartTracking
  <2> HIDE DEF existing, stamped
  <2> QED
    BY <2>1 DEF TypeOK, View
<1>4. view[r].known = memory
  BY <1>2 DEF ReadIsStored, Concluded, BundleInv, SpokenLooked
<1>5. \A b \in BundleKeys : b \in Keys /\ OpenOf(b)' = OpenOf(b) /\ 0 \notin OpenOf(b)
  BY <1>2, ChecksAssumption, IssueTypes DEF OpenOf, Keys
<1>6. ASSUME NEW b \in BundleKeys
      PROVE  /\ OpenOf(b) \subseteq {view'[r].existing[b]}
             /\ view'[r].existing[b] # 0 => b \in memory.bundles
  <2>1. CASE view[r].read
    <3>1. Listed(r)
      BY <1>2, <2>1 DEF Listed
    <3> QED
      BY <1>2, <1>5, <2>1, <3>1 DEF OneInv, OneRead, Pending, BundleInv, ListedRemembered
  <2>2. CASE ~ view[r].read
    <3>1. OpenOf(b) \subseteq {OpenTracked[b]}
      BY <1>5, ListedIsOnly DEF OneInv
    <3>2. OpenTracked[b] # 0 => OpenOf(b) # {}
      BY <1>5, ListedNumbers
    <3> QED
      BY <1>2, <2>2, <3>1, <3>2 DEF BundleInv, OpenRemembered
  <2> QED
    BY <2>1, <2>2
<1>7. OpenRemembered'
  BY <1>1, <1>2, <1>5, <1>6 DEF OpenRemembered
<1>8. ListedRemembered'
  BY <1>1, <1>2, <1>3, <1>4, <1>5, <1>6 DEF ListedRemembered, Listed
<1>9. SpokenLooked'
  BY <1>1, <1>2, <1>3 DEF BundleInv, SpokenLooked
<1> QED
  BY <1>7, <1>8, <1>9 DEF BundleInv

(* What a step on a key that the run found, or escalates, remembers.       *)
LEMMA TrackedBundles ==
  ASSUME TypeOK, NEW r \in Runs, NEW key \in Keys,
         \/ \E changed \in BOOLEAN : Update(r, key, changed)
         \/ MigrateTwin(r, key) \/ Reopen(r, key) \/ Raise(r, key)
  PROVE  book'[r].bundles = book[r].bundles \cup ({key} \cap BundleKeys)
<1>1. \A n : Tracked(r, key, n).bundles = book[r].bundles \cup ({key} \cap BundleKeys)
  BY DEF Tracked, ReportedBundles, TypeOK, Book
<1>2. CASE (\E changed \in BOOLEAN : Update(r, key, changed)) \/ Reopen(r, key)
  <2>1. \E n : book' = [book EXCEPT ![r] = Tracked(r, key, n)]
    BY <1>2 DEF Update, Reopen
  <2> QED
    BY <1>1, <2>1 DEF TypeOK
<1>3. CASE MigrateTwin(r, key)
  <2>1. PICK old \in Keys :
          book' = [book EXCEPT ![r] =
             [Tracked(r, key, view[r].existing[old]) EXCEPT !.absorbed = @ \cup {old},
                                                            !.left = @ \ {old}]]
    BY <1>3 DEF MigrateTwin
  <2>2. PICK b \in Book : b = Tracked(r, key, view[r].existing[old])
    BY ReadNumbers, TrackedType
  <2>3. book'[r] = [b EXCEPT !.absorbed = @ \cup {old}, !.left = @ \ {old}]
    BY <2>1, <2>2 DEF TypeOK
  <2>4. book'[r].bundles = b.bundles
    BY <2>3 DEF Book
  <2> QED
    BY <1>1, <2>2, <2>4
<1>4. CASE Raise(r, key)
  <2>1. /\ book' = [book EXCEPT ![r] =
             [Tracked(r, key, Len(issues) + 1) EXCEPT !.raised = @ + 1,
                                                      !.subjects = @ \cup {SubjectOf[key]}]]
        /\ Len(issues) + 1 \in 0..MaxIssues
    BY <1>4, TrackerAssumption DEF Raise, TypeOK
  <2>2. PICK b \in Book : b = Tracked(r, key, Len(issues) + 1)
    BY <2>1, TrackedType
  <2>3. book'[r] = [b EXCEPT !.raised = @ + 1, !.subjects = @ \cup {SubjectOf[key]}]
    BY <2>1, <2>2 DEF TypeOK
  <2>4. book'[r].bundles = b.bundles
    BY <2>3 DEF Book
  <2> QED
    BY <1>1, <2>2, <2>4
<1> QED
  BY <1>2, <1>3, <1>4

LEMMA KeptBundles ==
  ASSUME TypeOK, NEW r \in Runs, NEW key \in Keys,
         Defer(r, key) \/ KeepOpen(r, key) \/ CloseGone(r, key)
  PROVE  /\ book[r].bundles \subseteq book'[r].bundles
         /\ KeepOpen(r, key) /\ key \in view[r].known.bundles => key \in book'[r].bundles
<1>1. book[r] \in Book
  BY DEF TypeOK
<1>2. CASE Defer(r, key)
  <2>1. book'[r] = [book[r] EXCEPT !.todo = @ \ {key}, !.deferred = @ \cup {key}]
    BY <1>2 DEF Defer, TypeOK
  <2>2. book'[r].bundles = book[r].bundles
    BY <1>1, <2>1 DEF Book
  <2>3. ~ KeepOpen(r, key)
    BY <1>2 DEF Defer, Turn, First, KeepOpen, Settles
  <2> QED
    BY <2>2, <2>3
<1>3. CASE KeepOpen(r, key)
  <2>1. book'[r] = [book[r] EXCEPT !.left = @ \ {key},
                           !.kept = Carried(@, key, view[r].known.absent, key \in view[r].speaks),
                           !.bundles = CarriedBundles(@, key, view[r].known.bundles)]
    BY <1>3 DEF KeepOpen, TypeOK
  <2>2. book'[r].bundles = CarriedBundles(book[r].bundles, key, view[r].known.bundles)
    BY <1>1, <2>1 DEF Book
  <2> QED
    BY <2>2 DEF CarriedBundles
<1>4. CASE ~ KeepOpen(r, key) /\ CloseGone(r, key)
  <2>1. book'[r] = [book[r] EXCEPT !.left = @ \ {key}]
    BY <1>4, CloseDoes
  <2>2. book'[r].bundles = book[r].bundles
    BY <1>1, <2>1 DEF Book
  <2> QED
    BY <1>4, <2>2
<1> QED
  BY <1>2, <1>3, <1>4

(* A step of the reconciliation.                                           *)
LEMMA BundleTracked ==
  ASSUME Alone, BundleInv, NEW r \in Runs, UNCHANGED <<phase, view>>, phase[r] = "tracking",
         book'[r].left \subseteq book[r].left,
         \A b \in BundleKeys :
           /\ OpenOf(b)' # {} => b \in book'[r].bundles \cup book'[r].todo \cup book'[r].left
           /\ b \in book'[r].left => OpenOf(b)' \subseteq OpenOf(b)
  PROVE  BundleInv'
<1>1. \A s \in Runs : s = r
  BY DEF Alone
<1>2. OpenRemembered'
  BY <1>1 DEF OpenRemembered
<1>3. ListedRemembered'
  BY <1>1 DEF BundleInv, ListedRemembered, Listed
<1>4. SpokenLooked'
  BY DEF BundleInv, SpokenLooked
<1> QED
  BY <1>2, <1>3, <1>4 DEF BundleInv

(* A key is tracked: of the bundles, none but it may have got open issues. *)
LEMMA BundleOpened ==
  ASSUME Alone, TypeOK, NamesInv, BundleInv, NEW r \in Runs, NEW key \in Keys,
         UNCHANGED <<phase, view>>, Turn(r, key),
         book'[r].todo = book[r].todo \ {key},
         book'[r].left \subseteq book[r].left,
         \A b \in BundleKeys : b \in book[r].left => b \in book'[r].left,
         book[r].bundles \cup ({key} \cap BundleKeys) \subseteq book'[r].bundles
           \/ (book[r].bundles \subseteq book'[r].bundles /\ OpenOf(key)' = {}),
         \A b \in BundleKeys \ {key} : OpenOf(b)' \subseteq OpenOf(b)
  PROVE  BundleInv'
<1>1. phase[r] = "tracking" /\ key \notin book[r].left
  BY TurnCarries DEF Turn, NamesInv, TodoInv
<1>2. ASSUME NEW b \in BundleKeys
      PROVE  /\ OpenOf(b)' # {} => b \in book'[r].bundles \cup book'[r].todo \cup book'[r].left
             /\ b \in book'[r].left => OpenOf(b)' \subseteq OpenOf(b)
  <2>1. CASE b = key
    BY <1>1, <2>1
  <2>2. CASE b # key
    <3>1. OpenOf(b) # {} => b \in book[r].bundles \cup book[r].todo \cup book[r].left
      BY <1>1 DEF BundleInv, OpenRemembered
    <3>2. OpenOf(b)' \subseteq OpenOf(b)
      BY <2>2
    <3> QED
      BY <2>2, <3>1, <3>2
  <2> QED
    BY <2>1, <2>2
<1> QED
  BY <1>1, <1>2, BundleTracked

LEMMA UpdateBundle ==
  ASSUME TypeOK, Alone, NamesInv, BundleInv, NEW r \in Runs, NEW key \in Keys,
         NEW changed \in BOOLEAN, Update(r, key, changed)
  PROVE  BundleInv'
<1>1. Turn(r, key) /\ UNCHANGED <<phase, view>>
  BY DEF Update
<1>2. DOMAIN issues' = DOMAIN issues
      /\ \A m \in DOMAIN issues : issues'[m].key = issues[m].key /\ issues'[m].open = issues[m].open
  BY UpdateDoes
<1>3. \A b \in BundleKeys : OpenOf(b)' = OpenOf(b)
  BY <1>2 DEF OpenOf
<1>4. book'[r].todo = book[r].todo \ {key} /\ book'[r].left = book[r].left
  BY UpdateBooks
<1>5. book'[r].bundles = book[r].bundles \cup ({key} \cap BundleKeys)
  BY TrackedBundles
<1> QED
  BY <1>1, <1>3, <1>4, <1>5, BundleOpened

(* Bundles have no fingerprint: their issues never change names.           *)
LEMMA MigrateBundle ==
  ASSUME TypeOK, Alone, NamesInv, BundleInv, NEW r \in Runs, NEW key \in Keys, MigrateTwin(r, key)
  PROVE  BundleInv'
<1>1. Turn(r, key) /\ UNCHANGED <<phase, view>>
  BY DEF MigrateTwin
<1>2. PICK old \in Keys :
        /\ Twins(r, key) = {old}
        /\ issues' = [issues EXCEPT ![view[r].existing[old]].key = key,
                                    ![view[r].existing[old]].stamp = Stamp(r, key)]
        /\ book' = [book EXCEPT ![r] =
             [Tracked(r, key, view[r].existing[old]) EXCEPT !.absorbed = @ \cup {old},
                                                            !.left = @ \ {old}]]
  BY DEF MigrateTwin
<1>3. /\ old \notin Wanted(r) \cup book[r].absorbed /\ view[r].existing[old] # 0
      /\ FingerprintOf[key] # NoFingerprint /\ FingerprintOf[old] = FingerprintOf[key]
  BY <1>2 DEF Twins
<1>4. old \notin BundleKeys /\ key \notin BundleKeys
  BY <1>3, TrackerAssumption
<1>5. Carries(view[r].existing[old], old)
  BY <1>3 DEF NamesInv, ExistingCarry
<1>6. /\ DOMAIN issues' = DOMAIN issues
      /\ \A m \in DOMAIN issues :
           /\ issues'[m].open = issues[m].open
           /\ IF m = view[r].existing[old] THEN issues'[m].key = key ELSE issues'[m] = issues[m]
  <2>1. \A m \in DOMAIN issues : issues[m] \in Issues
    BY DEF TypeOK
  <2>2. DOMAIN issues' = DOMAIN issues
    BY <1>2
  <2>3. ASSUME NEW m \in DOMAIN issues
        PROVE  /\ issues'[m].open = issues[m].open
               /\ IF m = view[r].existing[old] THEN issues'[m].key = key ELSE issues'[m] = issues[m]
    BY <1>2, <2>1 DEF Issues
  <2> QED
    BY <2>2, <2>3
<1>7. \A b \in BundleKeys : OpenOf(b)' = OpenOf(b)
  BY <1>4, <1>5, <1>6 DEF OpenOf, Carries
<1>8. /\ book'[r].todo = book[r].todo \ {key}
      /\ book'[r].left = book[r].left \ {old}
  <2>1. PICK b \in Book : b = Tracked(r, key, view[r].existing[old])
    BY ReadNumbers, TrackedType
  <2>2. book'[r] = [b EXCEPT !.absorbed = @ \cup {old}, !.left = @ \ {old}]
    BY <1>2, <2>1 DEF TypeOK
  <2>3. b.todo = book[r].todo \ {key} /\ b.left = book[r].left
    BY <2>1, TrackedBook
  <2> QED
    BY <2>2, <2>3 DEF Book
<1>9. book'[r].bundles = book[r].bundles \cup ({key} \cap BundleKeys)
  BY TrackedBundles
<1> QED
  BY <1>1, <1>4, <1>7, <1>8, <1>9, BundleOpened

LEMMA ReopenBundle ==
  ASSUME TypeOK, Alone, NamesInv, BundleInv, NEW r \in Runs, NEW key \in Keys, Reopen(r, key)
  PROVE  BundleInv'
<1>1. Turn(r, key) /\ UNCHANGED <<phase, view>>
  BY DEF Reopen
<1>2. /\ book[r].closed[key] # 0
      /\ DOMAIN issues' = DOMAIN issues
      /\ \A m \in DOMAIN issues :
           /\ issues'[m].key = issues[m].key
           /\ m # book[r].closed[key] => issues'[m] = issues[m]
  BY ReopenDoes
<1>3. Carries(book[r].closed[key], key)
  BY <1>1, <1>2, TurnCarries
<1>4. \A b \in BundleKeys \ {key} : OpenOf(b)' \subseteq OpenOf(b)
  BY <1>2, <1>3 DEF OpenOf, Carries
<1>5. book'[r].todo = book[r].todo \ {key} /\ book'[r].left = book[r].left
  BY ReopenBooks
<1>6. book'[r].bundles = book[r].bundles \cup ({key} \cap BundleKeys)
  BY TrackedBundles
<1> QED
  BY <1>1, <1>4, <1>5, <1>6, BundleOpened

LEMMA RaiseBundle ==
  ASSUME TypeOK, Alone, NamesInv, BundleInv, NEW r \in Runs, NEW key \in Keys, Raise(r, key)
  PROVE  BundleInv'
<1>1. Turn(r, key) /\ UNCHANGED <<phase, view>>
  BY DEF Raise
<1>2. /\ DOMAIN issues' = DOMAIN issues \cup {Len(issues) + 1}
      /\ \A m \in DOMAIN issues : issues'[m] = issues[m]
      /\ issues'[Len(issues) + 1].key = key
      /\ book'[r].todo = book[r].todo \ {key} /\ book'[r].left = book[r].left
  BY RaiseDoes
<1>3. \A b \in BundleKeys \ {key} : OpenOf(b)' \subseteq OpenOf(b)
  BY <1>2 DEF OpenOf
<1>4. book'[r].bundles = book[r].bundles \cup ({key} \cap BundleKeys)
  BY TrackedBundles
<1> QED
  BY <1>1, <1>2, <1>3, <1>4, BundleOpened

(* A finding that is put off has no open issue.                            *)
LEMMA DeferBundle ==
  ASSUME TypeOK, Alone, NamesInv, OneInv, BundleInv, NEW r \in Runs, NEW key \in Keys, Defer(r, key)
  PROVE  BundleInv'
<1>1. Turn(r, key) /\ UNCHANGED <<phase, view>> /\ view[r].existing[key] = 0
  BY DEF Defer, New
<1>2. /\ issues' = issues
      /\ book'[r].todo = book[r].todo \ {key} /\ book'[r].left = book[r].left
      /\ book[r].bundles \subseteq book'[r].bundles
  BY DeferDoes, KeptBundles
<1>3. \A b : OpenOf(b)' = OpenOf(b)
  BY <1>2 DEF OpenOf
<1>4. OpenOf(key) = {}
  <2>1. OpenOf(key) \subseteq {0}
    BY <1>1, TurnCarries DEF OneInv, OneRead, Pending, Turn
  <2> QED
    BY <2>1, IssueTypes DEF OpenOf
<1> QED
  BY <1>1, <1>2, <1>3, <1>4, BundleOpened

(* What is kept open is remembered, and what is closed has no open issue.  *)
LEMMA SettleBundle ==
  ASSUME TypeOK, Alone, BundleInv, NEW r \in Runs, NEW key \in Keys,
         KeepOpen(r, key) \/ CloseGone(r, key)
  PROVE  BundleInv'
<1>1. /\ DOMAIN issues' = DOMAIN issues
      /\ \A m \in DOMAIN issues :
           issues'[m].key = issues[m].key /\ (issues'[m].open => issues[m].open)
      /\ UNCHANGED <<phase, view>> /\ phase[r] = "tracking"
      /\ key \in book[r].left /\ book[r].todo = {} /\ book'[r].todo = {}
      /\ book'[r].left = book[r].left \ {key}
  BY SettleDoes
<1>2. \A b : OpenOf(b)' \subseteq OpenOf(b)
  BY <1>1 DEF OpenOf
<1>3. /\ book[r].bundles \subseteq book'[r].bundles
      /\ KeepOpen(r, key) /\ key \in view[r].known.bundles => key \in book'[r].bundles
  BY KeptBundles
<1>4. ASSUME key \in BundleKeys PROVE key \in book'[r].bundles \/ OpenOf(key)' = {}
  <2>1. key \in view[r].known.bundles /\ OpenOf(key) \subseteq {view[r].existing[key]}
    BY <1>1, <1>4 DEF BundleInv, ListedRemembered
  <2>2. CASE KeepOpen(r, key)
    BY <1>3, <2>1, <2>2
  <2>3. CASE CloseGone(r, key)
    <3>1. issues' = [issues EXCEPT ![view[r].existing[key]].open = FALSE]
      BY <2>3 DEF CloseGone
    <3>2. \A m \in DOMAIN issues : m = view[r].existing[key] => issues'[m].open = FALSE
      <4> DEFINE n == view[r].existing[key]
      <4>1. issues' = [issues EXCEPT ![n].open = FALSE]
        BY <3>1
      <4> HIDE DEF n
      <4>2. \A m \in DOMAIN issues : IF m = n THEN issues'[m].open = FALSE ELSE issues'[m] = issues[m]
        BY <4>1, OpenWrite
      <4> QED
        BY <4>2 DEF n
    <3> QED
      BY <1>1, <1>2, <2>1, <3>2 DEF OpenOf
  <2> QED
    BY <2>2, <2>3
<1>5. ASSUME NEW b \in BundleKeys, OpenOf(b)' # {}
      PROVE  b \in book'[r].bundles \cup book'[r].todo \cup book'[r].left
  <2>1. b \in book[r].bundles \cup book[r].left
    BY <1>1, <1>2, <1>5 DEF BundleInv, OpenRemembered
  <2> QED
    BY <1>1, <1>3, <1>4, <1>5, <2>1
<1> QED
  BY <1>1, <1>2, <1>5, BundleTracked

(* No bundle's own issue is ever closed as replaced.                       *)
LEMMA ReplaceBundle ==
  ASSUME TypeOK, Alone, BundleInv, NEW r \in Runs, NEW old \in Keys, CloseSuperseded(r, old)
  PROVE  BundleInv'
<1>1. \A s \in Runs : s = r
  BY DEF Alone
<1>2. /\ DOMAIN issues' = DOMAIN issues
      /\ \A m \in DOMAIN issues :
           issues'[m].key = issues[m].key /\ (issues'[m].open => issues[m].open)
      /\ UNCHANGED phase /\ phase[r] = "tracking"
      /\ \E k \in Wanted(r) : old \in Supersedes[k]
      /\ book[r].todo = {} /\ book'[r].todo = {}
      /\ book'[r].left = book[r].left \ {old} /\ book'[r].bundles = book[r].bundles
  BY ReplaceDoes
<1>3. /\ view[r].existing \in [Keys -> 0..MaxIssues]
      /\ view'[r].existing = [view[r].existing EXCEPT ![old] = 0]
      /\ view'[r].known = view[r].known /\ view'[r].recalled = view[r].recalled
      /\ view'[r].speaks = view[r].speaks /\ view'[r].looked = view[r].looked
  BY ReplaceView DEF TypeOK, View
<1>4. old \notin BundleKeys
  <2>1. Wanted(r) \subseteq Keys
    BY DEF Wanted, TypeOK, View, Keys
  <2> QED
    BY <1>2, <2>1, TrackerAssumption
<1>5. \A b : OpenOf(b)' \subseteq OpenOf(b)
  BY <1>2 DEF OpenOf
<1>6. \A b \in BundleKeys : b \in Keys /\ view'[r].existing[b] = view[r].existing[b]
  BY <1>3, <1>4, ChecksAssumption DEF Keys
<1>7. OpenRemembered'
  BY <1>1, <1>2, <1>4, <1>5 DEF BundleInv, OpenRemembered
<1>8. ListedRemembered'
  BY <1>1, <1>2, <1>3, <1>5, <1>6 DEF BundleInv, ListedRemembered, Listed
<1>9. SpokenLooked'
  BY <1>1, <1>2, <1>3 DEF BundleInv, SpokenLooked
<1> QED
  BY <1>7, <1>8, <1>9 DEF BundleInv

LEMMA RememberBundle ==
  ASSUME TypeOK, Alone, ReadIsStored, BundleInv, NEW r \in Runs, Remember(r)
  PROVE  BundleInv'
<1>1. \A s \in Runs : s = r
  BY DEF Alone
<1>2. /\ issues' = issues /\ phase'[r] = "idle" /\ view'[r] = NoView
      /\ memory' = IF NothingNew(r) THEN memory ELSE Document(r)
      /\ phase[r] = "tracking" /\ book[r].todo = {} /\ book[r].left = {}
  BY DEF Remember, Leave, TypeOK, BundleInv, SpokenLooked, Reconciled
<1>3. memory'.bundles = book[r].bundles
  <2>1. Document(r).bundles = book[r].bundles
    BY DEF Document
  <2>2. NothingNew(r) => Document(r) = memory
    BY <1>2 DEF NothingNew, ReadIsStored, Concluded
  <2> QED
    BY <1>2, <2>1, <2>2
<1>4. \A b \in BundleKeys : OpenOf(b)' # {} => b \in memory'.bundles
  BY <1>2, <1>3 DEF OpenOf, BundleInv, OpenRemembered
<1>5. OpenRemembered'
  BY <1>1, <1>2, <1>4 DEF OpenRemembered
<1>6. ListedRemembered'
  BY <1>1, <1>2 DEF ListedRemembered, Listed
<1>7. SpokenLooked'
  BY <1>1, <1>2 DEF SpokenLooked, NoView
<1> QED
  BY <1>5, <1>6, <1>7 DEF BundleInv

LEMMA StillBundle ==
  ASSUME BundleInv, UNCHANGED <<memory, phase, view, book>>,
         \A m \in DOMAIN issues' :
           issues'[m].open => m \in DOMAIN issues /\ issues[m].open /\ issues'[m].key = issues[m].key
  PROVE  BundleInv'
<1>1. \A b : OpenOf(b)' \subseteq OpenOf(b)
  BY DEF OpenOf
<1>2. OpenRemembered'
  BY <1>1 DEF BundleInv, OpenRemembered
<1>3. ListedRemembered'
  BY <1>1 DEF BundleInv, ListedRemembered, Listed
<1>4. SpokenLooked'
  BY DEF BundleInv, SpokenLooked
<1> QED
  BY <1>2, <1>3, <1>4 DEF BundleInv

LEMMA BundleStep ==
  ASSUME Alone, DocumentsKept, "reopen" \notin People,
         TypeOK, NamesInv, ReadIsStored, OneInv, BundleInv, [Next]_vars
  PROVE  BundleInv'
<1>1. ASSUME NEW r \in Runs, Start(r) PROVE BundleInv'
  BY <1>1, BeginBundle DEF Start
<1>2. ASSUME NEW r \in Runs, StartTracking(r) PROVE BundleInv'
  BY <1>2, StartTrackingBundle DEF NamesInv
<1>3. ASSUME NEW r \in Runs, Reconcile(r) PROVE BundleInv'
  BY <1>3, UpdateBundle, MigrateBundle, ReopenBundle, RaiseBundle, DeferBundle,
     ReplaceBundle, SettleBundle DEF Reconcile
<1>4. ASSUME NEW r \in Runs, GoesWrong(r) PROVE BundleInv'
  <2>1. IdentityFails(r)
    BY <1>4 DEF GoesWrong, ReopenCut, Forget, PlatformFails, Crash, DocumentsKept
  <2> QED
    BY <2>1, LeaveBundle
<1>5. ASSUME NEW r \in Runs, Progress(r) PROVE BundleInv'
  BY <1>1, <1>2, <1>3, <1>5, LeaveBundle, AnalyseBundle, RememberBundle DEF Progress
<1>6. CASE Persons
  <2>1. /\ UNCHANGED <<memory, phase, view, book>> /\ DOMAIN issues' = DOMAIN issues
        /\ \A m \in DOMAIN issues :
             issues'[m].key = issues[m].key /\ (issues'[m].open => issues[m].open)
    BY <1>6, PersonDoes
  <2> QED
    BY <2>1, StillBundle
<1>7. CASE UNCHANGED vars
  BY <1>7, StillBundle DEF vars
<1> QED
  BY <1>4, <1>5, <1>6, <1>7 DEF Next

(* An issue about a bundle closes only on a run that completed the checks  *)
(* of every member's ecosystem, as long as the document that names the     *)
(* members is neither lost nor cut short (agent/absence.py).               *)
THEOREM BundlesAreLooked ==
  ASSUME Alone, DocumentsKept, "reopen" \notin People, InheritedOnce, InheritedUnbundled
  PROVE  Spec => BundleLooked
<1> DEFINE Looked == \A r \in Runs, b \in BundleKeys : CloseGone(r, b) => b \in view[r].looked
<1>1. Init => OneInv /\ BundleInv
  BY OneInit, BundleInit
<1>2. TypeOK /\ NamesInv /\ OneInv /\ [Next]_vars => OneInv'
  BY OneStep
<1>3. TypeOK /\ NamesInv /\ StreakInv /\ OneInv /\ BundleInv /\ [Next]_vars => BundleInv'
  BY BundleStep DEF StreakInv
<1>4. BundleInv => Looked
  <2> SUFFICES ASSUME BundleInv, NEW r \in Runs, NEW b \in BundleKeys, CloseGone(r, b)
               PROVE  b \in view[r].looked
    OBVIOUS
  <2>1. phase[r] = "tracking" /\ b \in book[r].left /\ b \in view[r].speaks
    BY DEF CloseGone, Settles, First, MayClose
  <2>2. b \in view[r].known.bundles
    BY <2>1 DEF BundleInv, ListedRemembered
  <2> QED
    BY <2>1, <2>2 DEF BundleInv, SpokenLooked
<1>5. BundleInv => [Looked]_vars
  BY <1>4
<1> QED
  BY <1>1, <1>2, <1>3, <1>5, TypeCorrect, NamesAreRight, StreaksAreBounded, PTL DEF Spec, BundleLooked
=============================================================================
