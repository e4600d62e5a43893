------------------------------ MODULE Tracker -------------------------------
(***************************************************************************)
(* Maintenance runs reconciling what they found with the tracked issues,   *)
(* and the document they leave for the next run.                           *)
(*                                                                         *)
(* A run reads the open issues and their unlock stamps when it starts,     *)
(* spends its time analysing, reads the memory document, and only then     *)
(* writes: first the issues, one platform call after another, then the     *)
(* document.  Between any two of those steps a person may close or reopen  *)
(* an issue, the platform may refuse a call, or the run may be killed.     *)
(***************************************************************************)
EXTENDS Absence, Escalate, Sequences, FiniteSetsExt

CONSTANTS
  Runs,          \* runs that may be under way at once; one, under the concurrency group
  Kinds,         \* how runs start: "scheduled", "manual", "woken"
  Limit,         \* new issues per run
  SubjectOf,     \* the subject or bundle a key counts under
  FingerprintOf, \* capability, path and symbol of a code key, or NoFingerprint
  NoFingerprint,
  Supersedes,    \* keys whose issues a key's own issue replaces: of a bundle the
                 \*   keys of its pins, of a vulnerable pin those of its advisories
  Rank,          \* the order in which a run raises: escalations, vulnerabilities, rest
  Faults,        \* what may go wrong
  People,        \* what people may do to an issue: "close", "reopen"
  Inherited,     \* issues an earlier version left
  Stories,       \* bound: the findings that occur together in one behaviour
  MaxIssues      \* bound on the issues ever raised

Issues == [key : Keys, open : BOOLEAN, stamp : BOOLEAN]

ASSUME TrackerAssumption ==
  /\ Kinds \subseteq {"scheduled", "manual", "woken"} /\ Kinds # {}
  /\ Limit \in Nat /\ MaxIssues \in Nat
  /\ Supersedes \in [Keys -> SUBSET (FindingKeys \ BundleKeys)]
  /\ \A k \in Keys : k \notin Supersedes[k]
  /\ \A f \in FailureKeys : Supersedes[f] = {}
  /\ \A k \in Keys : Rank[k] \in Nat
  /\ \A j, k \in Keys : Rank[j] = Rank[k] => j = k
  /\ \A k \in FailureKeys \cup BundleKeys : FingerprintOf[k] = NoFingerprint
  /\ Stories \subseteq SUBSET FindingKeys
  /\ Inherited \in Seq(Issues) /\ Len(Inherited) <= MaxIssues
  /\ Faults \subseteq
       {"unread", "memory_read", "memory_push", "identity", "platform", "crash"}
  /\ People \subseteq {"close", "reopen"}

VARIABLES
  issues,  \* every issue the agent raised, by number
  memory,  \* the document at the state ref
  phase,   \* how far each run is
  view,    \* what each run read and concluded
  book,    \* what each run has written, and is to write
  seen     \* observed: complete answers without a finding since a run that
           \*   listed it last got its document stored

vars == <<issues, memory, phase, view, book, seen>>

Phases == {"idle", "analysing", "concluded", "tracking", "remember"}

Documents ==
  [absent : [FindingKeys -> 0..Threshold], failing : [FailureKeys -> 0..StreakCap],
   bundles : SUBSET BundleKeys]

NoMemory == [absent |-> NoStreak, failing |-> NoFailure, bundles |-> {}]

NoNumbers == [k \in Keys |-> 0]

NoView ==
  [kind |-> "none", asked |-> {}, unlocked |-> {}, read |-> TRUE,
   existing |-> NoNumbers, stamped |-> {}, approvals |-> {},
   found |-> {}, escalated |-> {}, speaks |-> {}, looked |-> {},
   recalled |-> TRUE, known |-> NoMemory, failing |-> NoFailure]

NoBook ==
  [todo |-> {}, left |-> {}, number |-> NoNumbers, closed |-> NoNumbers,
   absorbed |-> {}, raised |-> 0, subjects |-> {}, deferred |-> {},
   kept |-> NoStreak, bundles |-> {}]

Init ==
  /\ issues = Inherited
  /\ memory = NoMemory
  /\ phase = [r \in Runs |-> "idle"]
  /\ view = [r \in Runs |-> NoView]
  /\ book = [r \in Runs |-> NoBook]
  /\ seen = NoStreak

-----------------------------------------------------------------------------
(* What the platform answers when it is asked for the issues.              *)

OpenOf(key) == {n \in DOMAIN issues : issues[n].key = key /\ issues[n].open}

ClosedOf(key) == {n \in DOMAIN issues : issues[n].key = key /\ ~ issues[n].open}

Newest(numbers) == Max(numbers \cup {0})

OpenTracked == [k \in Keys |-> Newest(OpenOf(k))]

ClosedByKey(needed) == [k \in Keys |-> IF k \in needed THEN Newest(ClosedOf(k)) ELSE 0]

Granted == {k \in Keys : \E n \in OpenOf(k) : issues[n].stamp}

StampedIn(existing) == {k \in Keys : existing[k] # 0 /\ issues[existing[k]].stamp}

(* The keys a run reconciles: what it found and what it escalates.         *)
Wanted(r) == view[r].found \cup view[r].escalated

(* Mutant: a permission given by this run's comment is not counted.        *)
StampAsListed(r, key) == key \in view[r].found /\ key \in view[r].stamped

(* Mutant: only a permission given by this run's comment is counted.       *)
StampJustGiven(r, key) == key \in view[r].found /\ key \in view[r].unlocked

(* A finding's body carries its approval; an escalation's body carries none. *)
Stamp(r, key) == key \in view[r].found /\ key \in view[r].approvals

-----------------------------------------------------------------------------
(* A run starts: its comment is read, the open issues and their stamps are *)
(* listed.  A run that may not fix, or whose listing fails, has no stamps. *)

Begin(r, kind, asked, unlock, read) ==
  /\ phase[r] = "idle"
  /\ kind \in Kinds
  /\ asked \subseteq {issues[n].key : n \in DOMAIN issues}
  /\ IF kind = "woken" THEN \E k \in Keys : asked = {k} ELSE asked = {}
  /\ unlock => kind = "woken"
  /\ ~ read => "unread" \in Faults
  /\ phase' = [phase EXCEPT ![r] = "analysing"]
  /\ LET existing == IF read THEN OpenTracked ELSE NoNumbers
         unlocked == IF unlock THEN asked ELSE {}
     IN view' = [view EXCEPT ![r] =
          [NoView EXCEPT !.kind = kind, !.asked = asked, !.unlocked = unlocked,
                         !.read = read, !.existing = existing,
                         !.stamped = StampedIn(existing),
                         !.approvals = (IF read THEN Granted ELSE {}) \cup unlocked]]
  /\ UNCHANGED <<issues, memory, book, seen>>

(* No task of the plan owns the key a person wrote about: nothing is run   *)
(* and nothing is written, the permission included.                        *)
Halt(r) ==
  /\ phase[r] = "analysing"
  /\ \E k \in view[r].asked : Narrow(k) = {}
  /\ phase' = [phase EXCEPT ![r] = "idle"]
  /\ view' = [view EXCEPT ![r] = NoView]
  /\ UNCHANGED <<issues, memory, book, seen>>

(* The tasks a run may have performed: all of them on schedule, a choice   *)
(* of them by hand, the ones that own the key when woken.                  *)
Performed(r) ==
  CASE view[r].kind = "scheduled" -> {Tasks}
    [] view[r].kind = "manual" -> SUBSET Tasks \ {{}}
    [] OTHER -> {Narrow(k) : k \in view[r].asked} \ {{}}

(* The tasks have ended and the memory was read: what the run concludes.   *)
Conclude(r, outcomes, found, short, recalled) ==
  /\ phase[r] = "analysing"
  /\ Reportable(found, outcomes)
  /\ ~ recalled => "memory_read" \in Faults
  /\ LET known == IF recalled THEN memory ELSE NoMemory
         counts == view[r].kind = "scheduled"
         speaks == {k \in Keys : Speaks(k, outcomes, short, known.bundles)}
     IN /\ view' = [view EXCEPT ![r] =
             [view[r] EXCEPT !.found = found, !.recalled = recalled, !.known = known,
                             !.speaks = speaks,
                             !.looked = {b \in BundleKeys : ~ Unproven(b, outcomes, MembersOf[b])},
                             !.failing = IF counts THEN Weigh(known.failing, outcomes)
                                                   ELSE known.failing,
                             !.escalated =
                                IF counts THEN Escalations(known.failing, outcomes) ELSE {}]]
        /\ seen' = [k \in FindingKeys |->
             IF k \in speaks \ found /\ seen[k] < Threshold THEN seen[k] + 1
             ELSE seen[k]]
  /\ phase' = [phase EXCEPT ![r] = "concluded"]
  /\ UNCHANGED <<issues, memory, book>>

(* Reconciling starts once the platform says who the run speaks for.  The  *)
(* open issues are listed again only by a run that did not list them; the  *)
(* closed ones are listed now.  A permission just given is written into an *)
(* issue that is not about to be rewritten.                                *)
StartTracking(r) ==
  /\ phase[r] = "concluded"
  /\ LET existing == IF view[r].read THEN view[r].existing ELSE OpenTracked
         stamped == IF view[r].read THEN view[r].stamped ELSE StampedIn(OpenTracked)
         tracked == {k \in Keys : existing[k] # 0}
         approved == {k \in (view[r].approvals \cap tracked) \ Wanted(r) :
                        k \notin stamped \/ k \in view[r].unlocked}
     IN /\ view' = [view EXCEPT ![r].existing = existing, ![r].stamped = stamped]
        /\ book' = [book EXCEPT ![r] =
             [NoBook EXCEPT !.todo = Wanted(r), !.left = tracked \ Wanted(r),
                            !.closed = ClosedByKey(Wanted(r) \ tracked)]]
        /\ issues' = [n \in DOMAIN issues |->
             IF \E k \in approved : existing[k] = n
             THEN [issues[n] EXCEPT !.stamp = TRUE] ELSE issues[n]]
  /\ phase' = [phase EXCEPT ![r] = "tracking"]
  /\ UNCHANGED <<memory, seen>>

-----------------------------------------------------------------------------
(* One wanted key after another, in the order new issues are to be raised. *)

First(keys, key) == key \in keys /\ \A j \in keys : Rank[key] <= Rank[j]

Turn(r, key) == phase[r] = "tracking" /\ First(book[r].todo, key)

(* Mutant: a listed finding's own issue may be taken for another's.        *)
TwinsOfWanted(r, key) ==
  {old \in Keys \ book[r].absorbed :
     /\ view[r].existing[old] # 0
     /\ FingerprintOf[key] # NoFingerprint
     /\ FingerprintOf[old] = FingerprintOf[key]}

(* The issues a rephrased code key may be the new name of.                 *)
Twins(r, key) ==
  {old \in Keys \ (Wanted(r) \cup book[r].absorbed) :
     /\ view[r].existing[old] # 0
     /\ FingerprintOf[key] # NoFingerprint
     /\ FingerprintOf[old] = FingerprintOf[key]}

Migrates(r, key) == \E old \in Keys : Twins(r, key) = {old}

(* Mutant: a key with an open issue may get another.                       *)
NewRegardless(r, key) == ~ Migrates(r, key)

New(r, key) == view[r].existing[key] = 0 /\ ~ Migrates(r, key)

(* Mutant: a finding that is listed again keeps its streak.                *)
TrackedRemembering(r, key, number) ==
  [book[r] EXCEPT !.todo = @ \ {key}, !.number[key] = number,
                  !.kept = Carried(@, key, view[r].known.absent, FALSE),
                  !.bundles = ReportedBundles(@, key)]

(* The key is tracked by this issue, and its streak is forgotten.          *)
Tracked(r, key, number) ==
  [book[r] EXCEPT !.todo = @ \ {key}, !.number[key] = number,
                  !.bundles = ReportedBundles(@, key)]

Update(r, key, changed) ==
  /\ Turn(r, key)
  /\ view[r].existing[key] # 0
  /\ LET number == view[r].existing[key]
         rewritten == changed \/ (key \in view[r].stamped) # Stamp(r, key)
     IN /\ issues' = IF rewritten THEN [issues EXCEPT ![number].stamp = Stamp(r, key)]
                                  ELSE issues
        /\ book' = [book EXCEPT ![r] = Tracked(r, key, number)]
  /\ UNCHANGED <<memory, phase, view, seen>>

MigrateTwin(r, key) ==
  /\ Turn(r, key)
  /\ view[r].existing[key] = 0
  /\ \E old \in Keys :
       /\ Twins(r, key) = {old}
       /\ LET number == view[r].existing[old]
          IN /\ issues' = [issues EXCEPT ![number].key = key,
                                         ![number].stamp = Stamp(r, key)]
             /\ book' = [book EXCEPT ![r] =
                  [Tracked(r, key, number) EXCEPT !.absorbed = @ \cup {old},
                                                  !.left = @ \ {old}]]
  /\ UNCHANGED <<memory, phase, view, seen>>

Reopen(r, key) ==
  /\ Turn(r, key)
  /\ New(r, key)
  /\ book[r].closed[key] # 0
  /\ LET number == book[r].closed[key]
     IN /\ issues' = [issues EXCEPT ![number].open = TRUE,
                                    ![number].stamp = Stamp(r, key)]
        /\ book' = [book EXCEPT ![r] = Tracked(r, key, number)]
  /\ UNCHANGED <<memory, phase, view, seen>>

(* The issue is open again, and the comment or the new body never arrives. *)
ReopenCut(r, key) ==
  /\ Turn(r, key)
  /\ New(r, key)
  /\ book[r].closed[key] # 0
  /\ "platform" \in Faults
  /\ issues' = [issues EXCEPT ![book[r].closed[key]].open = TRUE]
  /\ phase' = [phase EXCEPT ![r] = "remember"]
  /\ UNCHANGED <<memory, view, book, seen>>

(* Mutant: one more than the limit.                                        *)
AboveCeiling(r, key) ==
  /\ book[r].raised > Limit
  /\ key \notin view[r].escalated
  /\ SubjectOf[key] \notin book[r].subjects

AtCeiling(r, key) ==
  /\ book[r].raised >= Limit
  /\ key \notin view[r].escalated
  /\ SubjectOf[key] \notin book[r].subjects

Defer(r, key) ==
  /\ Turn(r, key)
  /\ New(r, key)
  /\ book[r].closed[key] = 0
  /\ AtCeiling(r, key)
  /\ book' = [book EXCEPT ![r].todo = @ \ {key},
                          ![r].deferred = @ \cup {key}]
  /\ UNCHANGED <<issues, memory, phase, view, seen>>

Raise(r, key) ==
  /\ Turn(r, key)
  /\ New(r, key)
  /\ book[r].closed[key] = 0
  /\ ~ AtCeiling(r, key)
  /\ Len(issues) < MaxIssues
  /\ issues' = Append(issues, [key |-> key, open |-> TRUE, stamp |-> Stamp(r, key)])
  /\ book' = [book EXCEPT ![r] =
       [Tracked(r, key, Len(issues) + 1) EXCEPT !.raised = @ + 1,
                                                !.subjects = @ \cup {SubjectOf[key]}]]
  /\ UNCHANGED <<memory, phase, view, seen>>

-----------------------------------------------------------------------------
(* Then the issues whose finding this run does not list.                   *)

(* Mutant: a finding that was deferred takes over as well.                 *)
SupersededByDeferred(r) ==
  {old \in Keys :
     /\ view[r].existing[old] # 0
     /\ \E k \in Wanted(r) : old \in Supersedes[k]}

(* The issues listed under a key that another key's own issue replaces,    *)
(* whether this run reports that key as well or not.                       *)
Superseded(r) ==
  {old \in Keys :
     /\ view[r].existing[old] # 0
     /\ \E k \in Wanted(r) : book[r].number[k] # 0 /\ old \in Supersedes[k]}

(* The issue is closed and no longer counts as listed.                     *)
CloseSuperseded(r, old) ==
  /\ phase[r] = "tracking" /\ book[r].todo = {}
  /\ old \in Superseded(r)
  /\ issues' = [issues EXCEPT ![view[r].existing[old]].open = FALSE]
  /\ view' = [view EXCEPT ![r].existing[old] = 0]
  /\ book' = [book EXCEPT ![r].left = @ \ {old}]
  /\ UNCHANGED <<memory, phase, seen>>

Settles(r, key) ==
  /\ phase[r] = "tracking" /\ book[r].todo = {} /\ Superseded(r) = {}
  /\ First(book[r].left, key)

MayClose(r, key) ==
  /\ key \in view[r].speaks
  /\ Closes(key, view[r].asked, view[r].known.absent)

KeepOpen(r, key) ==
  /\ Settles(r, key)
  /\ ~ MayClose(r, key)
  /\ book' = [book EXCEPT
       ![r].left = @ \ {key},
       ![r].kept = Carried(@, key, view[r].known.absent, key \in view[r].speaks),
       ![r].bundles = CarriedBundles(@, key, view[r].known.bundles)]
  /\ UNCHANGED <<issues, memory, phase, view, seen>>

CloseGone(r, key) ==
  /\ Settles(r, key)
  /\ MayClose(r, key)
  /\ issues' = [issues EXCEPT ![view[r].existing[key]].open = FALSE]
  /\ book' = [book EXCEPT ![r].left = @ \ {key}]
  /\ UNCHANGED <<memory, phase, view, seen>>

-----------------------------------------------------------------------------
(* Last the document: written unless it says what was read.                *)

Document(r) ==
  [absent |-> book[r].kept, failing |-> view[r].failing, bundles |-> book[r].bundles]

NothingNew(r) == view[r].recalled /\ Document(r) = view[r].known

Reconciled(r) ==
  /\ phase[r] = "tracking"
  /\ book[r].todo = {} /\ Superseded(r) = {} /\ book[r].left = {}

Leave(r) ==
  /\ phase' = [phase EXCEPT ![r] = "idle"]
  /\ view' = [view EXCEPT ![r] = NoView]
  /\ book' = [book EXCEPT ![r] = NoBook]

Remember(r) ==
  /\ phase[r] = "remember" \/ Reconciled(r)
  /\ memory' = IF NothingNew(r) THEN memory ELSE Document(r)
  /\ seen' = [k \in FindingKeys |->
       IF k \in view[r].found THEN 0 ELSE seen[k]]
  /\ Leave(r)
  /\ UNCHANGED issues

(* The push of the document is refused: the state stays as it was.         *)
Forget(r) ==
  /\ "memory_push" \in Faults
  /\ phase[r] = "remember" \/ Reconciled(r)
  /\ ~ NothingNew(r)
  /\ Leave(r)
  /\ UNCHANGED <<issues, memory, seen>>

-----------------------------------------------------------------------------
(* What goes wrong.                                                        *)

(* A call is refused: the rest of the reconciliation is given up, and the  *)
(* run goes on to store what it has.                                       *)
PlatformFails(r) ==
  /\ "platform" \in Faults
  /\ phase[r] \in {"concluded", "tracking"}
  /\ ~ Reconciled(r)
  /\ phase' = [phase EXCEPT ![r] = "remember"]
  /\ UNCHANGED <<issues, memory, view, book, seen>>

(* Who the run speaks for cannot be read: nothing is written anywhere.     *)
IdentityFails(r) ==
  /\ "identity" \in Faults
  /\ phase[r] = "concluded"
  /\ Leave(r)
  /\ UNCHANGED <<issues, memory, seen>>

(* The job is killed.                                                      *)
Crash(r) ==
  /\ "crash" \in Faults
  /\ phase[r] # "idle"
  /\ Leave(r)
  /\ UNCHANGED <<issues, memory, seen>>

PersonCloses(n) ==
  /\ "close" \in People
  /\ issues[n].open
  /\ issues' = [issues EXCEPT ![n].open = FALSE]
  /\ UNCHANGED <<memory, phase, view, book, seen>>

PersonReopens(n) ==
  /\ "reopen" \in People
  /\ ~ issues[n].open
  /\ issues' = [issues EXCEPT ![n].open = TRUE]
  /\ UNCHANGED <<memory, phase, view, book, seen>>

-----------------------------------------------------------------------------
Reconcile(r) ==
  \E k \in Keys :
    \/ \E changed \in BOOLEAN : Update(r, k, changed)
    \/ MigrateTwin(r, k)
    \/ Reopen(r, k)
    \/ Defer(r, k)
    \/ Raise(r, k)
    \/ CloseSuperseded(r, k)
    \/ KeepOpen(r, k)
    \/ CloseGone(r, k)

Start(r) ==
  \E kind \in Kinds, asked \in SUBSET Keys, unlock, read \in BOOLEAN :
    Begin(r, kind, asked, unlock, read)

(* The bound Stories: a behaviour stays with the findings of one story.    *)
Told == {issues[n].key : n \in DOMAIN issues \ DOMAIN Inherited} \cap FindingKeys

Analyse(r) ==
  \E ran \in Performed(r), story \in Stories :
    /\ Told \subseteq story
    /\ \E outcomes \in [ran -> Outcome], found \in SUBSET FindingKeys :
         /\ found \subseteq story
         /\ \E short \in SUBSET (PackageKeys \ found), recalled \in BOOLEAN :
              Conclude(r, outcomes, found, short, recalled)

Progress(r) ==
  \/ Start(r) \/ Halt(r) \/ Analyse(r)
  \/ StartTracking(r) \/ Reconcile(r) \/ Remember(r)

GoesWrong(r) ==
  \/ \E k \in Keys : ReopenCut(r, k)
  \/ Forget(r) \/ PlatformFails(r) \/ IdentityFails(r) \/ Crash(r)

Persons == \E n \in DOMAIN issues : PersonCloses(n) \/ PersonReopens(n)

Next == (\E r \in Runs : Progress(r) \/ GoesWrong(r)) \/ Persons

Spec == Init /\ [][Next]_vars

(* The schedule comes round however many other runs people start, and a run *)
(* that started goes on to its end.                                         *)
FairSpec ==
  /\ Spec
  /\ \A r \in Runs :
       /\ SF_vars(Begin(r, "scheduled", {}, FALSE, TRUE))
       /\ WF_vars(Halt(r) \/ Analyse(r))
       /\ WF_vars(StartTracking(r) \/ Reconcile(r) \/ Remember(r))

-----------------------------------------------------------------------------
(* Properties.                                                             *)

View ==
  [kind : Kinds \cup {"none"}, asked : SUBSET Keys, unlocked : SUBSET Keys,
   read : BOOLEAN, existing : [Keys -> 0..MaxIssues], stamped : SUBSET Keys,
   approvals : SUBSET Keys, found : SUBSET FindingKeys,
   escalated : SUBSET FailureKeys, speaks : SUBSET Keys, looked : SUBSET BundleKeys,
   recalled : BOOLEAN, known : Documents, failing : [FailureKeys -> 0..StreakCap]]

Book ==
  [todo : SUBSET Keys, left : SUBSET Keys, number : [Keys -> 0..MaxIssues],
   closed : [Keys -> 0..MaxIssues], absorbed : SUBSET Keys, raised : Nat,
   subjects : SUBSET {SubjectOf[k] : k \in Keys}, deferred : SUBSET Keys,
   kept : [FindingKeys -> 0..Threshold], bundles : SUBSET BundleKeys]

(* Every variable holds what the code's data can be: numbers of issues that *)
(* exist, streaks within their bounds, sets of known keys.                  *)
TypeOK ==
  /\ issues \in Seq(Issues) /\ Len(issues) <= MaxIssues
  /\ memory \in Documents
  /\ phase \in [Runs -> Phases]
  /\ view \in [Runs -> View]
  /\ book \in [Runs -> Book]
  /\ seen \in [FindingKeys -> 0..Threshold]

(* A finding has one conversation: two open issues never carry one key,    *)
(* whatever migrations, reopenings and half-finished runs came before.     *)
OneOpenIssue ==
  \A m, n \in DOMAIN issues :
    issues[m].open /\ issues[n].open /\ issues[m].key = issues[n].key => m = n

(* The issue this key was listed under, or had when it was taken over by   *)
(* another name, was closed as replaced by that of a key the run reports.  *)
Supplanted(r, key) ==
  \E k \in Wanted(r), old \in Keys :
    /\ book[r].number[k] # 0 /\ old \in Supersedes[k]
    /\ old # key => old \in book[r].absorbed /\ FingerprintOf[old] = FingerprintOf[key]

(* A run that reconciled everything left each finding it listed with an    *)
(* open issue of that key, or deferred it, or closed its issue for that of *)
(* another key it listed; a later key of the same run never takes over the *)
(* issue an earlier one got.                                               *)
ReportedIsTracked ==
  \A r \in Runs : Reconciled(r) =>
    \A k \in Wanted(r) : k \in book[r].deferred \/ OpenOf(k) # {} \/ Supplanted(r, k)

(* The findings new to a run never take more subjects than its limit.      *)
CeilingHolds ==
  \A r \in Runs :
    Cardinality(book[r].subjects \ {SubjectOf[k] : k \in view[r].escalated}) <= Limit

(* An issue is closed as replaced only when the finding that replaces it   *)
(* has an issue of its own, open unless a person or a further replacement  *)
(* closed it since: a deferred finding never costs the conversation it had. *)
SupersededIsReplaced ==
  [][\A r \in Runs, old \in Keys :
       CloseSuperseded(r, old) =>
         \E k \in Wanted(r) : old \in Supersedes[k] /\ OpenOf(k) \cup ClosedOf(k) # {}]_vars

(* The run's answer closes this issue by the count of complete runs.       *)
CountedOut(r, key) ==
  /\ Settles(r, key) /\ MayClose(r, key)
  /\ ~ SettlesAtOnce(key, view[r].asked)

(* Closing by the count takes that many complete runs which did not list   *)
(* the finding, none of them from before a listing the memory has taken    *)
(* in, even when runs are killed and documents are lost in between.        *)
TwoAnswers ==
  [][\A r \in Runs, k \in FindingKeys :
       CountedOut(r, k) /\ CloseGone(r, k) => seen[k] >= Threshold]_vars

(* An issue about a bundle closes only on a run that completed the checks  *)
(* of every member's ecosystem.                                            *)
BundleLooked ==
  [][\A r \in Runs, b \in BundleKeys : CloseGone(r, b) => b \in view[r].looked]_vars

(* A permission stays on its issue for as long as the issue is open.       *)
ApprovalStays ==
  [][\A n \in DOMAIN issues :
       issues[n].open /\ issues[n].stamp /\ issues'[n].open => issues'[n].stamp]_vars

(* A run that was given a permission and reconciled everything has left it *)
(* on the issue it was given on, or closed that issue.  An issue that the  *)
(* run gave a new name answers for the new name from then on.              *)
UnlockIsStamped ==
  \A r \in Runs : Reconciled(r) =>
    \A k \in view[r].unlocked \ book[r].absorbed :
      LET number == view[r].existing[k]
      IN number # 0 => issues[number].stamp \/ ~ issues[number].open

(* Once every run looks for a finding and none lists it, its issue closes; *)
(* once a check keeps working, so does the issue about its failing.        *)
GoneIsClosed ==
  \A k \in Keys :
    <>[](\A r \in Runs :
           phase[r] = "concluded" => k \in view[r].speaks \ Wanted(r))
      => <>[](OpenOf(k) = {})
=============================================================================
