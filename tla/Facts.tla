------------------------------- MODULE Facts --------------------------------
(***************************************************************************)
(* What a run establishes, and what its checks may rest on: the evidence   *)
(* store its tasks share, the memo of registry answers under its lock, the *)
(* calls of each session, the cache that outlives the run, and the gates   *)
(* that refuse a dependency sweep which leaves a pin out.                  *)
(*                                                                         *)
(* Sweeps prepare their pins in threads while other sessions call tools;   *)
(* a step is what a thread does between two points at which another one    *)
(* may get in between.  A fact says only what later steps look at: whether *)
(* it is verified, its value and origin, whether its recipe names the      *)
(* sweep; and, observed, whether a page is behind it and whether the run   *)
(* that established it may not write the cache.                            *)
(***************************************************************************)
EXTENDS Integers

CONSTANTS
  Tasks,         \* the analysis tasks of a run
  Sweeps,        \* those that sweep an ecosystem for outdated pins
  Scans,         \* those that scan an ecosystem for advisories
  Pins,          \* what somebody may ask about: a package, a version as it is written, a
                 \* kind of declaration
  Declared,      \* the pins that the manifests declare
  Packages,
  Keys,          \* a question about a subject
  PackageOf,     \* the package a key is about
  EcosystemOf,   \* the ecosystem of a package, and of a task or NoEcosystem
  PinKeyOf,      \* the key under which a pin is declared
  CurrentKeyOf,  \* the target key of a pin's version as it is written
  ResolvedKeyOf, \* the target key of the version the pin stands for
  TargetKeys,    \* keys that ask whether a version has cleared the window
  AdvisoryKeys,  \* keys that ask for advisories
  CacheableKeys, \* keys whose question has an immutable answer
  ExactKeys,     \* keys that name ecosystem, package and version
  PublishKeys,   \* keys that ask when a version was published
  Values,        \* answers a session may record
  CommitDates,   \* those among them whose source is the date of a commit
  Actions,       \* the ecosystem whose sweep refuses such a source
  Kinds,         \* kinds of run: "maintenance", "review", "outside"
  Window,        \* days that a version has to be out
  Margin,        \* and how many more where its date is not exact
  Heuristic,     \* target keys of versions whose dates are not exact
  Dates,         \* days on which a version may have come out, or NoDate
  FirstDay,      \* the day of the first run
  Gaps,          \* days that may pass between runs
  Faults,        \* what may go wrong: "registry", "census", "scanner"
  StepLimit,     \* calls each task may make
  MaxRuns,       \* bound: runs in a behaviour
  NoDate,
  NoEcosystem,
  Nobody         \* who holds a lock that is free

Ages == {"cleared", "young", "unknown"}
Origins == {"tool", "api", "web"}

ASSUME TasksAssumption ==
  /\ Sweeps \subseteq Tasks /\ Scans \subseteq Tasks \ Sweeps
  /\ Nobody \notin Tasks
ASSUME PinsAssumption ==
  /\ Pins # {}
  /\ Declared \subseteq Pins
  /\ PinKeyOf \in [Pins -> Keys \ TargetKeys]
  /\ CurrentKeyOf \in [Pins -> TargetKeys]
  /\ ResolvedKeyOf \in [Pins -> TargetKeys]
  /\ \A p \in Pins : PackageOf[CurrentKeyOf[p]] = PackageOf[ResolvedKeyOf[p]]
(* A version that some pin stands for stands for itself.                   *)
ASSUME ResolutionAssumption ==
  \A p, q \in Pins : CurrentKeyOf[p] = ResolvedKeyOf[q] => ResolvedKeyOf[p] = CurrentKeyOf[p]
ASSUME KeysAssumption ==
  /\ TargetKeys \cup AdvisoryKeys \subseteq Keys
  /\ TargetKeys \cap AdvisoryKeys = {}
  /\ PackageOf \in [Keys -> Packages]
ASSUME VolatileAssumption == CacheableKeys \subseteq Keys \ TargetKeys
ASSUME BoundsAssumption == StepLimit \in [Tasks -> Nat] /\ MaxRuns \in Nat \ {0}
ASSUME DatesAssumption ==
  /\ Window \in Nat /\ Margin \in Nat /\ FirstDay \in Nat
  /\ Gaps \subseteq Nat /\ NoDate \notin Int /\ Dates \subseteq Int \cup {NoDate}
ASSUME ValuesAssumption == "none" \notin Values /\ Values # {}

VARIABLES
  run,      \* the run: its kind, its number and its day
  date,     \* the day on which each version came out
  evidence, \* the run's evidence store
  cache,    \* the directory of cached facts
  targets,  \* the run's memo of registry answers (pin_targets)
  lock,     \* who holds pin_lock
  at,       \* where each task is
  pin,      \* the pin it is asking about
  left,     \* the pins its preparation has still to ask about
  pack,     \* its preparation: "none", "open", or "ready" with the answered tools hidden
  calls,    \* how many calls its session made, and where the answers came from
  result,   \* what became of a sweep's result file
  asked     \* observed: how often the registry answered about each pin

desks == <<at, pin, left, pack, calls, result>>
vars == <<run, date, evidence, cache, targets, lock, desks, asked>>

Fact ==
  [status: {"none", "gap", "known"},
   value: Values \cup Ages \cup {"none"},
   origin: Origins,
   sweep: BOOLEAN,  \* whether the recipe names the sweep's capability
   paged: BOOLEAN,  \* observed: whether a page is among its sources
   guest: BOOLEAN]  \* observed: established by a run that is not maintenance

Calls == [made: Nat, got: SUBSET Origins]
Stages == {"new", "preparing", "waiting", "asking", "noting", "working", "done"}

NoFact ==
  [status |-> "none", value |-> "none", origin |-> "tool", sweep |-> FALSE, paged |-> FALSE,
   guest |-> FALSE]

(* A record of this run.                                                   *)
Known(t, value, origin, paged) ==
  [status |-> "known", value |-> value, origin |-> origin, sweep |-> t \in Sweeps,
   paged |-> paged, guest |-> run.kind # "maintenance"]

Gap == [NoFact EXCEPT !.status = "gap"]

(* Mutant: the last answer wins.                                           *)
KeptLast(existing, record) == record

(* A verified answer replaces an unverified one, never the reverse.        *)
Kept(existing, record) == IF existing.status = "known" THEN existing ELSE record

(* Mutant: any run may write the cache.                                    *)
AnyoneWrites == TRUE

Writable == run.kind = "maintenance"

(* What the cache holds under a key after a record is put.                 *)
Put(key, record) ==
  IF Writable /\ key \in CacheableKeys \cap ExactKeys /\ record.status = "known"
  THEN record ELSE cache[key]

(* What the cache can answer; a corrupt entry is a miss.                   *)
Hit(key) == key \in CacheableKeys /\ cache[key].status = "known"

(* Mutant: an answer of an interface outweighs a page.                     *)
Strongest(origins) ==
  IF "api" \in origins THEN "api" ELSE IF "web" \in origins THEN "web" ELSE "tool"

(* A fact is only as demonstrated as its weakest source.                   *)
Weakest(origins) ==
  IF "web" \in origins THEN "web" ELSE IF "api" \in origins THEN "api" ELSE "tool"

-----------------------------------------------------------------------------
Owned(t) == {a \in Packages : EcosystemOf[a] = EcosystemOf[t]}
OwnPins(t) == {p \in Declared : PackageOf[CurrentKeyOf[p]] \in Owned(t)}

(* A task of one ecosystem speaks about that ecosystem only.               *)
Speaks(t, key) == EcosystemOf[t] \in {NoEcosystem, EcosystemOf[PackageOf[key]]}

Tools == {"read", "compute", "command", "fetch", "registry"}

Hidden(t) ==
  (IF pack[t] = "ready" /\ t \in Sweeps THEN {"fetch", "registry"} ELSE {}) \cup
  (IF pack[t] = "ready" /\ t \in Scans THEN {"fetch", "command"} ELSE {}) \cup
  (IF run.kind = "outside" THEN {"command"} ELSE {})

Offered(t) == Tools \ Hidden(t)

(* The budget is asked about before any tool is looked up.                 *)
Working(t) == at[t] = "working" /\ calls[t].made < StepLimit[t]

(* A call that failed counts, and supports no fact.                        *)
Noted(t, origins) ==
  [calls EXCEPT ![t] = [made |-> @.made + 1, got |-> @.got \cup origins]]

Moved(t, stage) == [at EXCEPT ![t] = stage]
NoCalls == [made |-> 0, got |-> {}]
NoResult == [state |-> "none", reported |-> {}]
SomeValue == CHOOSE v \in Values : TRUE

(* The versions a registry is ever asked about.                            *)
Resolved == {ResolvedKeyOf[p] : p \in Pins}

(* Mutant: the last day of the window is not waited for.                   *)
QuarantineShort(day, published, margin) ==
  IF day - published >= Window + margin - 1 THEN "cleared" ELSE "young"

(* Whether a version has been out long enough to be adopted.               *)
Quarantine(day, published, margin) ==
  IF day - published >= Window + margin THEN "cleared" ELSE "young"

(* What the registry makes of each version in this run; one without a date *)
(* is neither cleared nor young.                                           *)
Age(k, day) ==
  IF date[k] = NoDate THEN "unknown"
  ELSE Quarantine(day, date[k], IF k \in Heuristic THEN Margin ELSE 0)

age == [k \in Resolved |-> Age(k, run.day)]

(* What it answers about a pin: the age of the version that it stands for. *)
Answer(p) == age[ResolvedKeyOf[p]]

Init ==
  /\ run \in [kind: Kinds, number: {1}, day: {FirstDay}]
  /\ date \in [Resolved -> Dates]
  /\ evidence = [k \in Keys |-> NoFact]
  /\ cache = [k \in Keys |-> NoFact]
  /\ targets = [p \in Pins |-> "none"]
  /\ lock = Nobody
  /\ at = [t \in Tasks |-> "new"]
  /\ pin = [t \in Tasks |-> CHOOSE p \in Pins : TRUE]
  /\ left = [t \in Tasks |-> {}]
  /\ pack = [t \in Tasks |-> "none"]
  /\ calls = [t \in Tasks |-> NoCalls]
  /\ result = [t \in Sweeps |-> NoResult]
  /\ asked = [p \in Pins |-> 0]

(* A sweep takes the census of its pins, and goes through them.            *)
StartSweep(t) ==
  /\ at[t] = "new" /\ t \in Sweeps
  /\ at' = Moved(t, "preparing")
  /\ left' = [left EXCEPT ![t] = OwnPins(t)]
  /\ pack' = [pack EXCEPT ![t] = "open"]
  /\ UNCHANGED <<run, date, evidence, cache, targets, lock, pin, calls, result, asked>>

(* A scan runs the scanner of its ecosystem, and records what it hits.     *)
StartScan(t, hits) ==
  /\ at[t] = "new" /\ t \in Scans
  /\ hits \subseteq {k \in AdvisoryKeys : PackageOf[k] \in Owned(t)}
  /\ evidence' = [k \in Keys |->
       IF k \in hits THEN Kept(evidence[k], Known(t, SomeValue, "tool", FALSE)) ELSE evidence[k]]
  /\ pack' = [pack EXCEPT ![t] = "ready"]
  /\ at' = Moved(t, "working")
  /\ UNCHANGED <<run, date, cache, targets, lock, pin, left, calls, result, asked>>

(* Any other task has nothing to prepare; and where the census cannot be   *)
(* taken or the scanner does not answer, the session has all the tools.    *)
StartUnprepared(t) ==
  /\ at[t] = "new"
  /\ t \in Sweeps => "census" \in Faults
  /\ t \in Scans => "scanner" \in Faults
  /\ at' = Moved(t, "working")
  /\ UNCHANGED <<run, date, evidence, cache, targets, lock, pin, left, pack, calls, result, asked>>

(* The preparation takes its next pin, and records what was declared.      *)
PrepareNext(t, p) ==
  /\ at[t] = "preparing" /\ p \in left[t]
  /\ evidence' = [evidence EXCEPT ![PinKeyOf[p]] = Kept(@, Known(t, SomeValue, "tool", FALSE))]
  /\ pin' = [pin EXCEPT ![t] = p]
  /\ left' = [left EXCEPT ![t] = @ \ {p}]
  /\ at' = Moved(t, "waiting")
  /\ UNCHANGED <<run, date, cache, targets, lock, pack, calls, result, asked>>

Packed(t) ==
  /\ at[t] = "preparing" /\ left[t] = {}
  /\ pack' = [pack EXCEPT ![t] = "ready"]
  /\ at' = Moved(t, "working")
  /\ UNCHANGED <<run, date, evidence, cache, targets, lock, pin, left, calls, result, asked>>

(* A session calls cleared_pin_target about a pin it read somewhere.       *)
AskTarget(t, p) ==
  /\ Working(t) /\ "registry" \in Offered(t)
  /\ pin' = [pin EXCEPT ![t] = p]
  /\ at' = Moved(t, "waiting")
  /\ UNCHANGED <<run, date, evidence, cache, targets, lock, left, pack, calls, result, asked>>

Preparing(t) == pack[t] = "open"

(* With the lock, the memo is looked at: an answer is remembered by        *)
(* package, version as it is written and kind of declaration.  It is taken; *)
(* otherwise the lock is kept while the registry is asked.                 *)
Recall(t) ==
  /\ at[t] = "waiting" /\ lock = Nobody
  /\ targets[pin[t]] # "none"
  /\ calls' = IF Preparing(t) THEN calls ELSE Noted(t, {"api"})
  /\ at' = Moved(t, "noting")
  /\ UNCHANGED <<run, date, evidence, cache, targets, lock, pin, left, pack, result, asked>>

(* Mutant: the registry is asked without the lock.                         *)
TakeNothing(t) ==
  /\ at[t] = "waiting"
  /\ targets[pin[t]] = "none"
  /\ at' = Moved(t, "asking")
  /\ UNCHANGED <<run, date, evidence, cache, targets, lock, pin, left, pack, calls, result, asked>>

TakeLock(t) ==
  /\ at[t] = "waiting" /\ lock = Nobody
  /\ targets[pin[t]] = "none"
  /\ lock' = t
  /\ at' = Moved(t, "asking")
  /\ UNCHANGED <<run, date, evidence, cache, targets, pin, left, pack, calls, result, asked>>

RegistryAnswers(t) ==
  /\ at[t] = "asking"
  /\ targets' = [targets EXCEPT ![pin[t]] = Answer(pin[t])]
  /\ asked' = [asked EXCEPT ![pin[t]] = @ + 1]
  /\ calls' = IF Preparing(t) THEN calls ELSE Noted(t, {"api"})
  /\ lock' = Nobody
  /\ at' = Moved(t, "noting")
  /\ UNCHANGED <<run, date, evidence, cache, pin, left, pack, result>>

(* The registry cannot be asked.  A preparation records that the age is    *)
(* unknown; a session is refused, and its call stays as a failed one.      *)
RegistryFails(t) ==
  /\ at[t] = "asking" /\ "registry" \in Faults
  /\ lock' = Nobody
  /\ IF Preparing(t)
     THEN /\ evidence' = [evidence EXCEPT ![CurrentKeyOf[pin[t]]] =
               Kept(@, Known(t, "unknown", "api", FALSE))]
          /\ at' = Moved(t, "preparing")
          /\ UNCHANGED calls
     ELSE /\ calls' = Noted(t, {})
          /\ at' = Moved(t, "working")
          /\ UNCHANGED evidence
  /\ UNCHANGED <<run, date, cache, targets, pin, left, pack, result, asked>>

(* Past the lock, the answer is recorded under the version the pin stands  *)
(* for.                                                                    *)
NoteTarget(t) ==
  /\ at[t] = "noting"
  /\ evidence' = [evidence EXCEPT ![ResolvedKeyOf[pin[t]]] =
       Kept(@, Known(t, targets[pin[t]], "api", FALSE))]
  /\ at' = Moved(t, IF Preparing(t) THEN "preparing" ELSE "working")
  /\ UNCHANGED <<run, date, cache, targets, lock, pin, left, pack, calls, result, asked>>

-----------------------------------------------------------------------------
(* A call of a tool the session is offered: it answers, or it fails.       *)
Called(t, tool, origins) ==
  /\ Working(t) /\ tool \in Offered(t)
  /\ calls' = Noted(t, origins)
  /\ UNCHANGED <<run, date, evidence, cache, targets, lock, at, pin, left, pack, result, asked>>

(* Files are listed, searched and read; one that may not be sent is not.   *)
ReadFiles(t) == Called(t, "read", {"tool"}) \/ Called(t, "read", {})

(* Versions are compared, pins listed, a window computed.                  *)
Compute(t) == Called(t, "compute", {"tool"}) \/ Called(t, "compute", {})

(* A command that is not permitted or exits non-zero supports no fact.     *)
RunCommand(t) == Called(t, "command", {"tool"}) \/ Called(t, "command", {})

(* A document that parses came from an interface, any other is a page; one *)
(* too large to be delivered was not read.                                 *)
Fetch(t) ==
  \E origin \in {"api", "web"} : Called(t, "fetch", {origin}) \/ Called(t, "fetch", {})

(* The registry is asked when an action was released.                      *)
PublishTime(t) == Called(t, "registry", {"api"}) \/ Called(t, "registry", {})

(* known_fact: the store, and the cache only where the store has nothing.  *)
KnownFact(t, k) ==
  /\ Working(t) /\ Speaks(t, k)
  /\ evidence[k].status = "none" /\ Hit(k)
  /\ evidence' = [evidence EXCEPT ![k] = Kept(@, cache[k])]
  /\ UNCHANGED <<run, date, cache, targets, lock, desks, asked>>

(* A fact recorded by a session, and what it does to store and cache.      *)
Recorded(t, k, value, cited) ==
  LET stored == Kept(evidence[k], Known(t, value, Weakest(cited), "web" \in cited))
  IN /\ evidence' = [evidence EXCEPT ![k] = stored]
     /\ cache' = [cache EXCEPT ![k] = Put(k, stored)]

(* record_fact: any value, on calls this task made and that succeeded; an  *)
(* age is for cleared_pin_target alone to record.                          *)
RecordFact(t, k, value, cited) ==
  /\ Working(t) /\ Speaks(t, k)
  /\ k \notin TargetKeys
  /\ cited # {} /\ cited \subseteq calls[t].got
  /\ Recorded(t, k, value, cited)
  /\ UNCHANGED <<run, date, targets, lock, desks, asked>>

(* record_gap: on any calls of this task, or on none.                      *)
RecordGap(t, k) ==
  /\ Working(t) /\ Speaks(t, k)
  /\ evidence' = [evidence EXCEPT ![k] = Kept(@, Gap)]
  /\ UNCHANGED <<run, date, cache, targets, lock, desks, asked>>

-----------------------------------------------------------------------------
(* Packages of the sweep's ecosystem about which a verified fact of its    *)
(* capability was recorded, and those whose age is of one sort.            *)
Examined(t) ==
  {PackageOf[k] : k \in {x \in Keys : evidence[x].status = "known" /\ evidence[x].sweep}}
    \cap Owned(t)

Aged(t, value) ==
  {PackageOf[k] : k \in {x \in TargetKeys :
    evidence[x].status = "known" /\ evidence[x].value = value}} \cap Owned(t)

(* Somebody, in whatever task, took the date of a commit for that of a     *)
(* release.                                                                *)
CommitterClock ==
  \E k \in PublishKeys : evidence[k].status = "known" /\ evidence[k].value \in CommitDates

(* The census refuses a sweep of actions for such a clock, and any sweep   *)
(* that has not examined a declared package; one that cannot be taken      *)
(* refuses nothing else.                                                   *)
Swept(t) ==
  /\ EcosystemOf[t] = Actions => ~ CommitterClock
  /\ pack[t] = "ready" => {PackageOf[CurrentKeyOf[p]] : p \in OwnPins(t)} \subseteq Examined(t)

(* Mutant: an age that nobody could establish passes.                      *)
MatchedYoung(t, young, undated) == Aged(t, "young") \subseteq young

(* The current-quarantine gate refuses a sweep that leaves out a version   *)
(* which is young, or of unknown age.                                      *)
Matched(t, young, undated) ==
  Aged(t, "young") \subseteq young /\ Aged(t, "unknown") \subseteq undated

Accepted(t, young, undated) == Swept(t) /\ Matched(t, young, undated)

(* A task has ended; its calls are only for the record from here on.       *)
Ends(t) == at' = Moved(t, "done") /\ calls' = [calls EXCEPT ![t] = NoCalls]

(* The session of a sweep ends with a result file that lists some packages *)
(* as young and some as undated; a floating or vulnerable one counts as    *)
(* both.  A refused file is retried once.                                  *)
Finish(t, young, undated) ==
  /\ at[t] = "working" /\ t \in Sweeps
  /\ young \cup undated \subseteq Owned(t)
  /\ \/ /\ Accepted(t, young, undated)
        /\ result' = [result EXCEPT ![t] = [state |-> "accepted", reported |-> young \cup undated]]
        /\ Ends(t)
     \/ /\ ~ Accepted(t, young, undated) /\ result[t].state = "none"
        /\ result' = [result EXCEPT ![t].state = "refused"]
        /\ UNCHANGED <<at, calls>>
     \/ /\ ~ Accepted(t, young, undated) /\ result[t].state = "refused"
        /\ Ends(t)
        /\ UNCHANGED result
  /\ UNCHANGED <<run, date, evidence, cache, targets, lock, pin, left, pack, asked>>

(* The session of another task ends, or a session fails or times out.      *)
SessionEnds(t) ==
  /\ at[t] = "working"
  /\ Ends(t)
  /\ UNCHANGED <<run, date, evidence, cache, targets, lock, pin, left, pack, result, asked>>

-----------------------------------------------------------------------------
(* The next run, on the same day or later: everything but the cache        *)
(* directory is new.  The one before may have been killed anywhere, and    *)
(* the directory may not have been restored whole.                         *)
NextRun(kind, days, lost) ==
  /\ run.number < MaxRuns
  /\ run' = [kind |-> kind, number |-> run.number + 1, day |-> run.day + days]
  /\ date' = date
  /\ evidence' = [k \in Keys |-> NoFact]
  /\ targets' = [p \in Pins |-> "none"]
  /\ lock' = Nobody
  /\ at' = [t \in Tasks |-> "new"]
  /\ pin' = [t \in Tasks |-> CHOOSE p \in Pins : TRUE]
  /\ left' = [t \in Tasks |-> {}]
  /\ pack' = [t \in Tasks |-> "none"]
  /\ calls' = [t \in Tasks |-> NoCalls]
  /\ result' = [t \in Sweeps |-> NoResult]
  /\ asked' = [p \in Pins |-> 0]
  /\ cache' = [k \in Keys |-> IF k \in lost THEN NoFact ELSE cache[k]]

Prepare(t) ==
  \/ StartSweep(t) \/ StartUnprepared(t)
  \/ \E hits \in SUBSET AdvisoryKeys : StartScan(t, hits)
  \/ \E p \in Pins : PrepareNext(t, p)
  \/ Packed(t)

Ask(t) ==
  \/ \E p \in Pins : AskTarget(t, p)
  \/ Recall(t) \/ TakeLock(t) \/ RegistryAnswers(t) \/ RegistryFails(t) \/ NoteTarget(t)

UseTool(t) ==
  \/ ReadFiles(t) \/ Compute(t) \/ RunCommand(t) \/ Fetch(t) \/ PublishTime(t)
  \/ \E k \in Keys : KnownFact(t, k) \/ RecordGap(t, k)
  \/ \E k \in Keys, v \in Values, cited \in SUBSET Origins : RecordFact(t, k, v, cited)

End(t) ==
  \/ \E young, undated \in SUBSET Packages : Finish(t, young, undated)
  \/ SessionEnds(t)

Next ==
  \/ \E t \in Tasks : Prepare(t) \/ Ask(t) \/ UseTool(t) \/ End(t)
  \/ \E kind \in Kinds, days \in Gaps, lost \in SUBSET CacheableKeys :
       NextRun(kind, days, lost)

Spec == Init /\ [][Next]_vars

-----------------------------------------------------------------------------
(* Facts, calls and stages are what they should be, and the lock is held   *)
(* exactly by the task that is asking the registry (pin_lock).             *)
TypeOK ==
  /\ run \in [kind: Kinds, number: 1..MaxRuns, day: Nat]
  /\ date \in [Resolved -> Dates]
  /\ evidence \in [Keys -> Fact]
  /\ cache \in [Keys -> Fact]
  /\ targets \in [Pins -> Ages \cup {"none"}]
  /\ lock \in Tasks \cup {Nobody}
  /\ at \in [Tasks -> Stages]
  /\ pin \in [Tasks -> Pins]
  /\ left \in [Tasks -> SUBSET Pins]
  /\ pack \in [Tasks -> {"none", "open", "ready"}]
  /\ calls \in [Tasks -> Calls]
  /\ result \in [Sweeps -> [state: {"none", "refused", "accepted"}, reported: SUBSET Packages]]
  /\ asked \in [Pins -> Nat]
  /\ \A t \in Tasks : at[t] = "asking" <=> lock = t

(* Within a run one question has one answer: what is verified stays as it  *)
(* is, whoever asks again, and with whatever the cache holds               *)
(* (EvidenceStore.add: "two conflicting answers in one report").           *)
SettledOnce ==
  [][run' = run =>
       \A k \in Keys : evidence[k].status = "known" => evidence'[k] = evidence[k]]_vars

(* A page behind a fact makes it heuristic, in this run and in any later   *)
(* one that finds it in the cache (_weakest, Evidence.reliability).        *)
PagesStayHeuristic ==
  \A k \in Keys :
    \A fact \in {evidence[k], cache[k]} :
      fact.status = "known" /\ fact.paged => fact.origin = "web"

(* No change request seeds what later runs believe: what is cached was     *)
(* established by a maintenance run, about one exact version (FactCache).  *)
OutsidersDontSeed ==
  \A k \in Keys : cache[k].status = "known" => k \in CacheableKeys \cap ExactKeys /\ ~ cache[k].guest

(* The registry answers at most once in a run about a package, a version   *)
(* as it is written and a kind of declaration, whoever asks and however    *)
(* many at once (pin_targets, pin_lock).                                   *)
AskedOnce == \A p \in Pins : asked[p] <= 1

(* The registry gives no date for the version, or its window is not over.  *)
Waits(k) == date[k] = NoDate \/ run.day - date[k] < Window

(* A prepared sweep that was accepted has reported every declared version  *)
(* of its ecosystem that is still in its window or that nobody could date, *)
(* also when the registry failed for it, another session asked first, or   *)
(* the pin stands for another version (incomplete_current_quarantine).     *)
YoungIsReported ==
  \A t \in Sweeps :
    result[t].state = "accepted" /\ pack[t] = "ready" =>
      \A p \in OwnPins(t) :
        Waits(ResolvedKeyOf[p]) => PackageOf[CurrentKeyOf[p]] \in result[t].reported
=============================================================================
