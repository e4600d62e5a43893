---------------------------- MODULE FactsProofs -----------------------------
(***************************************************************************)
(* What holds of a run's facts for any tasks, pins, keys, answers, faults  *)
(* and any number of runs.                                                 *)
(***************************************************************************)
EXTENDS Facts, TLAPS

LEMMA NoFactTyped == NoFact \in Fact /\ Gap \in Fact
<1>1. NoFact \in Fact
  BY DEF NoFact, Fact, Origins
<1>2. Gap = [NoFact EXCEPT !.status = "gap"]
  BY DEF Gap
<1> QED
  BY <1>1, <1>2 DEF Fact

LEMMA KnownTyped ==
  ASSUME NEW t, NEW value \in Values \cup Ages \cup {"none"}, NEW origin \in Origins,
         NEW paged \in BOOLEAN
  PROVE  Known(t, value, origin, paged) \in Fact
<1>1. (t \in Sweeps) \in BOOLEAN /\ (run.kind # "maintenance") \in BOOLEAN
  OBVIOUS
<1>2. \A s, g \in BOOLEAN :
        [status |-> "known", value |-> value, origin |-> origin, sweep |-> s, paged |-> paged,
         guest |-> g] \in Fact
  BY DEF Fact
<1> QED
  BY <1>1, <1>2 DEF Known

LEMMA KeptTyped ==
  ASSUME NEW f \in Fact, NEW g \in Fact
  PROVE  /\ Kept(f, g) \in Fact
         /\ Kept(f, g) \in {f, g}
         /\ f.status = "known" => Kept(f, g) = f
         /\ f.status # "known" => Kept(f, g) = g
BY DEF Kept

LEMMA WeakestTyped == \A cited : Weakest(cited) \in Origins
BY DEF Weakest, Origins

LEMMA NotedTyped ==
  ASSUME TypeOK, NEW t \in Tasks, NEW origins \in SUBSET Origins
  PROVE  Noted(t, origins) \in [Tasks -> Calls]
<1>1. calls[t] \in Calls
  BY DEF TypeOK
<1>2. [made |-> calls[t].made + 1, got |-> calls[t].got \cup origins] \in Calls
  BY <1>1 DEF Calls
<1> QED
  BY <1>2 DEF TypeOK, Noted

LEMMA SomeValueTyped == SomeValue \in Values
BY ValuesAssumption DEF SomeValue

(* One key of the store is written, or nothing is.                         *)
Writes(k, record) == evidence' = [evidence EXCEPT ![k] = Kept(@, record)]

LEMMA WritesTyped ==
  ASSUME evidence \in [Keys -> Fact], NEW k \in Keys, NEW record \in Fact, Writes(k, record)
  PROVE  evidence' \in [Keys -> Fact]
<1>1. Kept(evidence[k], record) \in Fact
  BY KeptTyped
<1> QED
  BY <1>1 DEF Writes

LEMMA PlacesTyped ==
  /\ \A p \in Pins : CurrentKeyOf[p] \in Keys /\ ResolvedKeyOf[p] \in Keys /\ PinKeyOf[p] \in Keys
  /\ \A p \in Pins : ResolvedKeyOf[p] \in Resolved
  /\ TargetKeys \subseteq Keys
  /\ (CHOOSE p \in Pins : TRUE) \in Pins
BY PinsAssumption, KeysAssumption DEF Resolved

(* What the registry says of a version changes with the day only.          *)
LEMMA AgeStays ==
  ASSUME run' = run, date' = date
  PROVE  age' = age
BY DEF age, Age

LEMMA AgeTyped ==
  ASSUME NEW k \in Resolved
  PROVE  /\ age[k] = Age(k, run.day)
         /\ age[k] \in Ages
BY DEF age, Age, Quarantine, Ages

(* A version that waits is not cleared.                                    *)
LEMMA WaitsTyped ==
  ASSUME TypeOK, NEW k \in Resolved, Waits(k)
  PROVE  age[k] \in {"young", "unknown"}
<1> DEFINE margin == IF k \in Heuristic THEN Margin ELSE 0
<1>1. CASE date[k] = NoDate
  BY <1>1, AgeTyped DEF Age
<1>2. CASE date[k] # NoDate
  <2>1. date[k] \in Int /\ run.day \in Int /\ margin \in Nat
    <3>1. date[k] \in Dates
      BY DEF TypeOK
    <3>2. run.day \in Nat
      BY DEF TypeOK
    <3>3. date[k] \in Int /\ margin \in Nat
      BY <1>2, <3>1, DatesAssumption
    <3> QED
      BY <3>2, <3>3
  <2>2. run.day - date[k] < Window
    BY <1>2 DEF Waits
  <2>3. ~ (run.day - date[k] >= Window + margin)
    <3> HIDE DEF margin
    <3> QED
      BY <2>1, <2>2, DatesAssumption
  <2>4. Age(k, run.day) = "young"
    BY <1>2, <2>3 DEF Age, Quarantine
  <2> QED
    BY <2>4, AgeTyped
<1> QED
  BY <1>1, <1>2

LEMMA MovedTyped ==
  ASSUME TypeOK, NEW t \in Tasks, NEW stage \in Stages
  PROVE  /\ Moved(t, stage) \in [Tasks -> Stages]
         /\ Moved(t, stage)[t] = stage
         /\ \A u \in Tasks : u # t => Moved(t, stage)[u] = at[u]
BY DEF TypeOK, Moved

(* A step of a task that leaves the run, the lock and what the registry    *)
(* says alone keeps the types when what it does write is of its type.      *)
LEMMA DeskTyped ==
  ASSUME TypeOK, NEW t \in Tasks, NEW stage \in Stages,
         at[t] # "asking", stage # "asking", at' = Moved(t, stage),
         UNCHANGED <<run, date, targets, lock, asked>>,
         evidence' \in [Keys -> Fact], cache' \in [Keys -> Fact],
         pin' \in [Tasks -> Pins], left' \in [Tasks -> SUBSET Pins],
         pack' \in [Tasks -> {"none", "open", "ready"}], calls' \in [Tasks -> Calls],
         result' \in [Sweeps -> [state: {"none", "refused", "accepted"}, reported: SUBSET Packages]]
  PROVE  TypeOK'
<1>1. at' \in [Tasks -> Stages]
  BY MovedTyped
<1>2. ASSUME NEW u \in Tasks PROVE at'[u] = "asking" <=> at[u] = "asking"
  <2>1. CASE u = t
    BY <2>1, MovedTyped
  <2>2. CASE u # t
    BY <2>2, MovedTyped
  <2> QED
    BY <2>1, <2>2
<1> QED
  BY <1>1, <1>2 DEF TypeOK

LEMMA PrepareTyped ==
  ASSUME TypeOK, NEW t \in Tasks, Prepare(t)
  PROVE  TypeOK'
<1>1. CASE StartSweep(t)
  <2>1. OwnPins(t) \in SUBSET Pins
    BY PinsAssumption DEF OwnPins
  <2> QED
    BY <1>1, <2>1, DeskTyped DEF StartSweep, TypeOK, Stages
<1>2. CASE StartUnprepared(t)
  BY <1>2, DeskTyped DEF StartUnprepared, TypeOK, Stages
<1>3. ASSUME NEW hits \in SUBSET AdvisoryKeys, StartScan(t, hits)
      PROVE  TypeOK'
  <2>1. \A k \in Keys : Kept(evidence[k], Known(t, SomeValue, "tool", FALSE)) \in Fact
    <3>1. Known(t, SomeValue, "tool", FALSE) \in Fact
      BY KnownTyped, SomeValueTyped DEF Origins
    <3>2. \A k \in Keys : evidence[k] \in Fact
      BY DEF TypeOK
    <3> QED
      BY <3>1, <3>2, KeptTyped
  <2>2. evidence' \in [Keys -> Fact]
    BY <1>3, <2>1 DEF StartScan, TypeOK
  <2> QED
    BY <1>3, <2>2, DeskTyped DEF StartScan, TypeOK, Stages
<1>4. ASSUME NEW p \in Pins, PrepareNext(t, p)
      PROVE  TypeOK'
  <2>1. Writes(PinKeyOf[p], Known(t, SomeValue, "tool", FALSE))
    BY <1>4 DEF PrepareNext, Writes
  <2>2. evidence' \in [Keys -> Fact]
    BY <2>1, WritesTyped, KnownTyped, SomeValueTyped, PlacesTyped DEF TypeOK, Origins
  <2> QED
    BY <1>4, <2>2, DeskTyped DEF PrepareNext, TypeOK, Stages
<1>5. CASE Packed(t)
  BY <1>5, DeskTyped DEF Packed, TypeOK, Stages
<1> QED
  BY <1>1, <1>2, <1>3, <1>4, <1>5 DEF Prepare

LEMMA AskTyped ==
  ASSUME TypeOK, NEW t \in Tasks, Ask(t)
  PROVE  TypeOK'
<1>0. /\ pin[t] \in Pins /\ targets[pin[t]] \in Ages \cup {"none"}
      /\ evidence \in [Keys -> Fact] /\ calls \in [Tasks -> Calls]
      /\ \A k \in Resolved : age[k] \in Ages
  BY AgeTyped DEF TypeOK
<1>1. ASSUME NEW p \in Pins, AskTarget(t, p)
      PROVE  TypeOK'
  BY <1>1, DeskTyped DEF AskTarget, Working, TypeOK, Stages
<1>2. CASE Recall(t)
  <2>1. calls' \in [Tasks -> Calls]
    BY <1>0, <1>2, NotedTyped DEF Recall, Origins
  <2> QED
    BY <1>2, <2>1, DeskTyped DEF Recall, TypeOK, Stages
<1>3. CASE TakeLock(t)
  <2>1. at' \in [Tasks -> Stages]
    BY <1>3, MovedTyped DEF TakeLock, Stages
  <2>2. \A u \in Tasks : at'[u] = "asking" <=> lock' = u
    BY <1>3, MovedTyped, TasksAssumption DEF TakeLock, Stages, TypeOK
  <2> QED
    BY <1>3, <2>1, <2>2 DEF TakeLock, TypeOK
<1>4. CASE RegistryAnswers(t)
  <2>1. at' \in [Tasks -> Stages] /\ calls' \in [Tasks -> Calls]
    BY <1>0, <1>4, MovedTyped, NotedTyped DEF RegistryAnswers, Stages, Origins
  <2>2. ASSUME NEW u \in Tasks PROVE at'[u] = "asking" <=> lock' = u
    <3>1. at' = Moved(t, "noting") /\ lock' = Nobody /\ at[t] = "asking"
      BY <1>4 DEF RegistryAnswers
    <3>2. lock = t /\ lock' # u
      BY <3>1, TasksAssumption DEF TypeOK
    <3>3. u # t => at'[u] = at[u] /\ at[u] # "asking"
      BY <3>1, <3>2, MovedTyped DEF Stages, TypeOK
    <3>4. at'[t] # "asking"
      BY <3>1, MovedTyped DEF Stages
    <3> QED
      BY <3>2, <3>3, <3>4
  <2>3. targets' \in [Pins -> Ages \cup {"none"}] /\ asked' \in [Pins -> Nat]
    BY <1>0, <1>4, PlacesTyped DEF RegistryAnswers, Answer, TypeOK
  <2> QED
    BY <1>4, <2>1, <2>2, <2>3 DEF RegistryAnswers, TypeOK
<1>5. CASE RegistryFails(t)
  <2>1. at' \in [Tasks -> Stages] /\ calls' \in [Tasks -> Calls]
    <3>1. at' \in {Moved(t, "preparing"), Moved(t, "working")} /\ calls' \in {calls, Noted(t, {})}
      BY <1>5 DEF RegistryFails
    <3>2. Moved(t, "preparing") \in [Tasks -> Stages] /\ Moved(t, "working") \in [Tasks -> Stages]
      BY MovedTyped DEF Stages
    <3> QED
      BY <1>0, <3>1, <3>2, NotedTyped
  <2>2. ASSUME NEW u \in Tasks PROVE at'[u] = "asking" <=> lock' = u
    <3>1. PICK stage \in {"preparing", "working"} : at' = Moved(t, stage)
      BY <1>5 DEF RegistryFails
    <3>2. lock' = Nobody /\ lock = t /\ lock' # u
      BY <1>5, TasksAssumption DEF RegistryFails, TypeOK
    <3>3. u # t => at'[u] = at[u] /\ at[u] # "asking"
      BY <3>1, <3>2, MovedTyped DEF Stages, TypeOK
    <3>4. at'[t] # "asking"
      BY <3>1, MovedTyped DEF Stages
    <3> QED
      BY <3>2, <3>3, <3>4
  <2>3. evidence' \in [Keys -> Fact]
    <3>1. Known(t, "unknown", "api", FALSE) \in Fact
      BY KnownTyped DEF Ages, Origins
    <3>2. CASE Preparing(t)
      <4>1. Writes(CurrentKeyOf[pin[t]], Known(t, "unknown", "api", FALSE))
        BY <1>5, <3>2 DEF RegistryFails, Writes
      <4> QED
        BY <1>0, <3>1, <4>1, WritesTyped, PlacesTyped
    <3>3. CASE ~ Preparing(t)
      BY <1>0, <1>5, <3>3 DEF RegistryFails
    <3> QED
      BY <3>2, <3>3
  <2> QED
    BY <1>5, <2>1, <2>2, <2>3 DEF RegistryFails, TypeOK
<1>6. CASE NoteTarget(t)
  <2>1. Writes(ResolvedKeyOf[pin[t]], Known(t, targets[pin[t]], "api", FALSE))
    BY <1>6 DEF NoteTarget, Writes
  <2>2. evidence' \in [Keys -> Fact]
    BY <1>0, <2>1, WritesTyped, KnownTyped, PlacesTyped DEF Origins
  <2> QED
    BY <1>6, <2>2, DeskTyped DEF NoteTarget, TypeOK, Stages
<1> QED
  BY <1>1, <1>2, <1>3, <1>4, <1>5, <1>6 DEF Ask

LEMMA RecordedTyped ==
  ASSUME TypeOK, NEW t \in Tasks, NEW k \in Keys, NEW v \in Values, NEW cited \in SUBSET Origins,
         Recorded(t, k, v, cited)
  PROVE  evidence' \in [Keys -> Fact] /\ cache' \in [Keys -> Fact]
<1> DEFINE record == Known(t, v, Weakest(cited), "web" \in cited)
           stored == Kept(evidence[k], record)
<1>1. record \in Fact
  <2>1. ("web" \in cited) \in BOOLEAN
    OBVIOUS
  <2> QED
    BY <2>1, KnownTyped, WeakestTyped
<1>2. stored \in Fact
  BY <1>1, KeptTyped DEF TypeOK
<1>3. evidence' = [evidence EXCEPT ![k] = stored] /\ cache' = [cache EXCEPT ![k] = Put(k, stored)]
  BY DEF Recorded
<1>4. Put(k, stored) \in Fact
  BY <1>2 DEF Put, TypeOK
<1> HIDE DEF stored
<1> QED
  BY <1>2, <1>3, <1>4 DEF TypeOK

(* A call of a tool leaves the store alone, and supports what it got.      *)
LEMMA CallsTyped ==
  ASSUME NEW t, \/ ReadFiles(t) \/ Compute(t) \/ RunCommand(t) \/ Fetch(t) \/ PublishTime(t)
  PROVE  \E tool \in Tools, origins \in SUBSET Origins : Called(t, tool, origins)
<1>1. Tools = {"read", "compute", "command", "fetch", "registry"} /\ Origins = {"tool", "api", "web"}
  BY DEF Tools, Origins
<1>2. {} \in SUBSET Origins /\ {"tool"} \in SUBSET Origins /\ {"api"} \in SUBSET Origins
      /\ {"web"} \in SUBSET Origins
  BY <1>1
<1> QED
  BY <1>1, <1>2 DEF ReadFiles, Compute, RunCommand, Fetch, PublishTime

LEMMA UseTyped ==
  ASSUME TypeOK, NEW t \in Tasks, UseTool(t)
  PROVE  TypeOK'
<1>0. evidence \in [Keys -> Fact] /\ cache \in [Keys -> Fact]
  BY DEF TypeOK
<1>1. ASSUME NEW tool \in Tools, NEW origins \in SUBSET Origins, Called(t, tool, origins)
      PROVE  TypeOK'
  <2>1. calls' \in [Tasks -> Calls]
    BY <1>1, NotedTyped DEF Called
  <2> QED
    BY <1>1, <2>1 DEF Called, TypeOK
<1>2. ASSUME NEW k \in Keys, KnownFact(t, k)
      PROVE  TypeOK'
  <2>1. Writes(k, cache[k]) /\ cache[k] \in Fact
    BY <1>0, <1>2 DEF KnownFact, Writes
  <2>2. evidence' \in [Keys -> Fact]
    BY <1>0, <2>1, WritesTyped
  <2> QED
    BY <1>2, <2>2 DEF KnownFact, TypeOK, desks
<1>3. ASSUME NEW k \in Keys, RecordGap(t, k)
      PROVE  TypeOK'
  <2>1. Writes(k, Gap)
    BY <1>3 DEF RecordGap, Writes
  <2>2. evidence' \in [Keys -> Fact]
    BY <1>0, <2>1, WritesTyped, NoFactTyped
  <2> QED
    BY <1>3, <2>2 DEF RecordGap, TypeOK, desks
<1>4. ASSUME NEW k \in Keys, NEW v \in Values, NEW cited \in SUBSET Origins,
             RecordFact(t, k, v, cited)
      PROVE  TypeOK'
  <2>1. Recorded(t, k, v, cited)
    BY <1>4 DEF RecordFact
  <2>2. evidence' \in [Keys -> Fact] /\ cache' \in [Keys -> Fact]
    BY <2>1, RecordedTyped
  <2> QED
    BY <1>4, <2>2 DEF RecordFact, TypeOK, desks
<1> QED
  BY <1>1, <1>2, <1>3, <1>4, CallsTyped DEF UseTool

LEMMA EndTyped ==
  ASSUME TypeOK, NEW t \in Tasks, End(t)
  PROVE  TypeOK'
<1>1. [calls EXCEPT ![t] = NoCalls] \in [Tasks -> Calls]
  BY DEF TypeOK, Calls, NoCalls
<1>2. CASE SessionEnds(t)
  BY <1>1, <1>2, DeskTyped DEF SessionEnds, Ends, TypeOK, Stages
<1>3. ASSUME NEW young \in SUBSET Packages, NEW undated \in SUBSET Packages,
             Finish(t, young, undated)
      PROVE  TypeOK'
  <2> DEFINE Outcome == [state: {"none", "refused", "accepted"}, reported: SUBSET Packages]
  <2>1. /\ t \in Sweeps /\ result \in [Sweeps -> Outcome] /\ result[t] \in Outcome
        /\ young \cup undated \in SUBSET Packages
    BY <1>3 DEF Finish, TypeOK
  <2>2. result' \in [Sweeps -> Outcome]
    <3>1. [state |-> "accepted", reported |-> young \cup undated] \in Outcome
      BY <2>1
    <3>2. [result[t] EXCEPT !.state = "refused"] \in Outcome
      BY <2>1
    <3>3. \/ result' = result
          \/ result' = [result EXCEPT ![t] = [state |-> "accepted", reported |-> young \cup undated]]
          \/ result' = [result EXCEPT ![t] = [result[t] EXCEPT !.state = "refused"]]
      BY <1>3 DEF Finish
    <3> HIDE DEF Outcome
    <3> QED
      BY <2>1, <3>1, <3>2, <3>3
  <2>3. /\ UNCHANGED <<run, date, evidence, cache, targets, lock, pin, left, pack, asked>>
        /\ \/ Ends(t)
           \/ UNCHANGED <<at, calls>>
    BY <1>3 DEF Finish
  <2>4. CASE UNCHANGED <<at, calls>>
    BY <2>2, <2>3, <2>4 DEF TypeOK
  <2>5. CASE Ends(t)
    BY <1>1, <1>3, <2>2, <2>3, <2>5, DeskTyped DEF Finish, Ends, TypeOK, Stages
  <2> QED
    BY <2>3, <2>4, <2>5
<1> QED
  BY <1>2, <1>3 DEF End

LEMMA NewTyped ==
  ASSUME TypeOK, NEW kind \in Kinds, NEW days \in Gaps, NEW lost, NextRun(kind, days, lost)
  PROVE  TypeOK'
<1>1. run' \in [kind: Kinds, number: 1..MaxRuns, day: Nat]
  BY BoundsAssumption, DatesAssumption DEF NextRun, TypeOK
<1>2. date' \in [Resolved -> Dates] /\ cache' \in [Keys -> Fact]
  BY NoFactTyped DEF NextRun, TypeOK
<1>3. NoCalls \in Calls /\ NoResult \in [state: {"none", "refused", "accepted"}, reported: SUBSET Packages]
  BY DEF NoCalls, Calls, NoResult
<1>4. \A t \in Tasks : at'[t] = "asking" <=> lock' = t
  BY TasksAssumption DEF NextRun
<1> QED
  BY <1>1, <1>2, <1>3, <1>4, NoFactTyped, PlacesTyped DEF NextRun, TypeOK, Stages

LEMMA Typed == TypeOK /\ [Next]_vars => TypeOK'
<1> SUFFICES ASSUME TypeOK, [Next]_vars PROVE TypeOK'
  OBVIOUS
<1>1. CASE UNCHANGED vars
  BY <1>1 DEF vars, desks, TypeOK
<1> QED
  BY <1>1, PrepareTyped, AskTyped, UseTyped, EndTyped, NewTyped DEF Next

LEMMA InitTyped ==
  ASSUME MaxRuns >= 1, Init
  PROVE  TypeOK
<1>1. NoCalls \in Calls /\ NoResult \in [state: {"none", "refused", "accepted"}, reported: SUBSET Packages]
  BY DEF NoCalls, Calls, NoResult
<1> QED
  BY <1>1, NoFactTyped, PlacesTyped, TasksAssumption, BoundsAssumption, DatesAssumption
  DEF Init, TypeOK, Stages

(* Facts, calls and stages are what they should be, and the lock is held   *)
(* exactly by the task that is asking the registry.                        *)
THEOREM FactsTyped == Spec => []TypeOK
<1>1. MaxRuns >= 1
  BY BoundsAssumption
<1>2. Init => TypeOK
  BY <1>1, InitTyped
<1> QED
  BY <1>2, Typed, PTL DEF Spec

-----------------------------------------------------------------------------
(* What a step of a run may put under a key that is not settled.           *)
FromStep(k, fact) ==
  \/ fact = Gap
  \/ Hit(k) /\ fact = cache[k]
  \/ /\ fact.status = "known"
     /\ fact.paged => fact.origin = "web"
     /\ (fact.guest => run.kind # "maintenance")
     /\ k \in TargetKeys =>
          \/ fact.value = "unknown"
          \/ \E t \in Tasks : /\ at[t] = "noting" /\ k = ResolvedKeyOf[pin[t]]
                             /\ fact.value = targets[pin[t]]

StoreStep ==
  \A k \in Keys :
    evidence'[k] = evidence[k] \/ (evidence[k].status # "known" /\ FromStep(k, evidence'[k]))

CacheStep ==
  \A k \in Keys :
    \/ cache'[k] = cache[k]
    \/ cache'[k] = evidence'[k] /\ Writable /\ k \in CacheableKeys \cap ExactKeys

LEMMA WritesStep ==
  ASSUME TypeOK, NEW k \in Keys, NEW record \in Fact, Writes(k, record), FromStep(k, record)
  PROVE  StoreStep
<1>1. evidence \in [Keys -> Fact]
  BY DEF TypeOK
<1>2. \A j \in Keys : j # k => evidence'[j] = evidence[j]
  BY <1>1 DEF Writes
<1>3. evidence'[k] = Kept(evidence[k], record)
  BY <1>1 DEF Writes
<1>4. evidence'[k] = evidence[k] \/ (evidence[k].status # "known" /\ FromStep(k, evidence'[k]))
  BY <1>3 DEF Kept
<1> QED
  BY <1>2, <1>4 DEF StoreStep

LEMMA PreparedSteps ==
  ASSUME TypeOK, NEW t \in Tasks, Prepare(t) \/ Ask(t)
  PROVE  StoreStep /\ cache' = cache
<1> DEFINE Tool == Known(t, SomeValue, "tool", FALSE)
<1>0. Tool \in Fact /\ \A k \in Keys \ TargetKeys : FromStep(k, Tool)
  <2>1. /\ Tool \in Fact /\ Tool.status = "known" /\ ~ Tool.paged
        /\ (Tool.guest => run.kind # "maintenance")
    <3>1. Tool \in Fact
      BY KnownTyped, SomeValueTyped DEF Origins
    <3> QED
      BY <3>1 DEF Known
  <2> HIDE DEF Tool
  <2> QED
    BY <2>1 DEF FromStep
<1>1. CASE UNCHANGED <<evidence, cache>>
  BY <1>1 DEF StoreStep
<1>2. ASSUME NEW hits \in SUBSET AdvisoryKeys, StartScan(t, hits)
      PROVE  StoreStep /\ cache' = cache
  <2>1. \A k \in Keys : evidence'[k] = IF k \in hits THEN Kept(evidence[k], Tool) ELSE evidence[k]
    BY <1>2 DEF StartScan
  <2>2. \A k \in hits : k \notin TargetKeys
    BY KeysAssumption
  <2> HIDE DEF Tool
  <2> QED
    BY <1>0, <1>2, <2>1, <2>2 DEF StoreStep, Kept, StartScan
<1>3. ASSUME NEW p \in Pins, PrepareNext(t, p)
      PROVE  StoreStep /\ cache' = cache
  <2>1. Writes(PinKeyOf[p], Tool) /\ PinKeyOf[p] \in Keys \ TargetKeys /\ cache' = cache
    BY <1>3, PinsAssumption DEF PrepareNext, Writes
  <2> HIDE DEF Tool
  <2> QED
    BY <1>0, <2>1, WritesStep
<1>4. CASE RegistryFails(t)
  <2>1. CASE Preparing(t)
    <3> DEFINE Undated == Known(t, "unknown", "api", FALSE)
    <3>1. /\ Undated \in Fact /\ Undated.status = "known" /\ ~ Undated.paged
          /\ (Undated.guest => run.kind # "maintenance") /\ Undated.value = "unknown"
      <4>1. Undated \in Fact
        BY KnownTyped DEF Ages, Origins
      <4> QED
        BY <4>1 DEF Known
    <3>2. Writes(CurrentKeyOf[pin[t]], Undated) /\ CurrentKeyOf[pin[t]] \in Keys /\ cache' = cache
      BY <1>4, <2>1, PlacesTyped DEF RegistryFails, Writes, TypeOK
    <3> HIDE DEF Undated
    <3>3. FromStep(CurrentKeyOf[pin[t]], Undated)
      BY <3>1 DEF FromStep
    <3> QED
      BY <3>1, <3>2, <3>3, WritesStep
  <2>2. CASE ~ Preparing(t)
    BY <1>1, <1>4, <2>2 DEF RegistryFails
  <2> QED
    BY <2>1, <2>2
<1>5. CASE NoteTarget(t)
  <2> DEFINE Dated == Known(t, targets[pin[t]], "api", FALSE)
  <2>1. /\ Dated \in Fact /\ Dated.status = "known" /\ ~ Dated.paged
        /\ (Dated.guest => run.kind # "maintenance") /\ Dated.value = targets[pin[t]]
    <3>1. targets[pin[t]] \in Values \cup Ages \cup {"none"}
      BY DEF TypeOK
    <3> QED
      <4>1. Dated \in Fact
        BY <3>1, KnownTyped DEF Origins
      <4> QED
        BY <4>1 DEF Known
  <2>2. Writes(ResolvedKeyOf[pin[t]], Dated) /\ ResolvedKeyOf[pin[t]] \in Keys /\ cache' = cache
    BY <1>5, PlacesTyped DEF NoteTarget, Writes, TypeOK
  <2>3. at[t] = "noting"
    BY <1>5 DEF NoteTarget
  <2> HIDE DEF Dated
  <2>4. FromStep(ResolvedKeyOf[pin[t]], Dated)
    BY <2>1, <2>3 DEF FromStep
  <2> QED
    BY <2>1, <2>2, <2>4, WritesStep
<1> QED
  BY <1>1, <1>2, <1>3, <1>4, <1>5
  DEF Prepare, Ask, StartSweep, StartUnprepared, Packed, AskTarget, Recall, TakeLock,
      RegistryAnswers

LEMMA UsedSteps ==
  ASSUME TypeOK, NEW t \in Tasks, UseTool(t)
  PROVE  StoreStep /\ CacheStep
<1>0. evidence \in [Keys -> Fact] /\ cache \in [Keys -> Fact]
  BY DEF TypeOK
<1>1. ASSUME NEW tool, NEW origins, Called(t, tool, origins)
      PROVE  StoreStep /\ CacheStep
  BY <1>1 DEF Called, StoreStep, CacheStep
<1>2. ASSUME NEW k \in Keys, KnownFact(t, k)
      PROVE  StoreStep /\ CacheStep
  <2>1. Writes(k, cache[k]) /\ Hit(k) /\ cache' = cache
    BY <1>2 DEF KnownFact, Writes
  <2> QED
    BY <1>0, <2>1, WritesStep DEF FromStep, CacheStep
<1>3. ASSUME NEW k \in Keys, RecordGap(t, k)
      PROVE  StoreStep /\ CacheStep
  <2>1. Writes(k, Gap) /\ cache' = cache
    BY <1>3 DEF RecordGap, Writes
  <2> QED
    BY <2>1, WritesStep, NoFactTyped DEF FromStep, CacheStep
<1>4. ASSUME NEW k \in Keys, NEW v \in Values, NEW cited \in SUBSET Origins,
             RecordFact(t, k, v, cited)
      PROVE  StoreStep /\ CacheStep
  <2> DEFINE record == Known(t, v, Weakest(cited), "web" \in cited)
             stored == Kept(evidence[k], record)
  <2>1. ("web" \in cited) \in BOOLEAN
    OBVIOUS
  <2>2. /\ record \in Fact /\ record.status = "known" /\ (record.paged => "web" \in cited)
        /\ record.origin = Weakest(cited) /\ (record.guest => run.kind # "maintenance")
    <3>1. record \in Fact
      BY <2>1, KnownTyped, WeakestTyped
    <3> QED
      BY <3>1 DEF Known
  <2>3. /\ k \notin TargetKeys
        /\ evidence' = [evidence EXCEPT ![k] = stored]
        /\ cache' = [cache EXCEPT ![k] = Put(k, stored)]
    BY <1>4 DEF RecordFact, Recorded
  <2> HIDE DEF record
  <2>4. FromStep(k, record)
    BY <2>2, <2>3 DEF FromStep, Weakest
  <2>5. StoreStep
    BY <2>2, <2>3, <2>4, WritesStep DEF Writes
  <2> HIDE DEF stored
  <2>6. CacheStep
    <3>1. evidence'[k] = stored
      BY <1>0, <2>3
    <3>2. \A j \in Keys : j # k => cache'[j] = cache[j]
      BY <1>0, <2>3
    <3>3. cache'[k] = Put(k, stored)
      BY <1>0, <2>3
    <3>4. \/ Put(k, stored) = cache[k]
          \/ Put(k, stored) = stored /\ Writable /\ k \in CacheableKeys \cap ExactKeys
      BY DEF Put
    <3> QED
      BY <3>1, <3>2, <3>3, <3>4 DEF CacheStep
  <2> QED
    BY <2>5, <2>6
<1> QED
  BY <1>1, <1>2, <1>3, <1>4, CallsTyped DEF UseTool

LEMMA UsedLeaves ==
  ASSUME NEW t \in Tasks, UseTool(t)
  PROVE  UNCHANGED <<run, date, targets, lock, at, pin, left, pack, result, asked>>
<1>1. \A tool, origins :
        Called(t, tool, origins) =>
          UNCHANGED <<run, date, targets, lock, at, pin, left, pack, result, asked>>
  BY DEF Called
<1>2. \A k \in Keys :
        KnownFact(t, k) \/ RecordGap(t, k) =>
          UNCHANGED <<run, date, targets, lock, at, pin, left, pack, result, asked>>
  BY DEF KnownFact, RecordGap, desks
<1>3. \A k \in Keys, v \in Values, cited \in SUBSET Origins :
        RecordFact(t, k, v, cited) =>
          UNCHANGED <<run, date, targets, lock, at, pin, left, pack, result, asked>>
  BY DEF RecordFact, desks
<1> QED
  BY <1>1, <1>2, <1>3, CallsTyped DEF UseTool

LEMMA EndSteps ==
  ASSUME NEW t \in Tasks, End(t)
  PROVE  UNCHANGED <<run, date, evidence, cache, targets, lock, pin, left, pack, asked>>
BY DEF End, Finish, SessionEnds

(* What the steps of a run do to the store and to the cache.               *)
LEMMA Steps ==
  ASSUME TypeOK, NEW t \in Tasks, Prepare(t) \/ Ask(t) \/ UseTool(t) \/ End(t)
  PROVE  StoreStep /\ CacheStep /\ run' = run /\ date' = date /\ age' = age
<1>1. run' = run /\ date' = date
  BY EndSteps, CallsTyped
  DEF Prepare, StartSweep, StartUnprepared, StartScan, PrepareNext, Packed, Ask, AskTarget,
      Recall, TakeLock, RegistryAnswers, RegistryFails, NoteTarget, UseTool, KnownFact, RecordGap,
      RecordFact, Called
<1>2. UNCHANGED <<evidence, cache>> => StoreStep /\ CacheStep
  BY DEF StoreStep, CacheStep
<1>3. cache' = cache => CacheStep
  BY DEF CacheStep
<1> QED
  BY <1>1, <1>2, <1>3, AgeStays, PreparedSteps, UsedSteps, EndSteps

LEMMA NewRunDiffers ==
  ASSUME TypeOK, NEW kind \in Kinds, NEW days \in Gaps, NEW lost, NextRun(kind, days, lost)
  PROVE  run' # run
<1>1. run'.number = run.number + 1 /\ run.number \in Nat
  BY BoundsAssumption DEF NextRun, TypeOK
<1> QED
  BY <1>1

(* Within a run one question has one answer, whoever asks again and with   *)
(* whatever the cache holds (EvidenceStore.add).                           *)
THEOREM Settled == Spec => SettledOnce
<1>1. TypeOK /\ [Next]_vars =>
        [run' = run => \A k \in Keys : evidence[k].status = "known" => evidence'[k] = evidence[k]]_vars
  <2> SUFFICES ASSUME TypeOK, Next, run' = run, NEW k \in Keys, evidence[k].status = "known"
               PROVE  evidence'[k] = evidence[k]
    OBVIOUS
  <2>1. PICK t \in Tasks : Prepare(t) \/ Ask(t) \/ UseTool(t) \/ End(t)
    BY NewRunDiffers DEF Next
  <2>2. StoreStep
    BY <2>1, Steps
  <2> QED
    BY <2>2 DEF StoreStep
<1> QED
  BY <1>1, FactsTyped, PTL DEF Spec, SettledOnce

-----------------------------------------------------------------------------
(* A fact that may not be cached is only in the store of its own run.      *)
GuestsStay == \A k \in Keys : evidence[k].status = "known" /\ evidence[k].guest => ~ Writable

OriginInv == PagesStayHeuristic /\ OutsidersDontSeed /\ GuestsStay

LEMMA OriginKept == TypeOK /\ OriginInv /\ [Next]_vars => OriginInv'
<1> SUFFICES ASSUME TypeOK, OriginInv, [Next]_vars PROVE OriginInv'
  OBVIOUS
<1>0. \A k \in Keys :
        /\ evidence[k].status = "known" /\ evidence[k].paged => evidence[k].origin = "web"
        /\ cache[k].status = "known" /\ cache[k].paged => cache[k].origin = "web"
        /\ cache[k].status = "known" => k \in CacheableKeys \cap ExactKeys /\ ~ cache[k].guest
        /\ evidence[k].status = "known" /\ evidence[k].guest => ~ Writable
  BY DEF OriginInv, PagesStayHeuristic, OutsidersDontSeed, GuestsStay
<1>1. CASE UNCHANGED vars
  BY <1>1 DEF vars, OriginInv, PagesStayHeuristic, OutsidersDontSeed, GuestsStay, Writable
<1>2. ASSUME NEW t \in Tasks, Prepare(t) \/ Ask(t) \/ UseTool(t) \/ End(t)
      PROVE  OriginInv'
  <2>1. StoreStep /\ CacheStep /\ run' = run
    BY <1>2, Steps
  <2>2. ASSUME NEW k \in Keys, evidence'[k].status = "known"
        PROVE  /\ evidence'[k].paged => evidence'[k].origin = "web"
               /\ evidence'[k].guest => ~ Writable
    <3>1. evidence'[k] = evidence[k] \/ FromStep(k, evidence'[k])
      BY <2>1 DEF StoreStep
    <3>2. Gap.status # "known"
      BY DEF Gap, NoFact
    <3> QED
      BY <1>0, <2>2, <3>1, <3>2 DEF FromStep, Hit, Writable
  <2>3. ASSUME NEW k \in Keys, cache'[k].status = "known"
        PROVE  /\ cache'[k].paged => cache'[k].origin = "web"
               /\ k \in CacheableKeys \cap ExactKeys /\ ~ cache'[k].guest
    <3>1. CASE cache'[k] = cache[k]
      BY <1>0, <2>3, <3>1
    <3>2. CASE cache'[k] = evidence'[k] /\ Writable /\ k \in CacheableKeys \cap ExactKeys
      BY <2>2, <2>3, <3>2
    <3> QED
      BY <2>1, <3>1, <3>2 DEF CacheStep
  <2>4. Writable' = Writable
    BY <2>1 DEF Writable
  <2> QED
    BY <2>2, <2>3, <2>4 DEF OriginInv, PagesStayHeuristic, OutsidersDontSeed, GuestsStay
<1>3. ASSUME NEW kind \in Kinds, NEW days \in Gaps, NEW lost, NextRun(kind, days, lost)
      PROVE  OriginInv'
  <2>1. \A k \in Keys : evidence'[k] = NoFact /\ cache'[k] \in {NoFact, cache[k]}
    BY <1>3 DEF NextRun
  <2>2. NoFact.status # "known"
    BY DEF NoFact
  <2> QED
    BY <1>0, <2>1, <2>2 DEF OriginInv, PagesStayHeuristic, OutsidersDontSeed, GuestsStay
<1> QED
  BY <1>1, <1>2, <1>3 DEF Next

LEMMA OriginAlways == Spec => []OriginInv
<1>1. Init => OriginInv
  BY DEF Init, NoFact, OriginInv, PagesStayHeuristic, OutsidersDontSeed, GuestsStay
<1> QED
  BY <1>1, OriginKept, FactsTyped, PTL DEF Spec

(* A page behind a fact makes it heuristic, in its run and in any later    *)
(* one that finds it in the cache (_weakest).                              *)
THEOREM PagesHeuristic == Spec => []PagesStayHeuristic
BY OriginAlways, PTL DEF OriginInv

(* No change request seeds what later runs believe (FactCache.put).        *)
THEOREM OutsidersSeedNothing == Spec => []OutsidersDontSeed
BY OriginAlways, PTL DEF OriginInv

-----------------------------------------------------------------------------
(* What the memo holds is what the registry said, of a version it was      *)
(* asked about once; and a task that asks found nothing there.             *)
MemoInv ==
  /\ \A p \in Pins :
       /\ targets[p] = "none" => asked[p] = 0
       /\ asked[p] <= 1
       /\ targets[p] \in {"none", age[ResolvedKeyOf[p]]}
  /\ \A t \in Tasks :
       /\ at[t] = "asking" => targets[pin[t]] = "none"
       /\ at[t] = "noting" => targets[pin[t]] # "none"

(* A step that leaves the memo alone may only enter a stage in which       *)
(* nothing is known of the pin.                                            *)
LEMMA MemoStays ==
  ASSUME TypeOK, MemoInv, NEW t \in Tasks, NEW stage \in Stages,
         UNCHANGED <<run, date, targets, asked>>, at' = Moved(t, stage) \/ at' = at,
         \A u \in Tasks : u # t => pin'[u] = pin[u],
         at' = at => pin' = pin,
         stage = "asking" => pin' = pin /\ targets[pin[t]] = "none",
         stage = "noting" => pin' = pin /\ targets[pin[t]] # "none"
  PROVE  MemoInv'
<1>1. ASSUME NEW u \in Tasks
      PROVE  /\ at'[u] = "asking" => targets[pin'[u]] = "none"
             /\ at'[u] = "noting" => targets[pin'[u]] # "none"
  <2>1. CASE at' = at
    BY <2>1 DEF MemoInv
  <2>2. CASE at' = Moved(t, stage) /\ u = t
    BY <2>2, MovedTyped
  <2>3. CASE at' = Moved(t, stage) /\ u # t
    BY <2>3, MovedTyped DEF MemoInv
  <2> QED
    BY <2>1, <2>2, <2>3
<1> QED
  BY <1>1, AgeStays DEF MemoInv

LEMMA MemoAsked ==
  ASSUME TypeOK, MemoInv, NEW t \in Tasks, RegistryAnswers(t)
  PROVE  MemoInv'
<1>0. /\ pin[t] \in Pins /\ pin' = pin /\ age' = age
      /\ targets[pin[t]] = "none" /\ asked[pin[t]] = 0
      /\ age[ResolvedKeyOf[pin[t]]] \in Ages
  BY PlacesTyped, AgeStays, AgeTyped DEF RegistryAnswers, TypeOK, MemoInv
<1>1. /\ \A p \in Pins : p # pin[t] => targets'[p] = targets[p] /\ asked'[p] = asked[p]
      /\ targets'[pin[t]] = age[ResolvedKeyOf[pin[t]]] /\ asked'[pin[t]] = 1
  BY <1>0 DEF RegistryAnswers, Answer, TypeOK
<1>2. "none" \notin Ages
  BY DEF Ages
<1>3. ASSUME NEW u \in Tasks
      PROVE  /\ at'[u] = "asking" => targets'[pin'[u]] = "none"
             /\ at'[u] = "noting" => targets'[pin'[u]] # "none"
  <2>1. CASE u = t
    BY <1>0, <1>1, <1>2, <2>1, MovedTyped DEF RegistryAnswers, Stages
  <2>2. CASE u # t
    <3>1. at'[u] = at[u] /\ at[u] # "asking" /\ pin[u] \in Pins
      BY <2>2, MovedTyped DEF RegistryAnswers, Stages, TypeOK
    <3> QED
      BY <1>0, <1>1, <1>2, <3>1 DEF MemoInv
  <2> QED
    BY <2>1, <2>2
<1> QED
  BY <1>0, <1>1, <1>2, <1>3 DEF MemoInv

LEMMA MemoKept == TypeOK /\ MemoInv /\ [Next]_vars => MemoInv'
<1> SUFFICES ASSUME TypeOK, MemoInv, [Next]_vars PROVE MemoInv'
  OBVIOUS
<1>0. /\ pin \in [Tasks -> Pins]
      /\ \A t \in Tasks : pin[t] \in Pins
      /\ {"new", "preparing", "waiting", "asking", "noting", "working", "done"} = Stages
  BY DEF TypeOK, Stages
<1>1. CASE UNCHANGED vars
  BY <1>1, AgeStays DEF vars, desks, MemoInv
<1>2. ASSUME NEW t \in Tasks, Prepare(t)
      PROVE  MemoInv'
  <2>1. /\ UNCHANGED <<run, date, targets, asked>>
        /\ \A u \in Tasks : u # t => pin'[u] = pin[u]
        /\ at' \in {Moved(t, "preparing"), Moved(t, "working"), Moved(t, "waiting")}
    BY <1>0, <1>2 DEF Prepare, StartSweep, StartUnprepared, StartScan, PrepareNext, Packed
  <2>2. at' # at
    <3>1. \/ at[t] = "new" /\ at' \in {Moved(t, "preparing"), Moved(t, "working")}
          \/ at[t] = "preparing" /\ at' \in {Moved(t, "working"), Moved(t, "waiting")}
      BY <1>2 DEF Prepare, StartSweep, StartUnprepared, StartScan, PrepareNext, Packed
    <3>2. /\ Moved(t, "preparing")[t] = "preparing" /\ Moved(t, "working")[t] = "working"
          /\ Moved(t, "waiting")[t] = "waiting"
      BY MovedTyped DEF Stages
    <3> QED
      BY <3>1, <3>2
  <2> QED
    BY <1>0, <2>1, <2>2, MemoStays
<1>3. ASSUME NEW t \in Tasks, Ask(t)
      PROVE  MemoInv'
  <2>1. ASSUME NEW p \in Pins, AskTarget(t, p)
        PROVE  MemoInv'
    <3>1. at' = Moved(t, "waiting") /\ at' # at /\ UNCHANGED <<run, date, targets, asked>>
      BY <1>0, <2>1, MovedTyped DEF AskTarget, Working
    <3>2. \A u \in Tasks : u # t => pin'[u] = pin[u]
      BY <1>0, <2>1 DEF AskTarget
    <3> QED
      BY <1>0, <3>1, <3>2, MemoStays
  <2>2. CASE Recall(t)
    BY <1>0, <2>2, MemoStays DEF Recall
  <2>3. CASE TakeLock(t)
    BY <1>0, <2>3, MemoStays DEF TakeLock
  <2>4. CASE RegistryFails(t)
    <3>1. /\ at' \in {Moved(t, "preparing"), Moved(t, "working")}
          /\ UNCHANGED <<run, date, targets, asked, pin>>
      BY <2>4 DEF RegistryFails
    <3> QED
      BY <1>0, <3>1, MemoStays
  <2>5. CASE NoteTarget(t)
    <3>1. /\ at' \in {Moved(t, "preparing"), Moved(t, "working")}
          /\ UNCHANGED <<run, date, targets, asked, pin>>
      BY <2>5 DEF NoteTarget
    <3> QED
      BY <1>0, <3>1, MemoStays
  <2> QED
    BY <1>3, <2>1, <2>2, <2>3, <2>4, <2>5, MemoAsked DEF Ask
<1>4. ASSUME NEW t \in Tasks, UseTool(t)
      PROVE  MemoInv'
  <2>1. UNCHANGED <<run, date, targets, asked, pin, at>>
    BY <1>4, UsedLeaves
  <2> QED
    BY <2>1, AgeStays DEF MemoInv
<1>5. ASSUME NEW t \in Tasks, End(t)
      PROVE  MemoInv'
  <2>1. UNCHANGED <<run, date, targets, asked, pin>> /\ at' \in {at, Moved(t, "done")}
    BY <1>5 DEF End, Finish, SessionEnds, Ends
  <2> QED
    BY <1>0, <2>1, MemoStays
<1>6. ASSUME NEW kind \in Kinds, NEW days \in Gaps, NEW lost, NextRun(kind, days, lost)
      PROVE  MemoInv'
  BY <1>6 DEF NextRun, MemoInv
<1> QED
  BY <1>1, <1>2, <1>3, <1>4, <1>5, <1>6 DEF Next

LEMMA MemoAlways == Spec => []MemoInv
<1>1. Init => MemoInv
  BY DEF Init, MemoInv
<1> QED
  BY <1>1, MemoKept, FactsTyped, PTL DEF Spec

(* The registry answers about a pin at most once in a run, whoever asks    *)
(* and however many at once (pin_lock).                                    *)
THEOREM Once == Spec => []AskedOnce
<1>1. MemoInv => AskedOnce
  BY DEF MemoInv, AskedOnce
<1> QED
  BY <1>1, MemoAlways, PTL

(* An age on record is what the registry says, or that nobody knows; no    *)
(* session makes one up (_record_fact refuses current-cleared).            *)
AgesAreAsked ==
  \A k \in TargetKeys :
    evidence[k].status = "known" /\ evidence[k].value # "unknown" =>
      k \in Resolved /\ evidence[k].value = age[k]

LEMMA AgesKept ==
  TypeOK /\ MemoInv /\ AgesAreAsked /\ [Next]_vars => AgesAreAsked'
<1> SUFFICES ASSUME TypeOK, MemoInv, AgesAreAsked, [Next]_vars PROVE AgesAreAsked'
  OBVIOUS
<1>1. CASE UNCHANGED vars
  BY <1>1, AgeStays DEF vars, AgesAreAsked
<1>2. ASSUME NEW t \in Tasks, Prepare(t) \/ Ask(t) \/ UseTool(t) \/ End(t)
      PROVE  AgesAreAsked'
  <2>1. StoreStep /\ age' = age
    BY <1>2, Steps
  <2>2. ASSUME NEW k \in TargetKeys, evidence'[k].status = "known", evidence'[k].value # "unknown"
        PROVE  k \in Resolved /\ evidence'[k].value = age[k]
    <3>1. k \in Keys /\ ~ Hit(k)
      BY KeysAssumption, VolatileAssumption DEF Hit
    <3>2. CASE evidence'[k] = evidence[k]
      BY <2>2, <3>2 DEF AgesAreAsked
    <3>3. CASE FromStep(k, evidence'[k])
      <4>1. Gap.status # "known"
        BY DEF Gap, NoFact
      <4>2. PICK u \in Tasks : /\ at[u] = "noting" /\ k = ResolvedKeyOf[pin[u]]
                               /\ evidence'[k].value = targets[pin[u]]
        BY <2>2, <3>1, <3>3, <4>1 DEF FromStep
      <4>3. pin[u] \in Pins
        BY DEF TypeOK
      <4> QED
        BY <4>2, <4>3, PlacesTyped DEF MemoInv
    <3> QED
      BY <2>1, <3>1, <3>2, <3>3 DEF StoreStep
  <2> QED
    BY <2>1, <2>2 DEF AgesAreAsked
<1>3. ASSUME NEW kind \in Kinds, NEW days \in Gaps, NEW lost, NextRun(kind, days, lost)
      PROVE  AgesAreAsked'
  <2>1. \A k \in Keys : evidence'[k].status # "known"
    BY <1>3 DEF NextRun, NoFact
  <2> QED
    BY <2>1, PlacesTyped DEF AgesAreAsked
<1> QED
  BY <1>1, <1>2, <1>3 DEF Next

LEMMA AgesAlways == Spec => []AgesAreAsked
<1>1. Init => AgesAreAsked
  BY PlacesTyped DEF Init, AgesAreAsked, NoFact
<1> QED
  BY <1>1, AgesKept, MemoAlways, FactsTyped, PTL DEF Spec

-----------------------------------------------------------------------------
(* The store says how old the pin is, or that nobody could tell.           *)
Accounted(p) ==
  \/ evidence[ResolvedKeyOf[p]].status = "known"
  \/ /\ evidence[CurrentKeyOf[p]].status = "known"
     /\ evidence[CurrentKeyOf[p]].value = "unknown"

Told(t) ==
  \A p \in OwnPins(t) :
    Waits(ResolvedKeyOf[p]) => PackageOf[CurrentKeyOf[p]] \in result[t].reported

(* How far a sweep has got, and what is accounted for by then.             *)
SweepPart(t) ==
  /\ at[t] = "new" => pack[t] = "none"
  /\ at[t] = "preparing" => pack[t] = "open"
  /\ pack[t] = "open" =>
       /\ at[t] \in {"preparing", "waiting", "asking", "noting"}
       /\ \A p \in OwnPins(t) \ left[t] : Accounted(p) \/ (p = pin[t] /\ at[t] # "preparing")
  /\ pack[t] = "ready" => \A p \in OwnPins(t) : Accounted(p)
  /\ at[t] # "done" => result[t].state # "accepted"
  /\ result[t].state = "accepted" /\ pack[t] = "ready" => Told(t)

SweepInv == \A t \in Sweeps : SweepPart(t)

Dated == TypeOK /\ MemoInv /\ AgesAreAsked

LEMMA OwnedPins ==
  ASSUME NEW t, NEW p \in OwnPins(t)
  PROVE  /\ p \in Pins
         /\ CurrentKeyOf[p] \in TargetKeys /\ ResolvedKeyOf[p] \in TargetKeys
         /\ CurrentKeyOf[p] \in Keys /\ ResolvedKeyOf[p] \in Keys
         /\ PackageOf[CurrentKeyOf[p]] = PackageOf[ResolvedKeyOf[p]]
         /\ PackageOf[CurrentKeyOf[p]] \in Owned(t)
BY PinsAssumption, KeysAssumption DEF OwnPins

LEMMA AccountedStays ==
  ASSUME StoreStep, NEW p \in Pins, Accounted(p)
  PROVE  Accounted(p)'
BY PlacesTyped DEF StoreStep, Accounted

(* A step of another task changes nothing for this one.                    *)
LEMMA OthersStay ==
  ASSUME NEW t \in Sweeps, SweepPart(t), StoreStep, run' = run, date' = date,
         at'[t] = at[t], pack'[t] = pack[t], left'[t] = left[t], pin'[t] = pin[t],
         result'[t] = result[t]
  PROVE  SweepPart(t)'
<1>1. \A p \in OwnPins(t) : Accounted(p) => Accounted(p)'
  BY OwnedPins, AccountedStays
<1>2. Told(t) => Told(t)'
  BY DEF Told, Waits
<1> QED
  BY <1>1, <1>2 DEF SweepPart

LEMMA PrepareSweeps ==
  ASSUME Dated, NEW t \in Sweeps, SweepPart(t), Prepare(t)
  PROVE  SweepPart(t)'
<1>0. /\ t \in Tasks /\ t \notin Scans /\ TypeOK
      /\ pack \in [Tasks -> {"none", "open", "ready"}] /\ left \in [Tasks -> SUBSET Pins]
      /\ pin \in [Tasks -> Pins]
  BY TasksAssumption DEF Dated, TypeOK
<1>1. StoreStep /\ run' = run /\ date' = date
  BY <1>0, Steps
<1>2. \A p \in OwnPins(t) : Accounted(p) => Accounted(p)'
  BY <1>1, OwnedPins, AccountedStays
<1>3. /\ Moved(t, "preparing")[t] = "preparing" /\ Moved(t, "working")[t] = "working"
      /\ Moved(t, "waiting")[t] = "waiting"
  BY <1>0, MovedTyped DEF Stages
<1>4. CASE StartSweep(t)
  BY <1>0, <1>3, <1>4 DEF StartSweep, SweepPart
<1>5. CASE StartUnprepared(t)
  BY <1>0, <1>3, <1>5 DEF StartUnprepared, SweepPart
<1>6. ASSUME NEW p \in Pins, PrepareNext(t, p)
      PROVE  SweepPart(t)'
  <2>1. /\ at[t] = "preparing" /\ at'[t] = "waiting" /\ pack'[t] = pack[t] /\ pin'[t] = p
        /\ left'[t] = left[t] \ {p} /\ result'[t] = result[t]
    BY <1>0, <1>3, <1>6 DEF PrepareNext
  <2>2. pack[t] = "open" /\ result[t].state # "accepted"
    BY <2>1 DEF SweepPart
  <2>3. \A q \in OwnPins(t) \ left[t] : Accounted(q)
    BY <2>1, <2>2 DEF SweepPart
  <2> QED
    BY <1>2, <2>1, <2>2, <2>3 DEF SweepPart
<1>7. CASE Packed(t)
  <2>1. /\ at[t] = "preparing" /\ at'[t] = "working" /\ pack'[t] = "ready"
        /\ left[t] = {} /\ result'[t] = result[t]
    BY <1>0, <1>3, <1>7 DEF Packed
  <2>2. pack[t] = "open" /\ result[t].state # "accepted"
    BY <2>1 DEF SweepPart
  <2>3. \A q \in OwnPins(t) : Accounted(q)
    BY <2>1, <2>2 DEF SweepPart
  <2> QED
    BY <1>2, <2>1, <2>2, <2>3 DEF SweepPart
<1> QED
  BY <1>0, <1>4, <1>5, <1>6, <1>7 DEF Prepare, StartScan

(* A preparation that has asked about its pin has accounted for it, also   *)
(* when the registry could not be asked.                                   *)
LEMMA AskSweeps ==
  ASSUME Dated, NEW t \in Sweeps, SweepPart(t), Ask(t)
  PROVE  SweepPart(t)'
<1>0. /\ t \in Tasks /\ TypeOK /\ pin[t] \in Pins
      /\ pin \in [Tasks -> Pins] /\ evidence \in [Keys -> Fact]
  BY TasksAssumption DEF Dated, TypeOK
<1>1. StoreStep /\ run' = run /\ date' = date
  BY <1>0, Steps
<1>2. \A p \in OwnPins(t) : Accounted(p) => Accounted(p)'
  BY <1>1, OwnedPins, AccountedStays
<1>3. /\ Moved(t, "preparing")[t] = "preparing" /\ Moved(t, "working")[t] = "working"
      /\ Moved(t, "waiting")[t] = "waiting" /\ Moved(t, "asking")[t] = "asking"
      /\ Moved(t, "noting")[t] = "noting"
  BY <1>0, MovedTyped DEF Stages
<1>4. ASSUME NEW p \in Pins, AskTarget(t, p)
      PROVE  SweepPart(t)'
  <2>1. /\ at[t] = "working" /\ at'[t] = "waiting" /\ pack'[t] = pack[t] /\ result'[t] = result[t]
    BY <1>3, <1>4 DEF AskTarget, Working
  <2> QED
    BY <1>2, <2>1 DEF SweepPart
<1>5. CASE Recall(t) \/ TakeLock(t) \/ RegistryAnswers(t)
  <2>1. /\ at[t] \in {"waiting", "asking"} /\ at'[t] \in {"asking", "noting"}
        /\ UNCHANGED <<pack, pin, left, result>>
    BY <1>3, <1>5 DEF Recall, TakeLock, RegistryAnswers
  <2> QED
    BY <1>2, <2>1 DEF SweepPart
<1>6. CASE RegistryFails(t)
  <2>1. at[t] = "asking" /\ UNCHANGED <<pack, pin, left, result>>
    BY <1>6 DEF RegistryFails
  <2>2. CASE Preparing(t)
    <3>1. at'[t] = "preparing" /\ pack[t] = "open"
      BY <1>3, <1>6, <2>2 DEF RegistryFails, Preparing
    <3>2. Accounted(pin[t])'
      <4> DEFINE Undated == Known(t, "unknown", "api", FALSE)
                 cur == CurrentKeyOf[pin[t]]
      <4>1. Undated.status = "known" /\ Undated.value = "unknown"
        BY DEF Known
      <4>2. cur \in Keys /\ cur \in TargetKeys
        BY <1>0, PlacesTyped, PinsAssumption
      <4>3. evidence'[cur] = Kept(evidence[cur], Undated)
        BY <1>0, <1>6, <2>2, <4>2 DEF RegistryFails
      <4>4. pin' = pin
        BY <2>1
      <4> HIDE DEF Undated
      <4>5. CASE evidence[cur].status # "known" \/ evidence[cur].value = "unknown"
        BY <4>1, <4>3, <4>4, <4>5 DEF Kept, Accounted
      <4>6. CASE evidence[cur].status = "known" /\ evidence[cur].value # "unknown"
        <5>1. cur \in Resolved
          BY <4>2, <4>6 DEF Dated, AgesAreAsked
        <5>2. ResolvedKeyOf[pin[t]] = cur
          BY <1>0, <5>1, ResolutionAssumption DEF Resolved
        <5> QED
          BY <4>3, <4>4, <4>6, <5>2 DEF Kept, Accounted
      <4> QED
        BY <4>5, <4>6
    <3>3. \A q \in OwnPins(t) \ left[t] : Accounted(q) \/ q = pin[t]
      BY <3>1 DEF SweepPart
    <3>4. \A q \in OwnPins(t) \ left[t] : Accounted(q)'
      <4>1. pin' = pin
        BY <2>1
      <4> QED
        BY <1>2, <3>2, <3>3, <4>1 DEF Accounted
    <3>5. result[t].state # "accepted"
      BY <2>1 DEF SweepPart
    <3> QED
      BY <2>1, <3>1, <3>4, <3>5 DEF SweepPart
  <2>3. CASE ~ Preparing(t)
    <3>1. at'[t] = "working" /\ pack[t] # "open"
      BY <1>3, <1>6, <2>3 DEF RegistryFails, Preparing
    <3> QED
      BY <1>2, <2>1, <3>1 DEF SweepPart
  <2> QED
    BY <2>2, <2>3
<1>7. CASE NoteTarget(t)
  <2>1. at[t] = "noting" /\ UNCHANGED <<pack, pin, left, result>>
    BY <1>7 DEF NoteTarget
  <2>2. CASE Preparing(t)
    <3>1. at'[t] = "preparing" /\ pack[t] = "open"
      BY <1>3, <1>7, <2>2 DEF NoteTarget, Preparing
    <3>2. Accounted(pin[t])'
      <4> DEFINE Asked == Known(t, targets[pin[t]], "api", FALSE)
                 res == ResolvedKeyOf[pin[t]]
      <4>1. Asked.status = "known"
        BY DEF Known
      <4>2. evidence'[res] = Kept(evidence[res], Asked)
        BY <1>0, <1>7, PlacesTyped DEF NoteTarget
      <4>3. pin' = pin
        BY <2>1
      <4> HIDE DEF Asked
      <4> QED
        BY <4>1, <4>2, <4>3 DEF Kept, Accounted
    <3>3. \A q \in OwnPins(t) \ left[t] : Accounted(q) \/ q = pin[t]
      BY <3>1 DEF SweepPart
    <3>4. \A q \in OwnPins(t) \ left[t] : Accounted(q)'
      <4>1. pin' = pin
        BY <2>1
      <4> QED
        BY <1>2, <3>2, <3>3, <4>1 DEF Accounted
    <3>5. result[t].state # "accepted"
      BY <2>1 DEF SweepPart
    <3> QED
      BY <2>1, <3>1, <3>4, <3>5 DEF SweepPart
  <2>3. CASE ~ Preparing(t)
    <3>1. at'[t] = "working" /\ pack[t] # "open"
      BY <1>3, <1>7, <2>3 DEF NoteTarget, Preparing
    <3> QED
      BY <1>2, <2>1, <3>1 DEF SweepPart
  <2> QED
    BY <2>2, <2>3
<1> QED
  BY <1>4, <1>5, <1>6, <1>7 DEF Ask

(* What the gate accepts has told of every pin that is accounted for.      *)
LEMMA AcceptedTells ==
  ASSUME Dated, NEW t \in Sweeps, NEW young, NEW undated, Matched(t, young, undated),
         \A p \in OwnPins(t) : Accounted(p), NEW p \in OwnPins(t),
         Waits(ResolvedKeyOf[p])
  PROVE  PackageOf[CurrentKeyOf[p]] \in young \cup undated
<1>1. PICK k \in {ResolvedKeyOf[p], CurrentKeyOf[p]} :
        /\ evidence[k].status = "known"
        /\ k = ResolvedKeyOf[p] \/ evidence[k].value = "unknown"
  BY DEF Accounted
<1>2. /\ k \in TargetKeys /\ k \in Keys /\ PackageOf[k] = PackageOf[CurrentKeyOf[p]]
      /\ PackageOf[k] \in Owned(t)
  BY <1>1, OwnedPins
<1>3. age[ResolvedKeyOf[p]] \in {"young", "unknown"}
  BY OwnedPins, PlacesTyped, WaitsTyped DEF Dated
<1>4. evidence[k].value \in {"young", "unknown"}
  BY <1>1, <1>2, <1>3 DEF Dated, AgesAreAsked
<1>5. PackageOf[k] \in Aged(t, evidence[k].value)
  BY <1>1, <1>2 DEF Aged
<1> QED
  BY <1>2, <1>4, <1>5 DEF Matched

LEMMA EndSweeps ==
  ASSUME Dated, NEW t \in Sweeps, SweepPart(t), End(t)
  PROVE  SweepPart(t)'
<1>0. /\ t \in Tasks /\ TypeOK /\ at[t] = "working" /\ pack[t] # "open"
      /\ UNCHANGED <<run, date, evidence, pack, pin, left>>
      /\ at'[t] \in {"working", "done"}
  <2>1. t \in Tasks /\ TypeOK
    BY TasksAssumption DEF Dated
  <2>2. Moved(t, "done")[t] = "done"
    BY <2>1, MovedTyped DEF Stages
  <2>3. at[t] = "working" /\ at' \in {at, Moved(t, "done")}
    BY DEF End, Finish, SessionEnds, Ends
  <2> QED
    BY <2>1, <2>2, <2>3, EndSteps DEF SweepPart
<1>1. \A p : Accounted(p)' <=> Accounted(p)
  BY <1>0 DEF Accounted
<1>2. ASSUME NEW young \in SUBSET Packages, NEW undated \in SUBSET Packages,
             Accepted(t, young, undated),
             result' = [result EXCEPT ![t] = [state |-> "accepted", reported |-> young \cup undated]],
             Ends(t)
      PROVE  SweepPart(t)'
  <2>1. result'[t].reported = young \cup undated /\ at'[t] = "done"
    BY <1>0, <1>2, MovedTyped DEF Ends, TypeOK, Stages
  <2>2. pack[t] = "ready" => \A p \in OwnPins(t) : Accounted(p)
    BY DEF SweepPart
  <2>3. pack[t] = "ready" => Told(t)'
    <3> SUFFICES ASSUME pack[t] = "ready", NEW p \in OwnPins(t), Waits(ResolvedKeyOf[p])
                 PROVE  PackageOf[CurrentKeyOf[p]] \in young \cup undated
      BY <1>0, <2>1 DEF Told, Waits
    <3> QED
      BY <1>2, <2>2, AcceptedTells DEF Accepted
  <2> QED
    BY <1>0, <1>1, <2>1, <2>2, <2>3 DEF SweepPart
<1>3. ASSUME result'[t].state # "accepted"
      PROVE  SweepPart(t)'
  BY <1>0, <1>1, <1>3 DEF SweepPart
<1>4. CASE result' = result
  <2>1. result'[t].state # "accepted"
    BY <1>0, <1>4 DEF SweepPart
  <2> QED
    BY <1>3, <2>1
<1>5. CASE result' = [result EXCEPT ![t].state = "refused"]
  <2>1. result'[t].state = "refused"
    BY <1>0, <1>5 DEF TypeOK
  <2> QED
    BY <1>3, <2>1
<1> QED
  BY <1>2, <1>4, <1>5 DEF End, Finish, SessionEnds

LEMMA SweepsKept == Dated /\ SweepInv /\ [Next]_vars => SweepInv'
<1> SUFFICES ASSUME Dated, SweepInv, [Next]_vars, NEW u \in Sweeps PROVE SweepPart(u)'
  BY DEF SweepInv
<1>0. u \in Tasks /\ SweepPart(u) /\ TypeOK
  BY TasksAssumption DEF SweepInv, Dated
<1>1. CASE UNCHANGED vars
  <2>1. StoreStep
    BY <1>1 DEF vars, StoreStep
  <2> QED
    BY <1>0, <1>1, <2>1, OthersStay DEF vars, desks
<1>2. ASSUME NEW t \in Tasks, Prepare(t) \/ Ask(t) \/ End(t)
      PROVE  SweepPart(u)'
  <2>1. CASE t = u
    BY <1>0, <1>2, <2>1, PrepareSweeps, AskSweeps, EndSweeps
  <2>2. CASE t # u
    <3>1. StoreStep /\ run' = run /\ date' = date
      BY <1>0, <1>2, Steps
    <3>2. \A stage : Moved(t, stage)[u] = at[u]
      BY <1>0, <2>2 DEF Moved, TypeOK
    <3>3. at'[u] = at[u]
      <4>1. Prepare(t) => \E stage : at' = Moved(t, stage)
        BY DEF Prepare, StartSweep, StartUnprepared, StartScan, PrepareNext, Packed
      <4>2. Ask(t) => \E stage : at' = Moved(t, stage)
        BY DEF Ask, AskTarget, Recall, TakeLock, RegistryAnswers, RegistryFails, NoteTarget
      <4>3. End(t) => at' \in {at, Moved(t, "done")}
        BY DEF End, Finish, SessionEnds, Ends
      <4> QED
        BY <1>2, <3>2, <4>1, <4>2, <4>3
    <3>4. pack'[u] = pack[u] /\ left'[u] = left[u] /\ pin'[u] = pin[u] /\ result'[u] = result[u]
      BY <1>0, <1>2, <2>2
      DEF Prepare, StartSweep, StartUnprepared, StartScan, PrepareNext, Packed, Ask, AskTarget,
          Recall, TakeLock, RegistryAnswers, RegistryFails, NoteTarget, End, Finish, SessionEnds,
          TypeOK
    <3> QED
      BY <1>0, <3>1, <3>3, <3>4, OthersStay
  <2> QED
    BY <2>1, <2>2
<1>3. ASSUME NEW t \in Tasks, UseTool(t)
      PROVE  SweepPart(u)'
  <2>1. StoreStep
    BY <1>0, <1>3, Steps
  <2> QED
    BY <1>0, <1>3, <2>1, UsedLeaves, OthersStay
<1>4. ASSUME NEW kind \in Kinds, NEW days \in Gaps, NEW lost, NextRun(kind, days, lost)
      PROVE  SweepPart(u)'
  BY <1>0, <1>4 DEF NextRun, SweepPart, NoResult
<1> QED
  BY <1>1, <1>2, <1>3, <1>4 DEF Next

(* A prepared sweep that was accepted has reported every declared version  *)
(* that is in its window or that nobody could date                         *)
(* (incomplete_current_quarantine).                                        *)
THEOREM YoungReported == Spec => []YoungIsReported
<1>1. Init => SweepInv
  <2> SUFFICES ASSUME Init, NEW t \in Sweeps PROVE SweepPart(t)
    BY DEF SweepInv
  <2>1. /\ t \in Tasks /\ at[t] = "new" /\ pack[t] = "none" /\ result[t].state = "none"
    BY TasksAssumption DEF Init, NoResult
  <2> QED
    BY <2>1 DEF SweepPart
<1>2. SweepInv => YoungIsReported
  BY DEF SweepInv, SweepPart, Told, YoungIsReported
<1>3. TypeOK /\ MemoInv /\ AgesAreAsked => Dated
  BY DEF Dated
<1> QED
  BY <1>1, <1>2, <1>3, SweepsKept, FactsTyped, MemoAlways, AgesAlways, PTL DEF Spec
=============================================================================
