--------------------------- MODULE SessionsProofs ---------------------------
(***************************************************************************)
(* What a run can spend, for every plan, every parallelism and every way   *)
(* in which its sessions end.                                              *)
(*                                                                         *)
(* The ledger is asked before a session and told after it, so the argument *)
(* counts slots: whatever is not recorded yet is used by a task that holds *)
(* one, and the last of them was let in below the ceiling.                 *)
(***************************************************************************)
EXTENDS Sessions, FiniteSetTheorems, TLAPS

-----------------------------------------------------------------------------
(* Sums over finite sets of tasks: the fold of the community modules, taken *)
(* apart by induction on the strict subsets of a finite set.               *)

(* A sum over s is 0, or a chosen element and the sum over the rest.       *)
Step(f, g, s) == IF s = {} THEN 0 ELSE LET x == CHOOSE x \in s : TRUE IN f[x] + g[s \ {x}]

IsSum(f, S, g) == g = [s \in SUBSET S |-> Step(f, g, s)]

Total(f, S) == FoldFunctionOnSet(+, 0, f, S)

LEMMA TotalIsSum ==
  ASSUME NEW f, NEW S
  PROVE  Total(f, S) = (CHOOSE g : IsSum(f, S, g))[S]
BY DEF Total, FoldFunctionOnSet, MapThenFoldSet, IsSum, Step

(* A collection of subsets of a finite set has a least one.                *)
LEMMA LeastSubset ==
  ASSUME NEW S, IsFiniteSet(S), NEW Bad \in SUBSET SUBSET S, Bad # {}
  PROVE  \E T \in Bad : \A U \in SUBSET T : U # T => U \notin Bad
<1>1. FiniteSubsetsOf(S) = SUBSET S
  BY FS_FiniteSubsetsOfFinite
<1>2. IsWellFoundedOn(StrictSubsetOrdering(S), SUBSET S)
  BY <1>1, FS_StrictSubsetOrderingWellFounded
<1>3. \E T \in Bad : \A U \in Bad : <<U, T>> \notin StrictSubsetOrdering(S)
  BY <1>2, WFMin
<1>4. PICK T \in Bad : \A U \in Bad : <<U, T>> \notin StrictSubsetOrdering(S)
  BY <1>3
<1>5. ASSUME NEW U \in SUBSET T, U # T, U \in Bad PROVE FALSE
  <2>1. <<U, T>> \in (SUBSET S) \X (SUBSET S)
    OBVIOUS
  <2>2. <<U, T>> \in StrictSubsetOrdering(S)
    BY <1>5, <2>1 DEF StrictSubsetOrdering
  <2> QED
    BY <1>4, <1>5, <2>2
<1> QED
  BY <1>5

LEMMA Chosen == \A s : s # {} => (CHOOSE x \in s : TRUE) \in s
OBVIOUS

(* A sum over a set agrees with a sum over a part of it on that part.      *)
LEMMA SumsAgree ==
  ASSUME NEW f, NEW S, IsFiniteSet(S), NEW T \in SUBSET S,
         NEW g, NEW h, IsSum(f, S, g), IsSum(f, T, h)
  PROVE  g[T] = h[T]
<1> DEFINE Bad == {v \in SUBSET T : g[v] # h[v]}
<1>1. IsFiniteSet(T)
  BY FS_Subset
<1> SUFFICES ASSUME Bad # {} PROVE FALSE
  OBVIOUS
<1>2. PICK v \in Bad : \A u \in SUBSET v : u # v => u \notin Bad
  <2>1. Bad \in SUBSET SUBSET T
    OBVIOUS
  <2> HIDE DEF Bad
  <2> QED
    BY <1>1, <2>1, LeastSubset
<1>3. /\ g[v] = Step(f, g, v) /\ h[v] = Step(f, h, v)
  <2>1. v \in SUBSET S /\ v \in SUBSET T
    OBVIOUS
  <2> QED
    BY <2>1 DEF IsSum
<1>4. Step(f, g, v) = Step(f, h, v)
  <2>1. CASE v = {}
    BY <2>1 DEF Step
  <2>2. CASE v # {}
    <3> DEFINE x == CHOOSE x \in v : TRUE
    <3>1. x \in v
      BY <2>2
    <3>2. v \ {x} \in SUBSET v /\ v \ {x} # v
      BY <3>1
    <3>3. g[v \ {x}] = h[v \ {x}]
      BY <1>2, <3>2
    <3> QED
      BY <2>2, <3>3 DEF Step
  <2> QED
    BY <2>1, <2>2
<1> QED
  BY <1>3, <1>4

LEMMA SumExists ==
  ASSUME NEW f, NEW S, IsFiniteSet(S)
  PROVE  \E g : IsSum(f, S, g)
<1> DEFINE Bad == {T \in SUBSET S : ~ \E g : IsSum(f, T, g)}
<1> SUFFICES ASSUME Bad # {} PROVE FALSE
  OBVIOUS
<1>1. PICK T \in Bad : \A U \in SUBSET T : U # T => U \notin Bad
  <2>1. Bad \in SUBSET SUBSET S
    OBVIOUS
  <2> HIDE DEF Bad
  <2> QED
    BY <2>1, LeastSubset
<1>2. T \in SUBSET S /\ ~ \E g : IsSum(f, T, g)
  OBVIOUS
<1> DEFINE sumOf(U) == CHOOSE g : IsSum(f, U, g)
<1>3. \A U \in SUBSET T : U # T => IsSum(f, U, sumOf(U))
  <2> SUFFICES ASSUME NEW U \in SUBSET T, U # T PROVE IsSum(f, U, sumOf(U))
    OBVIOUS
  <2>1. \E g : IsSum(f, U, g)
    BY <1>1
  <2> QED
    BY <2>1
<1> HIDE DEF Bad, sumOf
(* below T the sums over the subsets, at T what they make                  *)
<1> DEFINE below == [U \in SUBSET T |-> sumOf(U)[U]]
           whole == [U \in SUBSET T |-> Step(f, below, U)]
<1>4. \A U \in SUBSET T : U # T => whole[U] = below[U]
  <2> SUFFICES ASSUME NEW U \in SUBSET T, U # T PROVE Step(f, below, U) = sumOf(U)[U]
    OBVIOUS
  <2>1. IsSum(f, U, sumOf(U))
    BY <1>3
  <2>2. sumOf(U)[U] = Step(f, sumOf(U), U)
    BY <2>1 DEF IsSum
  <2>3. CASE U = {}
    BY <2>2, <2>3 DEF Step
  <2>4. CASE U # {}
    <3> DEFINE x == CHOOSE x \in U : TRUE
    <3>1. x \in U
      BY <2>4
    <3> DEFINE V == U \ {x}
    <3>2. V \in SUBSET T /\ V # T /\ V \in SUBSET U /\ IsFiniteSet(U)
      BY <1>2, <3>1, FS_Subset
    <3>3. IsSum(f, V, sumOf(V))
      BY <1>3, <3>2
    <3>4. sumOf(V)[V] = sumOf(U)[V]
      <4> HIDE DEF V
      <4> QED
        BY <2>1, <3>2, <3>3, SumsAgree
    <3>5. below[V] = sumOf(V)[V]
      BY <3>2
    <3>6. Step(f, below, U) = f[x] + below[V] /\ Step(f, sumOf(U), U) = f[x] + sumOf(U)[V]
      BY <2>4 DEF Step
    <3> QED
      BY <2>2, <3>4, <3>5, <3>6
  <2> QED
    BY <2>3, <2>4
<1>5. \A U \in SUBSET T : Step(f, below, U) = Step(f, whole, U)
  <2> SUFFICES ASSUME NEW U \in SUBSET T, U # {} PROVE Step(f, below, U) = Step(f, whole, U)
    BY DEF Step
  <2> DEFINE x == CHOOSE x \in U : TRUE
  <2>1. x \in U
    OBVIOUS
  <2>2. U \ {x} \in SUBSET T /\ U \ {x} # T
    BY <2>1
  <2>3. whole[U \ {x}] = below[U \ {x}]
    BY <1>4, <2>2
  <2> QED
    BY <2>3 DEF Step
<1>6. IsSum(f, T, whole)
  BY <1>5 DEF IsSum
<1> QED
  BY <1>2, <1>6

LEMMA TotalDef ==
  ASSUME NEW f, NEW S, IsFiniteSet(S), S # {}
  PROVE  Total(f, S) = f[CHOOSE x \in S : TRUE] + Total(f, S \ {CHOOSE x \in S : TRUE})
<1> DEFINE x == CHOOSE x \in S : TRUE
           V == S \ {x}
<1>1. PICK g : g = (CHOOSE k : IsSum(f, S, k))
  OBVIOUS
<1>2. PICK h : h = (CHOOSE k : IsSum(f, V, k))
  OBVIOUS
<1>3. IsFiniteSet(V) /\ V \in SUBSET S
  BY FS_RemoveElement
<1>4. IsSum(f, S, g) /\ IsSum(f, V, h)
  BY <1>1, <1>2, <1>3, SumExists
<1>5. g[S] = f[x] + g[V]
  BY <1>4 DEF IsSum, Step
<1>6. Total(f, S) = g[S] /\ Total(f, V) = h[V]
  BY <1>1, <1>2, TotalIsSum
<1> HIDE DEF x, V
<1>7. g[V] = h[V]
  BY <1>3, <1>4, SumsAgree
<1> QED
  BY <1>5, <1>6, <1>7 DEF x, V

LEMMA TotalEmpty == ASSUME NEW f PROVE Total(f, {}) = 0
<1> DEFINE g == CHOOSE k : IsSum(f, {}, k)
<1>1. IsSum(f, {}, g)
  BY SumExists, FS_EmptySet
<1>2. g[{}] = 0
  BY <1>1 DEF IsSum, Step
<1> QED
  BY <1>2, TotalIsSum

(* Any element can be taken out of a sum first.                            *)
LEMMA TotalTakes ==
  ASSUME NEW S, IsFiniteSet(S), NEW f, \A t \in S : f[t] \in Nat, NEW y \in S
  PROVE  /\ Total(f, S) \in Nat
         /\ Total(f, S \ {y}) \in Nat
         /\ Total(f, S) = f[y] + Total(f, S \ {y})
<1> DEFINE Fine(T) == /\ Total(f, T) \in Nat
                      /\ \A t \in T : Total(f, T) = f[t] + Total(f, T \ {t})
           Bad == {T \in SUBSET S : ~ Fine(T)}
<1> SUFFICES ASSUME Bad # {} PROVE FALSE
  <2>1. S \ {y} \in SUBSET S /\ S \in SUBSET S
    OBVIOUS
  <2> QED
    BY <2>1
<1>1. PICK T \in Bad : \A U \in SUBSET T : U # T => U \notin Bad
  <2>1. Bad \in SUBSET SUBSET S
    OBVIOUS
  <2> HIDE DEF Bad
  <2> QED
    BY <2>1, LeastSubset
<1>2. T \in SUBSET S /\ ~ Fine(T) /\ IsFiniteSet(T)
  BY FS_Subset
<1>3. \A U \in SUBSET T : U # T => Fine(U)
  BY <1>1, <1>2
<1>4. T # {}
  <2> SUFFICES ASSUME T = {} PROVE Fine(T)
    BY <1>2
  <2> QED
    BY TotalEmpty
<1> DEFINE c == CHOOSE t \in T : TRUE
           V == T \ {c}
<1>5. c \in T
  BY <1>4
<1>6. Total(f, T) = f[c] + Total(f, V)
  BY <1>2, <1>4, TotalDef
<1>7. Fine(V) /\ f[c] \in Nat
  <2>1. V \in SUBSET T /\ V # T
    BY <1>5
  <2> QED
    BY <1>2, <1>3, <1>5, <2>1
<1> HIDE DEF Bad, c
<1>8. ASSUME NEW t \in T PROVE Total(f, T) = f[t] + Total(f, T \ {t})
  <2>1. CASE t = c
    BY <1>6, <2>1
  <2>2. CASE t # c
    <3>1. t \in V /\ c \in T \ {t} /\ T \ {t} \in SUBSET T /\ T \ {t} # T
      BY <1>5, <2>2
    <3>2. Fine(T \ {t})
      BY <1>3, <3>1
    <3>3. Total(f, V) = f[t] + Total(f, V \ {t})
      BY <1>7, <3>1
    <3>4. Total(f, T \ {t}) = f[c] + Total(f, (T \ {t}) \ {c})
      BY <3>1, <3>2
    <3>5. V \ {t} = (T \ {t}) \ {c}
      OBVIOUS
    <3>6. Total(f, V \ {t}) \in Nat /\ f[t] \in Nat
      <4>1. V \ {t} \in SUBSET T /\ V \ {t} # T
        BY <1>5
      <4> QED
        BY <1>2, <1>3, <4>1
    <3>7. f[c] \in Nat
      BY <1>7
    <3>8. Total(f, T \ {t}) = f[c] + Total(f, V \ {t})
      BY <3>4, <3>5
    <3> HIDE DEF V
    <3>9. Total(f, T) = f[c] + (f[t] + Total(f, V \ {t}))
      BY <1>6, <3>3
    <3> QED
      BY <3>6, <3>7, <3>8, <3>9
  <2> QED
    BY <2>1, <2>2
<1> QED
  BY <1>2, <1>6, <1>7, <1>8

(* Sums of values that agree are the same.                                 *)
LEMMA TotalSame ==
  ASSUME NEW S, IsFiniteSet(S), NEW f, NEW g, \A t \in S : f[t] = g[t] /\ f[t] \in Nat
  PROVE  Total(f, S) = Total(g, S)
<1> DEFINE Bad == {T \in SUBSET S : Total(f, T) # Total(g, T)}
<1> SUFFICES ASSUME Bad # {} PROVE FALSE
  <2>1. S \in SUBSET S
    OBVIOUS
  <2> QED
    BY <2>1
<1>1. PICK T \in Bad : \A U \in SUBSET T : U # T => U \notin Bad
  <2>1. Bad \in SUBSET SUBSET S
    OBVIOUS
  <2> HIDE DEF Bad
  <2> QED
    BY <2>1, LeastSubset
<1>2. T \in SUBSET S /\ Total(f, T) # Total(g, T) /\ IsFiniteSet(T)
  BY FS_Subset
<1>3. T # {}
  BY <1>2, TotalEmpty
<1>4. PICK t \in T : TRUE
  BY <1>3
<1>5. Total(f, T \ {t}) = Total(g, T \ {t})
  <2>1. T \ {t} \in SUBSET T /\ T \ {t} # T
    OBVIOUS
  <2> QED
    BY <1>1, <1>2, <2>1
<1>6. \A u \in T : f[u] \in Nat /\ g[u] \in Nat
  BY <1>2
<1>7. Total(f, T) = f[t] + Total(f, T \ {t}) /\ Total(g, T) = g[t] + Total(g, T \ {t})
  BY <1>2, <1>6, TotalTakes
<1> QED
  BY <1>2, <1>5, <1>7

(* A sum over two sets apart is the sum of the sums.                       *)
LEMMA TotalUnion ==
  ASSUME NEW S, IsFiniteSet(S), NEW R, IsFiniteSet(R), R \cap S = {},
         NEW f, \A t \in R \cup S : f[t] \in Nat
  PROVE  Total(f, R \cup S) = Total(f, R) + Total(f, S)
<1> DEFINE Bad == {T \in SUBSET S : Total(f, R \cup T) # Total(f, R) + Total(f, T)}
<1> SUFFICES ASSUME Bad # {} PROVE FALSE
  <2>1. S \in SUBSET S
    OBVIOUS
  <2> QED
    BY <2>1
<1>1. PICK T \in Bad : \A U \in SUBSET T : U # T => U \notin Bad
  <2>1. Bad \in SUBSET SUBSET S
    OBVIOUS
  <2> HIDE DEF Bad
  <2> QED
    BY <2>1, LeastSubset
<1>2. /\ T \in SUBSET S /\ Total(f, R \cup T) # Total(f, R) + Total(f, T)
      /\ IsFiniteSet(T) /\ IsFiniteSet(R \cup T)
  BY FS_Subset, FS_Union
<1>0. Total(f, R) \in Nat
  <2>1. CASE R = {}
    BY <2>1, TotalEmpty
  <2>2. CASE R # {}
    BY <2>2, TotalTakes
  <2> QED
    BY <2>1, <2>2
<1>3. T # {}
  <2> SUFFICES ASSUME T = {} PROVE Total(f, R \cup T) = Total(f, R) + Total(f, T)
    BY <1>2
  <2>1. R \cup T = R
    OBVIOUS
  <2> QED
    BY <1>0, <2>1, TotalEmpty
<1>4. PICK t \in T : TRUE
  BY <1>3
<1>5. Total(f, R \cup (T \ {t})) = Total(f, R) + Total(f, T \ {t})
  <2>1. T \ {t} \in SUBSET T /\ T \ {t} # T
    OBVIOUS
  <2> QED
    BY <1>1, <1>2, <2>1
<1>6. (R \cup T) \ {t} = R \cup (T \ {t}) /\ t \in R \cup T
  BY <1>2
<1>7. /\ Total(f, T) = f[t] + Total(f, T \ {t})
      /\ Total(f, T \ {t}) \in Nat
  <2>1. \A u \in T : f[u] \in Nat
    BY <1>2
  <2> QED
    BY <1>2, <2>1, TotalTakes
<1>8. Total(f, R \cup T) = f[t] + Total(f, (R \cup T) \ {t})
  <2>1. \A u \in R \cup T : f[u] \in Nat
    BY <1>2
  <2> QED
    BY <1>2, <1>6, <2>1, TotalTakes
<1>9. f[t] \in Nat
  BY <1>2
<1> QED
  BY <1>0, <1>2, <1>5, <1>6, <1>7, <1>8, <1>9

(* A sum of as many values is bounded by as many bounds.                   *)
LEMMA TotalBounded ==
  ASSUME NEW S, IsFiniteSet(S), NEW n \in Nat, NEW f, \A t \in S : f[t] \in 0..n
  PROVE  Total(f, S) <= Cardinality(S) * n
<1> DEFINE Bad == {T \in SUBSET S : ~ Total(f, T) <= Cardinality(T) * n}
<1> SUFFICES ASSUME Bad # {} PROVE FALSE
  <2>1. S \in SUBSET S
    OBVIOUS
  <2> QED
    BY <2>1
<1>1. PICK T \in Bad : \A U \in SUBSET T : U # T => U \notin Bad
  <2>1. Bad \in SUBSET SUBSET S
    OBVIOUS
  <2> HIDE DEF Bad
  <2> QED
    BY <2>1, LeastSubset
<1>2. T \in SUBSET S /\ ~ Total(f, T) <= Cardinality(T) * n /\ IsFiniteSet(T)
  BY FS_Subset
<1>3. T # {}
  <2> SUFFICES ASSUME T = {} PROVE Total(f, T) <= Cardinality(T) * n
    BY <1>2
  <2> QED
    BY TotalEmpty, FS_EmptySet
<1>4. PICK t \in T : TRUE
  BY <1>3
<1>5. Total(f, T \ {t}) <= Cardinality(T \ {t}) * n
  <2>1. T \ {t} \in SUBSET T /\ T \ {t} # T
    OBVIOUS
  <2> QED
    BY <1>1, <1>2, <2>1
<1>6. /\ Total(f, T) = f[t] + Total(f, T \ {t})
      /\ Total(f, T \ {t}) \in Nat
      /\ f[t] \in 0..n
  <2>1. \A u \in T : f[u] \in Nat
    BY <1>2
  <2> QED
    BY <1>2, <2>1, TotalTakes
<1>7. Cardinality(T \ {t}) = Cardinality(T) - 1 /\ Cardinality(T) \in Nat
  BY <1>2, FS_RemoveElement, FS_CardinalityType
<1>8. (Cardinality(T) - 1) * n = Cardinality(T) * n - n
  BY <1>7
<1>9. Cardinality(T) * n \in Nat
  BY <1>7
<1> QED
  BY <1>2, <1>5, <1>6, <1>7, <1>8, <1>9
-----------------------------------------------------------------------------
(* The inductive invariant.                                                *)

Holding == {t \in Tasks : task[t].state \in {"running", "proving"}}
Running == {t \in Tasks : task[t].state = "running"}
Waiting == {t \in Tasks : task[t].state = "waiting"}
Done == {t \in Tasks : task[t].state \in {"proving", "ended"}}

UsedBy == [t \in Tasks |-> task[t].used]

(* The most a task can use.                                                *)
Most == MaxAttempts * MaxUse

(* A task that waits has done nothing, one that runs has an attempt left,  *)
(* and no attempt uses more than a session can.                            *)
TaskInv ==
  \A t \in Tasks :
    /\ task[t].state = "waiting" => task[t] = Untouched
    /\ task[t].state = "running" => task[t].attempts < MaxAttempts
    /\ task[t].silent <= task[t].attempts
    /\ task[t].used <= task[t].attempts * MaxUse

(* The fixers wait for the analysts, and nobody waits for the fixers.      *)
StageInv ==
  /\ stage = "analysis" => \A t \in Fixers : task[t].state = "waiting"
  /\ stage # "analysis" => \A t \in Analysts : task[t].state = "ended"
  /\ stage = "done" => \A t \in Fixers : task[t].state = "ended"

(* Every slot is free or held.                                             *)
SlotsInv == slots + Cardinality(Holding) = MaxParallel

(* The ledger holds what the tasks that are done have used.                *)
LedgerInv == spend.tokens = Total(UsedBy, Done)

(* Once a session starts the ledger is below the ceiling, and at most as   *)
(* many sessions as there are slots have yet to be recorded.               *)
StageCeiling == IF stage = "analysis" THEN Tokens - Reserve ELSE Tokens

BudgetInv == spend.tokens + Cardinality(Running) * Most < StageCeiling + MaxParallel * Most

(* What the analysts used is settled once fixing begins.                   *)
AnalysedInv ==
  stage # "analysis" => Total(UsedBy, Analysts) < Tokens - Reserve + MaxParallel * Most

(* Slots go to the fixers in their order.                                  *)
OrderInv ==
  \A t, u \in Fixers :
    task[t].state = "waiting" /\ task[u].state # "waiting" => Order[u] < Order[t]

-----------------------------------------------------------------------------
(* Types, tasks, stages and slots.                                         *)

LEMMA Products ==
  ASSUME NEW a \in Nat, NEW b \in Nat, NEW m \in Nat, a <= b
  PROVE  /\ a * m \in Nat /\ b * m \in Nat /\ a * m <= b * m
         /\ (a + 1) * m = a * m + m
<1>1. PICK c \in Nat : b = a + c
  <2>1. b - a \in Nat /\ b = a + (b - a)
    OBVIOUS
  <2> QED
    BY <2>1
<1>2. (a + c) * m = a * m + c * m
  OBVIOUS
<1>3. a * m \in Nat /\ b * m \in Nat /\ c * m \in Nat
  OBVIOUS
<1> QED
  BY <1>1, <1>2, <1>3

LEMMA MostType == Most \in Nat /\ Overshoot = MaxParallel * Most
BY SessionAssumption DEF Most, Overshoot

(* A run starts with everything to do and every slot free.                 *)
LEMMA PlanInit == Init => TypeOK /\ TaskInv /\ StageInv /\ SlotsInv
<1> SUFFICES ASSUME Init PROVE TypeOK /\ TaskInv /\ StageInv /\ SlotsInv
  OBVIOUS
<1>1. MaxParallel \in Nat /\ MaxAttempts \in Nat \ {0} /\ MaxUse \in Nat /\ 0 * MaxUse = 0
  BY SessionAssumption
<1>2. MaxAttempts * MaxUse \in Nat
  BY <1>1
<1>3. Holding = {}
  BY DEF Holding, Init, Untouched
<1>4. slots = MaxParallel /\ Cardinality(Holding) = 0
  BY <1>3, FS_EmptySet DEF Init
<1>5. SlotsInv
  BY <1>1, <1>4 DEF SlotsInv
<1>6. Analysts \subseteq Tasks /\ Fixers \subseteq Tasks
  BY DEF Tasks
<1>7. TypeOK
  BY <1>1, <1>2 DEF Init, Untouched, TypeOK, AllEndings, Failures, Reasons
<1> QED
  BY <1>1, <1>5, <1>6, <1>7 DEF Init, Untouched, TaskInv, StageInv

(* One task's record, as TypeOK and TaskInv have it.                       *)
TaskRecord ==
  [state : {"waiting", "running", "proving", "ended"},
   attempts : 0..MaxAttempts, used : Nat, silent : 0..MaxAttempts,
   failure : Failures \cup {"none"}, rejected : BOOLEAN,
   last : AllEndings \cup {"none", "exhausted"}, reason : Reasons]

Sound(rec) ==
  /\ rec \in TaskRecord
  /\ rec.state = "waiting" => rec = Untouched
  /\ rec.state = "running" => rec.attempts < MaxAttempts
  /\ rec.silent <= rec.attempts
  /\ rec.used <= rec.attempts * MaxUse

SoundTasks == {rec \in TaskRecord : Sound(rec)}

SoundPlan ==
  /\ stage \in {"analysis", "fixing", "done"}
  /\ slots \in 0..MaxParallel
  /\ task \in [Tasks -> SoundTasks]
  /\ spend \in [tokens : Nat, accounted : Nat, unaccounted : Nat]

LEMMA UsedFits ==
  ASSUME NEW rec, Sound(rec)
  PROVE  rec.used \in 0..Most /\ rec.attempts * MaxUse \in Nat
<1>1. MaxAttempts \in Nat /\ MaxUse \in Nat
  BY SessionAssumption
<1>2. rec.used \in Nat /\ rec.attempts \in 0..MaxAttempts /\ rec.used <= rec.attempts * MaxUse
  BY DEF Sound, TaskRecord
<1>3. rec.attempts * MaxUse \in Nat /\ rec.attempts * MaxUse <= MaxAttempts * MaxUse /\ MaxAttempts * MaxUse \in Nat
  BY <1>1, <1>2, Products
<1> QED
  BY <1>2, <1>3 DEF Most

LEMMA PlanIsSound == TypeOK /\ TaskInv <=> SoundPlan
<1>1. MaxAttempts \in Nat /\ MaxUse \in Nat
  BY SessionAssumption
<1>2. ASSUME TypeOK, TaskInv, NEW t \in Tasks PROVE task[t] \in SoundTasks
  BY <1>2 DEF TypeOK, TaskInv, Sound, SoundTasks, TaskRecord
<1>3. TypeOK /\ TaskInv => task \in [Tasks -> SoundTasks]
  BY <1>2 DEF TypeOK
<1>4. ASSUME NEW rec \in SoundTasks PROVE rec.used \in 0..(MaxAttempts * MaxUse)
  BY UsedFits DEF Most, SoundTasks
<1> QED
  BY <1>3, <1>4 DEF TypeOK, TaskInv, Sound, SoundTasks, TaskRecord, SoundPlan

(* What an attempt leaves is a sound record, unless it goes on.            *)
LEMMA AttemptSound ==
  ASSUME SoundPlan, NEW t \in Tasks, task[t].state = "running",
         NEW ending \in Endings, NEW known \in Says, NEW use \in 0..MaxUse
  PROVE  LET rec == Attempted(t, ending, known, use)
         IN  /\ rec \in TaskRecord
             /\ rec.state = "running"
             /\ rec.attempts = task[t].attempts + 1
             /\ rec.silent <= rec.attempts
             /\ rec.used <= rec.attempts * MaxUse
<1>1. MaxAttempts \in Nat /\ MaxUse \in Nat /\ known \in BOOLEAN /\ ending \in AllEndings
  BY SessionAssumption
<1>2. Sound(task[t])
  BY DEF SoundPlan, SoundTasks
<1> DEFINE old == task[t]
           rec == Attempted(t, ending, known, use)
<1>3. /\ old \in TaskRecord /\ old.state = "running" /\ old.attempts < MaxAttempts
      /\ old.silent <= old.attempts /\ old.used <= old.attempts * MaxUse
  BY <1>2 DEF Sound
<1>4. /\ old.attempts \in Nat /\ old.used \in Nat /\ old.silent \in Nat
      /\ old.attempts * MaxUse \in Nat
      /\ (old.attempts + 1) * MaxUse = old.attempts * MaxUse + MaxUse
  BY <1>1, <1>3, Products DEF TaskRecord
<1>5. rec.used \in {old.used, old.used + use} /\ rec.silent \in {old.silent, old.silent + 1}
      /\ rec.attempts = old.attempts + 1 /\ rec.state = "running"
  BY <1>3 DEF Attempted, TaskRecord
<1>6. rec \in TaskRecord
  <2>1. old.attempts + 1 \in 0..MaxAttempts /\ old.silent + 1 \in 0..MaxAttempts /\ old.used + use \in Nat
    BY <1>1, <1>3, <1>4
  <2> QED
    BY <1>1, <1>3, <2>1 DEF Attempted, TaskRecord, AllEndings, Failures
<1>7. rec.silent <= rec.attempts /\ rec.used <= rec.attempts * MaxUse
  <2> HIDE DEF rec, old
  <2>1. rec.silent <= rec.attempts
    BY <1>3, <1>4, <1>5
  <2>2. rec.used <= old.used + MaxUse
    BY <1>1, <1>4, <1>5
  <2>3. rec.used \in Nat
    BY <1>4, <1>5
  <2>4. rec.attempts * MaxUse = old.attempts * MaxUse + MaxUse
    BY <1>4, <1>5
  <2> QED
    BY <1>1, <1>3, <1>4, <2>1, <2>2, <2>3, <2>4
<1> QED
  BY <1>5, <1>6, <1>7

PlanInv == SoundPlan /\ StageInv /\ SlotsInv

(* Who holds a slot, as one task goes from one state to another.           *)
LEMMA HoldersFinite ==
  PlanInv => IsFiniteSet(Holding) /\ Cardinality(Holding) \in Nat
             /\ IsFiniteSet(Running) /\ Cardinality(Running) \in Nat
             /\ Cardinality(Running) <= Cardinality(Holding) /\ Cardinality(Holding) <= MaxParallel
             /\ slots \in Nat
<1> SUFFICES ASSUME PlanInv
             PROVE  /\ IsFiniteSet(Holding) /\ Cardinality(Holding) \in Nat
                    /\ IsFiniteSet(Running) /\ Cardinality(Running) \in Nat
                    /\ Cardinality(Running) <= Cardinality(Holding) /\ Cardinality(Holding) <= MaxParallel
                    /\ slots \in Nat
  OBVIOUS
<1>1. IsFiniteSet(Tasks) /\ MaxParallel \in Nat
  BY SessionAssumption
<1>2. Holding \in SUBSET Tasks /\ Running \in SUBSET Holding
  BY DEF Holding, Running
<1>3. IsFiniteSet(Holding) /\ IsFiniteSet(Running) /\ Cardinality(Running) <= Cardinality(Holding)
  BY <1>1, <1>2, FS_Subset
<1>4. Cardinality(Holding) \in Nat /\ Cardinality(Running) \in Nat
  BY <1>3, FS_CardinalityType
<1> QED
  BY <1>1, <1>3, <1>4 DEF PlanInv, SlotsInv, SoundPlan

LEMMA StartPlan ==
  ASSUME PlanInv, NEW t \in Tasks, Start(t)
  PROVE  PlanInv' /\ Holding' = Holding \cup {t} /\ t \notin Holding
<1>1. /\ t \in Staged /\ task[t].state = "waiting" /\ slots > 0
      /\ task' = [task EXCEPT ![t].state = "running"]
      /\ slots' = slots - 1 /\ UNCHANGED <<stage, spend>>
  BY DEF Start, GetsSlot, In
<1>2. Sound(task[t]) /\ task[t] = Untouched /\ MaxAttempts \in Nat \ {0}
  BY <1>1, SessionAssumption DEF PlanInv, SoundPlan, SoundTasks, Sound
<1>3. task'[t] = [Untouched EXCEPT !.state = "running"]
  BY <1>1, <1>2 DEF PlanInv, SoundPlan
<1>4. [Untouched EXCEPT !.state = "running"] \in SoundTasks
  <2>1. MaxUse \in Nat /\ 0 * MaxUse = 0 /\ 0 \in 0..MaxAttempts /\ 0 < MaxAttempts
    BY <1>2, SessionAssumption
  <2>2. [Untouched EXCEPT !.state = "running"] \in TaskRecord
    BY <2>1 DEF Untouched, TaskRecord, Reasons
  <2> QED
    BY <2>1, <2>2 DEF Untouched, SoundTasks, Sound
<1>5. SoundPlan'
  <2>1. slots' \in 0..MaxParallel
    BY <1>1, SessionAssumption DEF PlanInv, SoundPlan
  <2> QED
    BY <1>1, <1>3, <1>4, <2>1 DEF PlanInv, SoundPlan
<1>6. Holding' = Holding \cup {t} /\ t \notin Holding
  BY <1>1 DEF Holding, PlanInv, SoundPlan, SoundTasks, TaskRecord
<1>7. SlotsInv'
  <2>1. Cardinality(Holding') = Cardinality(Holding) + 1
    BY <1>6, HoldersFinite, FS_AddElement
  <2> QED
    BY <1>1, <2>1, HoldersFinite, SessionAssumption DEF PlanInv, SlotsInv
<1>8. StageInv'
  BY <1>1, SessionAssumption DEF PlanInv, SoundPlan, StageInv, Staged, Tasks
<1> QED
  BY <1>5, <1>6, <1>7, <1>8 DEF PlanInv

LEMMA RefusePlan ==
  ASSUME PlanInv, NEW t \in Tasks, Refuse(t)
  PROVE  PlanInv' /\ Holding' = Holding
<1>1. /\ t \in Staged /\ task[t].state = "waiting"
      /\ task' = [task EXCEPT ![t].state = "ended",
                       ![t].last = "exhausted", ![t].reason = "exhausted"]
      /\ UNCHANGED <<stage, slots, spend>>
  BY DEF Refuse, GetsSlot, In, NotAfforded
<1>2. Sound(task[t]) /\ task[t] = Untouched /\ MaxAttempts \in Nat \ {0}
  BY <1>1, SessionAssumption DEF PlanInv, SoundPlan, SoundTasks, Sound
<1>3. task'[t] = [Untouched EXCEPT !.state = "ended", !.last = "exhausted", !.reason = "exhausted"]
  BY <1>1, <1>2 DEF PlanInv, SoundPlan
<1>4. [Untouched EXCEPT !.state = "ended", !.last = "exhausted", !.reason = "exhausted"] \in SoundTasks
  BY <1>2, <1>3, SessionAssumption DEF Untouched, SoundTasks, Sound, TaskRecord, Reasons
<1>5. SoundPlan'
  BY <1>1, <1>3, <1>4 DEF PlanInv, SoundPlan
<1>6. Holding' = Holding
  BY <1>1 DEF Holding, PlanInv, SoundPlan, SoundTasks, TaskRecord
<1>7. StageInv'
  BY <1>1, SessionAssumption DEF PlanInv, SoundPlan, StageInv, Staged, Tasks
<1> QED
  BY <1>1, <1>5, <1>6, <1>7 DEF PlanInv, SlotsInv

LEMMA RetryPlan ==
  ASSUME PlanInv, NEW t \in Tasks, NEW ending \in Endings, NEW known \in Says,
         NEW use \in 0..MaxUse, Retry(t, ending, known, use)
  PROVE  PlanInv' /\ Holding' = Holding
<1> DEFINE rec == Attempted(t, ending, known, use)
<1>1. /\ t \in Staged /\ task[t].state = "running"
      /\ task[t].attempts + 1 < MaxAttempts
      /\ task' = [task EXCEPT ![t] = rec]
      /\ UNCHANGED <<stage, slots, spend>>
  BY DEF Retry, In, Retried
<1>2. /\ rec \in TaskRecord /\ rec.state = "running" /\ rec.attempts = task[t].attempts + 1
      /\ rec.silent <= rec.attempts /\ rec.used <= rec.attempts * MaxUse
  BY <1>1, AttemptSound DEF PlanInv
<1> HIDE DEF rec
<1>3. rec \in SoundTasks
  BY <1>1, <1>2 DEF SoundTasks, Sound
<1>5. SoundPlan'
  BY <1>1, <1>3 DEF PlanInv, SoundPlan
<1>6. Holding' = Holding
  BY <1>1, <1>2 DEF Holding, PlanInv, SoundPlan, SoundTasks, TaskRecord
<1>7. StageInv'
  BY <1>1, <1>2, SessionAssumption DEF PlanInv, SoundPlan, StageInv, Staged, Tasks
<1> QED
  BY <1>1, <1>5, <1>6, <1>7 DEF PlanInv, SlotsInv

LEMMA FreedPlan ==
  ASSUME PlanInv, StageInv', NEW t \in Holding, slots' = slots + 1, Holding' = Holding \ {t},
         stage' = stage, task' \in [Tasks -> SoundTasks],
         spend' \in [tokens : Nat, accounted : Nat, unaccounted : Nat]
  PROVE  PlanInv'
<1>1. Cardinality(Holding') = Cardinality(Holding) - 1 /\ Cardinality(Holding') \in Nat
  BY HoldersFinite, FS_RemoveElement, FS_CardinalityType
<1>2. SlotsInv'
  BY <1>1, HoldersFinite, SessionAssumption DEF PlanInv, SlotsInv
<1>3. slots' \in 0..MaxParallel
  BY <1>1, HoldersFinite, SessionAssumption DEF PlanInv, SlotsInv
<1> QED
  BY <1>2, <1>3 DEF PlanInv, SoundPlan

(* A task that is done with its attempts is recorded, and gives its slot   *)
(* back unless its checks are still to be proved.                          *)
LEMMA FinishPlan ==
  ASSUME PlanInv, NEW t \in Tasks, NEW ending \in Endings, NEW known \in Says,
         NEW use \in 0..MaxUse, Finish(t, ending, known, use)
  PROVE  /\ PlanInv'
         /\ t \in Running /\ t \in Staged /\ stage' = stage
         /\ task'[t].state \in {"proving", "ended"} /\ task'[t].attempts > 0
         /\ task'[t].attempts = task[t].attempts + 1
         /\ task'[t].used \in 0..Most
         /\ \A u \in Tasks \ {t} : task'[u] = task[u]
         /\ spend'.tokens = spend.tokens + task'[t].used
<1> DEFINE done == Attempted(t, ending, known, use)
           rec == [done EXCEPT !.state = IF t \in Fixers THEN "proving" ELSE "ended",
                               !.reason = ReasonOf(t, done),
                               !.failure = "none", !.rejected = FALSE]
<1>1. /\ t \in Staged /\ task[t].state = "running"
      /\ task' = [task EXCEPT ![t] = rec]
      /\ spend' = Recorded(t, done)
      /\ slots' = SlotsAfter(t)
      /\ stage' = stage
  BY DEF Finish, In
<1>2. /\ done \in TaskRecord /\ done.attempts = task[t].attempts + 1
      /\ done.silent <= done.attempts /\ done.used <= done.attempts * MaxUse
  BY <1>1, AttemptSound DEF PlanInv
<1>3. ReasonOf(t, done) \in Reasons
  BY DEF ReasonOf, FailureReason, Reasons
<1> HIDE DEF done
<1>4. /\ rec \in TaskRecord /\ rec.state = IF t \in Fixers THEN "proving" ELSE "ended"
      /\ rec.attempts = done.attempts /\ rec.silent = done.silent /\ rec.used = done.used
  BY <1>2, <1>3 DEF TaskRecord
<1> HIDE DEF rec
<1>5. Sound(rec) /\ rec \in SoundTasks
  BY <1>2, <1>4 DEF Sound, SoundTasks
<1>6. task' \in [Tasks -> SoundTasks] /\ task'[t] = rec /\ \A u \in Tasks \ {t} : task'[u] = task[u]
  BY <1>1, <1>5 DEF PlanInv, SoundPlan
<1>7. task[t].attempts \in Nat /\ done.attempts \in Nat /\ done.silent \in Nat /\ done.used \in Nat
  BY <1>2 DEF PlanInv, SoundPlan, SoundTasks, TaskRecord
<1>8. /\ spend' \in [tokens : Nat, accounted : Nat, unaccounted : Nat]
      /\ spend'.tokens = spend.tokens + rec.used
  BY <1>1, <1>2, <1>4, <1>7 DEF Recorded, PlanInv, SoundPlan
<1>9. t \in Running /\ t \in Holding
  BY <1>1 DEF Running, Holding
<1>10. StageInv'
  BY <1>1, <1>4, <1>6, SessionAssumption DEF PlanInv, StageInv, Staged, Tasks
<1>11. PlanInv'
  <2>1. CASE t \in Fixers
    <3>1. Holding' = Holding /\ slots' = slots
      BY <1>1, <1>4, <1>6, <1>9, <2>1 DEF Holding, SlotsAfter
    <3> QED
      BY <1>1, <1>6, <1>8, <1>10, <3>1 DEF PlanInv, SoundPlan, SlotsInv
  <2>2. CASE t \notin Fixers
    <3>1. Holding' = Holding \ {t} /\ slots' = slots + 1
      BY <1>1, <1>4, <1>6, <2>2 DEF Holding, SlotsAfter
    <3> QED
      BY <1>1, <1>6, <1>8, <1>9, <1>10, <3>1, FreedPlan
  <2> QED
    BY <2>1, <2>2
<1>12. rec.used \in 0..Most
  BY <1>5, UsedFits
<1>13. rec.attempts > 0 /\ rec.attempts = task[t].attempts + 1
  BY <1>2, <1>4, <1>7
<1>14. /\ task'[t].state \in {"proving", "ended"} /\ task'[t].attempts > 0
       /\ task'[t].attempts = task[t].attempts + 1
       /\ task'[t].used \in 0..Most
       /\ spend'.tokens = spend.tokens + task'[t].used
  BY <1>4, <1>6, <1>8, <1>12, <1>13
<1> QED
  BY <1>1, <1>6, <1>9, <1>11, <1>14

LEMMA ProvedPlan ==
  ASSUME PlanInv, NEW t \in Tasks, Proved(t)
  PROVE  PlanInv' /\ Holding' = Holding \ {t}
<1>1. /\ t \in Staged /\ task[t].state = "proving"
      /\ task' = [task EXCEPT ![t].state = "ended"]
      /\ slots' = slots + 1 /\ UNCHANGED <<stage, spend>>
  BY DEF Proved, In
<1> DEFINE rec == [task[t] EXCEPT !.state = "ended"]
<1>2. Sound(task[t])
  BY DEF PlanInv, SoundPlan, SoundTasks
<1>3. rec \in SoundTasks /\ rec.state = "ended"
  BY <1>2 DEF SoundTasks, Sound, TaskRecord
<1>4. task'[t] = rec
  BY <1>1 DEF PlanInv, SoundPlan
<1>5. task' \in [Tasks -> SoundTasks]
  BY <1>1, <1>3, <1>4 DEF PlanInv, SoundPlan
<1>6. Holding' = Holding \ {t} /\ t \in Holding
  BY <1>1, <1>3, <1>4 DEF Holding, PlanInv, SoundPlan
<1>7. StageInv'
  BY <1>1, <1>3, <1>4, SessionAssumption DEF PlanInv, SoundPlan, StageInv, Staged, Tasks
<1>8. spend' \in [tokens : Nat, accounted : Nat, unaccounted : Nat]
  BY <1>1 DEF PlanInv, SoundPlan
<1> QED
  BY <1>1, <1>5, <1>6, <1>7, <1>8, FreedPlan

LEMMA NextStagePlan ==
  ASSUME PlanInv, NextStage
  PROVE  /\ PlanInv' /\ Holding' = Holding /\ Holding = {}
         /\ \A t \in Staged : task[t].state = "ended"
<1>1. /\ stage # "done" /\ slots' = MaxParallel /\ UNCHANGED <<task, spend>>
      /\ stage' = IF stage = "analysis" THEN "fixing" ELSE "done"
      /\ \A t \in Staged : task[t].state = "ended"
  BY DEF NextStage, In
<1>2. Holding = {} /\ Holding' = {}
  BY <1>1 DEF Holding, PlanInv, SoundPlan, StageInv, Staged, Tasks
<1>3. SlotsInv' /\ slots' \in 0..MaxParallel
  BY <1>1, <1>2, FS_EmptySet, SessionAssumption DEF SlotsInv
<1>4. StageInv'
  BY <1>1 DEF PlanInv, SoundPlan, StageInv, Staged
<1>5. SoundPlan'
  BY <1>1, <1>3 DEF PlanInv, SoundPlan
<1> QED
  BY <1>1, <1>2, <1>3, <1>4, <1>5 DEF PlanInv

LEMMA PlanStep == PlanInv /\ [Next]_vars => PlanInv'
<1> SUFFICES ASSUME PlanInv, [Next]_vars PROVE PlanInv'
  OBVIOUS
<1>1. CASE UNCHANGED vars
  BY <1>1 DEF vars, PlanInv, SoundPlan, StageInv, SlotsInv, Holding
<1> QED
  BY <1>1, StartPlan, RefusePlan, RetryPlan, FinishPlan, ProvedPlan, NextStagePlan DEF Next

(* Every task has a sound record, no slot is given twice or lost, and the  *)
(* ledger counts (Ledger, run_attempts, execute).                          *)
THEOREM SessionsTyped == Spec => []TypeOK
<1>1. Init => PlanInv
  BY PlanInit, PlanIsSound DEF PlanInv
<1>2. PlanInv => TypeOK
  BY PlanIsSound DEF PlanInv
<1> QED
  BY <1>1, <1>2, PlanStep, PTL DEF Spec

-----------------------------------------------------------------------------
(* What the ledger holds, and how far it can go.                           *)

LEMMA UsesFit ==
  ASSUME NEW f \in [Tasks -> SoundTasks], NEW t \in Tasks
  PROVE  f[t].used \in 0..Most /\ f[t].used \in Nat
<1>1. Sound(f[t])
  BY DEF SoundTasks
<1> QED
  BY <1>1, UsedFits DEF Sound, TaskRecord

LEMMA UsedTypes ==
  ASSUME PlanInv
  PROVE  /\ \A t \in Tasks : UsedBy[t] \in 0..Most /\ UsedBy[t] \in Nat
         /\ \A S \in SUBSET Tasks : IsFiniteSet(S)
         /\ \A t \in Waiting : UsedBy[t] = 0 /\ task[t].attempts = 0
         /\ spend.tokens \in Nat
<1>1. \A t \in Tasks : task[t] \in SoundTasks
  BY DEF PlanInv, SoundPlan
<1>2. \A t \in Tasks : UsedBy[t] \in 0..Most /\ UsedBy[t] \in Nat
  <2> SUFFICES ASSUME NEW t \in Tasks PROVE task[t].used \in 0..Most /\ task[t].used \in Nat
    BY DEF UsedBy
  <2>1. Sound(task[t])
    BY <1>1 DEF SoundTasks
  <2> QED
    BY <2>1, UsedFits DEF Sound, TaskRecord
<1>3. \A S \in SUBSET Tasks : IsFiniteSet(S)
  BY FS_Subset, SessionAssumption
<1>4. \A t \in Waiting : UsedBy[t] = 0 /\ task[t].attempts = 0
  BY <1>1 DEF Waiting, UsedBy, SoundTasks, Sound, Untouched
<1> QED
  BY <1>2, <1>3, <1>4 DEF PlanInv, SoundPlan

LEMMA TotalTypes ==
  ASSUME PlanInv, NEW S \in SUBSET Tasks
  PROVE  Total(UsedBy, S) \in Nat
<1>1. IsFiniteSet(S) /\ \A t \in S : UsedBy[t] \in Nat
  BY UsedTypes
<1>2. CASE S = {}
  BY <1>2, TotalEmpty
<1>3. CASE S # {}
  BY <1>1, <1>3, TotalTakes
<1> QED
  BY <1>2, <1>3

(* Tasks whose use does not change keep their sum; one that joins them     *)
(* adds its own.                                                           *)
LEMMA TotalKept ==
  ASSUME PlanInv, PlanInv', NEW S \in SUBSET Tasks, \A u \in S : task'[u].used = task[u].used
  PROVE  Total(UsedBy', S) = Total(UsedBy, S)
<1>1. \A u \in S : UsedBy[u] = (UsedBy')[u] /\ UsedBy[u] \in Nat
  BY UsedTypes DEF UsedBy
<1>2. IsFiniteSet(S)
  BY UsedTypes
<1>3. Total(UsedBy, S) = Total(UsedBy', S)
  BY <1>1, <1>2, TotalSame
<1> QED
  BY <1>3

LEMMA TotalJoined ==
  ASSUME PlanInv, PlanInv', NEW S \in SUBSET Tasks, NEW t \in Tasks \ S,
         \A u \in S : task'[u].used = task[u].used
  PROVE  Total(UsedBy', S \cup {t}) = Total(UsedBy, S) + task'[t].used
<1> DEFINE R == S \cup {t}
<1>1. \A u \in R : (UsedBy')[u] \in Nat
  <2>1. task' \in [Tasks -> SoundTasks]
    BY DEF PlanInv, SoundPlan
  <2> QED
    BY <2>1, UsesFit DEF UsedBy
<1>2. IsFiniteSet(R) /\ t \in R /\ R \ {t} = S
  BY UsedTypes
<1>3. Total(UsedBy', R) = (UsedBy')[t] + Total(UsedBy', R \ {t})
  <2> HIDE DEF R
  <2> QED
    BY <1>1, <1>2, TotalTakes
<1>4. Total(UsedBy', S) = Total(UsedBy, S) /\ Total(UsedBy, S) \in Nat
  BY TotalKept, TotalTypes
<1>5. (UsedBy')[t] = task'[t].used /\ (UsedBy')[t] \in Nat
  BY <1>1 DEF UsedBy
<1> HIDE DEF R
<1>6. Total(UsedBy', R \ {t}) = Total(UsedBy', S)
  BY <1>2
<1>7. Total(UsedBy', R) = (UsedBy')[t] + Total(UsedBy, S)
  BY <1>3, <1>4, <1>6
<1>8. Total(UsedBy', R) = Total(UsedBy, S) + task'[t].used
  BY <1>4, <1>5, <1>7
<1> QED
  BY <1>8 DEF R

LEMMA LedgerStep == PlanInv /\ PlanInv' /\ LedgerInv /\ [Next]_vars => LedgerInv'
<1> SUFFICES ASSUME PlanInv, PlanInv', LedgerInv, [Next]_vars
             PROVE  spend'.tokens = Total(UsedBy', Done')
  BY DEF LedgerInv
<1>0. Done \in SUBSET Tasks /\ task \in [Tasks -> SoundTasks]
  BY DEF Done, PlanInv, SoundPlan
<1>1. CASE Done' = Done /\ (\A u \in Done : task'[u].used = task[u].used) /\ spend' = spend
  BY <1>0, <1>1, TotalKept DEF LedgerInv
<1>2. ASSUME NEW t \in Tasks \ Done, Done' = Done \cup {t},
             \A u \in Done : task'[u].used = task[u].used,
             spend'.tokens = spend.tokens + task'[t].used
      PROVE  spend'.tokens = Total(UsedBy', Done')
  BY <1>0, <1>2, TotalJoined DEF LedgerInv
<1>3. ASSUME NEW t \in Tasks, Start(t) PROVE spend'.tokens = Total(UsedBy', Done')
  <2>1. Done' = Done /\ (\A u \in Done : task'[u].used = task[u].used) /\ spend' = spend
    BY <1>0, <1>3 DEF Start, GetsSlot, In, Done
  <2> QED
    BY <1>1, <2>1
<1>4. ASSUME NEW t \in Tasks, Refuse(t) PROVE spend'.tokens = Total(UsedBy', Done')
  <2>1. t \in Waiting /\ t \notin Done /\ task[t] \in SoundTasks
    BY <1>0, <1>4 DEF Refuse, GetsSlot, In, Waiting, Done
  <2>2. /\ Done' = Done \cup {t} /\ spend' = spend /\ task'[t].used = task[t].used
        /\ \A u \in Done : task'[u].used = task[u].used
    BY <1>0, <1>4, <2>1 DEF Refuse, NotAfforded, Done, SoundTasks, TaskRecord
  <2>3. task'[t].used = 0 /\ spend.tokens \in Nat
    BY <2>1, <2>2, UsedTypes DEF UsedBy
  <2>4. spend'.tokens = spend.tokens + task'[t].used
    BY <2>2, <2>3
  <2> QED
    BY <1>2, <2>1, <2>2, <2>4
<1>5. ASSUME NEW t \in Tasks, NEW ending \in Endings, NEW known \in Says, NEW use \in 0..MaxUse,
             Retry(t, ending, known, use)
      PROVE  spend'.tokens = Total(UsedBy', Done')
  <2>1. task[t].state = "running" /\ task[t] \in SoundTasks
    BY <1>0, <1>5 DEF Retry, In
  <2>2. Attempted(t, ending, known, use).state = "running"
    BY <2>1 DEF Attempted, SoundTasks, TaskRecord
  <2>3. Done' = Done /\ (\A u \in Done : task'[u] = task[u]) /\ spend' = spend
    <3> DEFINE rec == Attempted(t, ending, known, use)
    <3>1. task' = [task EXCEPT ![t] = rec] /\ spend' = spend
      BY <1>5 DEF Retry
    <3> HIDE DEF rec
    <3> QED
      BY <1>0, <2>1, <2>2, <3>1 DEF Done, rec
  <2> QED
    BY <1>1, <2>3
<1>6. ASSUME NEW t \in Tasks, NEW ending \in Endings, NEW known \in Says, NEW use \in 0..MaxUse,
             Finish(t, ending, known, use)
      PROVE  spend'.tokens = Total(UsedBy', Done')
  <2>1. /\ t \in Running /\ task'[t].state \in {"proving", "ended"}
        /\ \A u \in Tasks \ {t} : task'[u] = task[u]
        /\ spend'.tokens = spend.tokens + task'[t].used
    BY <1>6, FinishPlan
  <2>2. t \notin Done /\ Done' = Done \cup {t} /\ \A u \in Done : task'[u] = task[u]
    BY <2>1 DEF Running, Done
  <2> QED
    BY <1>2, <2>1, <2>2
<1>7. ASSUME NEW t \in Tasks, Proved(t) PROVE spend'.tokens = Total(UsedBy', Done')
  <2>1. Done' = Done /\ (\A u \in Done : task'[u].used = task[u].used) /\ spend' = spend
    BY <1>0, <1>7 DEF Proved, In, Done, SoundTasks, TaskRecord
  <2> QED
    BY <1>1, <2>1
<1>8. CASE NextStage \/ UNCHANGED vars
  <2>1. task' = task /\ spend' = spend
    BY <1>8 DEF NextStage, vars
  <2>2. Done' = Done
    BY <2>1 DEF Done
  <2> QED
    BY <1>1, <2>1, <2>2
<1> QED
  BY <1>3, <1>4, <1>5, <1>6, <1>7, <1>8 DEF Next

(* At most as many sessions run after a step as there are slots.           *)
LEMMA RunnersFit ==
  ASSUME PlanInv'
  PROVE  Cardinality(Running') \in Nat /\ Cardinality(Running') <= MaxParallel
<1>1. IsFiniteSet(Tasks) /\ MaxParallel \in Nat
  BY SessionAssumption
<1>2. Holding' \in SUBSET Tasks /\ Running' \in SUBSET Holding'
  BY DEF Holding, Running
<1>3. IsFiniteSet(Holding') /\ IsFiniteSet(Running') /\ Cardinality(Running') <= Cardinality(Holding')
  BY <1>1, <1>2, FS_Subset
<1>4. Cardinality(Holding') \in Nat /\ Cardinality(Running') \in Nat
  BY <1>3, FS_CardinalityType
<1> QED
  BY <1>1, <1>3, <1>4 DEF PlanInv, SlotsInv, SoundPlan

(* Slots bound what is still to be recorded.                               *)
LEMMA BudgetStep == PlanInv /\ PlanInv' /\ BudgetInv /\ [Next]_vars => BudgetInv'
<1> SUFFICES ASSUME PlanInv, PlanInv', BudgetInv, [Next]_vars PROVE BudgetInv'
  OBVIOUS
<1>0. /\ task \in [Tasks -> SoundTasks] /\ spend.tokens \in Nat /\ spend'.tokens \in Nat
      /\ Tokens \in Nat /\ Reserve \in Nat /\ MaxParallel \in Nat
  BY UsedTypes, SessionAssumption DEF PlanInv, SoundPlan
<1>1. /\ IsFiniteSet(Running) /\ Cardinality(Running) \in Nat
      /\ Cardinality(Running') \in Nat /\ Cardinality(Running') <= MaxParallel
      /\ Most \in Nat /\ MaxParallel * Most \in Nat
      /\ Cardinality(Running) * Most \in Nat
      /\ Cardinality(Running') * Most \in Nat
      /\ Cardinality(Running') * Most <= MaxParallel * Most
  <2>1. Cardinality(Running') \in Nat /\ Cardinality(Running') <= MaxParallel
    BY RunnersFit
  <2> QED
    BY <1>0, <2>1, HoldersFinite, MostType, Products
<1>2. CASE stage' = stage /\ spend' = spend /\ Running' = Running
  BY <1>2 DEF BudgetInv, StageCeiling
<1>3. ASSUME NEW t \in Tasks, Start(t) PROVE BudgetInv'
  <2>1. /\ spend' = spend /\ stage' = stage /\ spend.tokens < Ceiling(t) /\ t \in Staged
    BY <1>3 DEF Start, MayStart, GetsSlot, In
  <2>2. Ceiling(t) = StageCeiling /\ StageCeiling' = StageCeiling /\ StageCeiling \in Int
    BY <1>0, <2>1, SessionAssumption DEF Ceiling, StageCeiling, Staged
  <2>3. spend'.tokens < StageCeiling'
    BY <2>1, <2>2
  <2> QED
    BY <1>0, <1>1, <2>2, <2>3 DEF BudgetInv
<1>4. ASSUME NEW t \in Tasks, Refuse(t) PROVE BudgetInv'
  <2>1. Running' = Running /\ stage' = stage /\ spend' = spend
    BY <1>0, <1>4 DEF Refuse, NotAfforded, GetsSlot, In, Running, SoundTasks, TaskRecord
  <2> QED
    BY <1>2, <2>1
<1>5. ASSUME NEW t \in Tasks, NEW ending \in Endings, NEW known \in Says, NEW use \in 0..MaxUse,
             Retry(t, ending, known, use)
      PROVE  BudgetInv'
  <2>1. task[t].state = "running" /\ task[t] \in SoundTasks
    BY <1>0, <1>5 DEF Retry, In
  <2>2. Attempted(t, ending, known, use).state = "running"
    BY <2>1 DEF Attempted, SoundTasks, TaskRecord
  <2>3. Running' = Running /\ stage' = stage /\ spend' = spend
    <3> DEFINE rec == Attempted(t, ending, known, use)
    <3>1. task' = [task EXCEPT ![t] = rec] /\ spend' = spend /\ stage' = stage
      BY <1>5 DEF Retry
    <3> HIDE DEF rec
    <3> QED
      BY <1>0, <2>1, <2>2, <3>1 DEF Running, rec
  <2> QED
    BY <1>2, <2>3
<1>6. ASSUME NEW t \in Tasks, NEW ending \in Endings, NEW known \in Says, NEW use \in 0..MaxUse,
             Finish(t, ending, known, use)
      PROVE  BudgetInv'
  <2>1. /\ t \in Running /\ task'[t].state \in {"proving", "ended"} /\ stage' = stage
        /\ \A u \in Tasks \ {t} : task'[u] = task[u]
        /\ spend'.tokens = spend.tokens + task'[t].used /\ task'[t].used \in 0..Most
    BY <1>6, FinishPlan
  <2>2. Running' = Running \ {t}
    BY <2>1 DEF Running
  <2>3. Cardinality(Running) = Cardinality(Running') + 1
    <3>1. Cardinality(Running \ {t}) = Cardinality(Running) - 1
      BY <1>1, <2>1, FS_RemoveElement
    <3> QED
      BY <1>1, <2>2, <3>1
  <2>4. Cardinality(Running) * Most = Cardinality(Running') * Most + Most
    BY <1>1, <2>3, Products
  <2>5. StageCeiling' = StageCeiling /\ StageCeiling \in Int
    BY <1>0, <2>1 DEF StageCeiling
  <2> QED
    BY <1>0, <1>1, <2>1, <2>4, <2>5 DEF BudgetInv
<1>7. ASSUME NEW t \in Tasks, Proved(t) PROVE BudgetInv'
  <2>1. Running' = Running /\ stage' = stage /\ spend' = spend
    BY <1>0, <1>7 DEF Proved, In, Running, SoundTasks, TaskRecord
  <2> QED
    BY <1>2, <2>1
<1>8. ASSUME NextStage PROVE BudgetInv'
  <2>1. Running' = Running /\ spend' = spend /\ stage' # "analysis"
    BY <1>8 DEF NextStage, Running
  <2>2. StageCeiling <= Tokens /\ StageCeiling' = Tokens /\ StageCeiling \in Int
    BY <1>0, <2>1 DEF StageCeiling
  <2> QED
    BY <1>0, <1>1, <2>1, <2>2 DEF BudgetInv
<1>9. CASE UNCHANGED vars
  BY <1>2, <1>9 DEF vars, Running
<1> QED
  BY <1>3, <1>4, <1>5, <1>6, <1>7, <1>8, <1>9 DEF Next

(* What a step does to the tasks it is not about: one that ended stays as  *)
(* it is, and no attempt is taken back.                                    *)
LEMMA TaskStep ==
  ASSUME PlanInv, PlanInv', [Next]_vars, NEW u \in Tasks
  PROVE  /\ task'[u].attempts >= task[u].attempts
         /\ task'[u] # task[u] => u \in Staged /\ task[u].state # "ended"
         /\ \/ task'[u].state = task[u].state
            \/ Start(u) /\ task'[u].state = "running"
            \/ Refuse(u)
            \/ task'[u].state \in {"proving", "ended"} /\ task'[u].attempts > 0 /\ task[u].state = "running"
            \/ Proved(u) /\ task'[u].attempts = task[u].attempts
<1> DEFINE Result == /\ task'[u].attempts >= task[u].attempts
                     /\ task'[u] # task[u] => u \in Staged /\ task[u].state # "ended"
                     /\ \/ task'[u].state = task[u].state
                        \/ Start(u) /\ task'[u].state = "running"
                        \/ Refuse(u)
                        \/ task'[u].state \in {"proving", "ended"} /\ task'[u].attempts > 0 /\ task[u].state = "running"
                        \/ Proved(u) /\ task'[u].attempts = task[u].attempts
<1>0. task \in [Tasks -> SoundTasks] /\ task[u] \in TaskRecord /\ task[u].attempts \in Nat
  BY DEF PlanInv, SoundPlan, SoundTasks, TaskRecord
<1>1. CASE task'[u] = task[u]
  BY <1>0, <1>1
<1>2. ASSUME NEW t \in Tasks, Start(t) PROVE Result
  <2>1. t = u \/ task'[u] = task[u]
    BY <1>0, <1>2 DEF Start
  <2>2. CASE t = u
    BY <1>0, <1>2, <2>2 DEF Start, GetsSlot, In, TaskRecord
  <2> QED
    BY <1>1, <2>1, <2>2
<1>3. ASSUME NEW t \in Tasks, Refuse(t) PROVE Result
  <2>1. t = u \/ task'[u] = task[u]
    BY <1>0, <1>3 DEF Refuse, NotAfforded
  <2>2. CASE t = u
    BY <1>0, <1>3, <2>2 DEF Refuse, NotAfforded, GetsSlot, In, TaskRecord
  <2> QED
    BY <1>1, <2>1, <2>2
<1>4. ASSUME NEW t \in Tasks, NEW ending \in Endings, NEW known \in Says, NEW use \in 0..MaxUse,
             Retry(t, ending, known, use)
      PROVE  Result
  <2>1. t = u \/ task'[u] = task[u]
    BY <1>0, <1>4 DEF Retry
  <2>2. CASE t = u
    <3> DEFINE rec == Attempted(t, ending, known, use)
    <3>1. task'[u] = rec /\ u \in Staged /\ task[u].state = "running"
      BY <1>0, <1>4, <2>2 DEF Retry, In
    <3>2. rec.attempts = task[u].attempts + 1 /\ rec.state = "running"
      BY <2>2, <3>1, AttemptSound DEF PlanInv
    <3> HIDE DEF rec
    <3> QED
      BY <1>0, <3>1, <3>2
  <2> QED
    BY <1>1, <2>1, <2>2
<1>5. ASSUME NEW t \in Tasks, NEW ending \in Endings, NEW known \in Says, NEW use \in 0..MaxUse,
             Finish(t, ending, known, use)
      PROVE  Result
  <2>1. /\ t \in Running /\ t \in Staged
        /\ task'[t].state \in {"proving", "ended"} /\ task'[t].attempts > 0
        /\ task'[t].attempts = task[t].attempts + 1
        /\ \A v \in Tasks \ {t} : task'[v] = task[v]
    BY <1>5, FinishPlan
  <2>2. CASE t = u
    BY <1>0, <2>1, <2>2 DEF Running
  <2> QED
    BY <1>1, <2>1, <2>2
<1>6. ASSUME NEW t \in Tasks, Proved(t) PROVE Result
  <2>1. t = u \/ task'[u] = task[u]
    BY <1>0, <1>6 DEF Proved
  <2>2. CASE t = u
    BY <1>0, <1>6, <2>2 DEF Proved, In, TaskRecord
  <2> QED
    BY <1>1, <2>1, <2>2
<1>7. CASE NextStage \/ UNCHANGED vars
  BY <1>1, <1>7 DEF NextStage, vars
<1> QED
  BY <1>2, <1>3, <1>4, <1>5, <1>6, <1>7 DEF Next

(* The stages a step can lead to.                                          *)
LEMMA StageStep ==
  ASSUME PlanInv, [Next]_vars
  PROVE  /\ stage = "analysis" /\ stage' # "analysis" =>
              stage' = "fixing" /\ task' = task /\ spend' = spend /\ \A t \in Analysts : task[t].state = "ended"
         /\ stage # "analysis" => stage' # "analysis"
         /\ stage' = "fixing" => stage \in {"analysis", "fixing"}
<1>1. stage \in {"analysis", "fixing", "done"}
  BY DEF PlanInv, SoundPlan
<1>2. CASE NextStage
  BY <1>1, <1>2 DEF NextStage, In, Staged
<1>3. CASE stage' = stage
  BY <1>1, <1>3
<1> QED
  BY <1>2, <1>3 DEF Next, Start, Refuse, Proved, Retry, Finish, vars

LEMMA AnalysedStep ==
  PlanInv /\ PlanInv' /\ LedgerInv /\ BudgetInv /\ AnalysedInv /\ [Next]_vars => AnalysedInv'
<1> SUFFICES ASSUME PlanInv, PlanInv', LedgerInv, BudgetInv, AnalysedInv, [Next]_vars,
                    stage' # "analysis"
             PROVE  Total(UsedBy', Analysts) < Tokens - Reserve + MaxParallel * Most
  BY DEF AnalysedInv
<1>0. Analysts \in SUBSET Tasks /\ task \in [Tasks -> SoundTasks]
  BY DEF Tasks, PlanInv, SoundPlan
<1>1. CASE stage = "analysis"
  <2>1. task' = task /\ \A t \in Analysts : task[t].state = "ended"
    BY <1>1, StageStep
  <2>2. Done = Analysts
    BY <1>1, <2>1 DEF PlanInv, StageInv, Done, Tasks
  <2>3. spend.tokens = Total(UsedBy, Analysts)
    BY <2>2 DEF LedgerInv
  <2>4. Total(UsedBy', Analysts) = Total(UsedBy, Analysts)
    BY <1>0, <2>1, TotalKept
  <2>5. spend.tokens + Cardinality(Running) * Most < Tokens - Reserve + MaxParallel * Most
    BY <1>1 DEF BudgetInv, StageCeiling
  <2>6. Cardinality(Running) * Most \in Nat /\ MaxParallel * Most \in Nat /\ spend.tokens \in Nat
    BY HoldersFinite, MostType, Products, UsedTypes, SessionAssumption
  <2> QED
    BY <2>3, <2>4, <2>5, <2>6, SessionAssumption
<1>2. CASE stage # "analysis"
  <2>1. \A u \in Analysts : task'[u] = task[u]
    BY <1>0, <1>2, TaskStep DEF PlanInv, StageInv
  <2>2. Total(UsedBy', Analysts) = Total(UsedBy, Analysts)
    BY <1>0, <2>1, TotalKept
  <2> QED
    BY <1>2, <2>2 DEF AnalysedInv
<1> QED
  BY <1>1, <1>2

LEMMA OrderStep == PlanInv /\ PlanInv' /\ OrderInv /\ [Next]_vars => OrderInv'
<1> SUFFICES ASSUME PlanInv, PlanInv', OrderInv, [Next]_vars,
                    NEW t \in Fixers, NEW u \in Fixers,
                    task'[t].state = "waiting", task'[u].state # "waiting"
             PROVE  Order[u] < Order[t]
  BY DEF OrderInv
<1>1. t \in Tasks /\ u \in Tasks /\ task[t] \in TaskRecord
  BY DEF Tasks, PlanInv, SoundPlan, SoundTasks
<1>2. task[t].state = "waiting"
  <2>1. ~ Refuse(t) /\ ~ Proved(t)
    BY <1>1 DEF Refuse, NotAfforded, Proved, PlanInv, SoundPlan, SoundTasks, TaskRecord
  <2> QED
    BY <1>1, <2>1, TaskStep
<1>3. CASE task[u].state # "waiting"
  BY <1>2, <1>3 DEF OrderInv
<1>4. CASE task[u].state = "waiting"
  <2>1. Start(u) \/ Refuse(u)
    BY <1>1, <1>4, TaskStep DEF Proved, In
  <2>2. GetsSlot(u)
    BY <2>1 DEF Start, Refuse
  <2>3. u \in Staged /\ Staged = Fixers
    BY <2>2, SessionAssumption DEF GetsSlot, In, Staged
  <2>4. t \in In("waiting")
    BY <1>2, <2>3 DEF In
  <2>5. Order[u] <= Order[t] /\ Order[u] # Order[t] /\ Order[u] \in Nat /\ Order[t] \in Nat
    BY <1>1, <1>4, <2>2, <2>4, SessionAssumption DEF GetsSlot
  <2> QED
    BY <2>5
<1> QED
  BY <1>3, <1>4

-----------------------------------------------------------------------------
(* The promises about the budget.                                          *)

LEMMA UsedIsTotal == \A S : Used(S) = Total(UsedBy, S)
BY DEF Used, Sum, Total, UsedBy

(* What all tasks have used, recorded or not.                              *)
LEMMA AllUsed ==
  ASSUME PlanInv, LedgerInv, BudgetInv
  PROVE  /\ Total(UsedBy, Tasks) < StageCeiling + MaxParallel * Most
         /\ Total(UsedBy, Tasks) = Total(UsedBy, Analysts) + Total(UsedBy, Fixers)
         /\ \A S \in SUBSET Tasks : Total(UsedBy, S) \in Nat
<1>1. /\ Done \in SUBSET Tasks /\ Running \in SUBSET Tasks /\ Waiting \in SUBSET Tasks
      /\ Analysts \in SUBSET Tasks /\ Fixers \in SUBSET Tasks
      /\ Tasks = Analysts \cup Fixers /\ Analysts \cap Fixers = {}
  BY SessionAssumption DEF Done, Running, Waiting, Tasks
<1>2. \A S \in SUBSET Tasks :
        /\ IsFiniteSet(S) /\ Total(UsedBy, S) \in Nat
        /\ \A t \in S : UsedBy[t] \in Nat /\ UsedBy[t] \in 0..Most
  BY UsedTypes, TotalTypes
<1>3. Tasks = (Done \cup Running) \cup Waiting
  BY DEF Done, Running, Waiting, PlanInv, SoundPlan, SoundTasks, TaskRecord
<1>4. Total(UsedBy, Tasks) = Total(UsedBy, Done \cup Running) + Total(UsedBy, Waiting)
  <2>1. (Done \cup Running) \cap Waiting = {} /\ Done \cup Running \in SUBSET Tasks
    BY <1>1 DEF Done, Running, Waiting
  <2> QED
    BY <1>1, <1>2, <1>3, <2>1, TotalUnion
<1>5. Total(UsedBy, Done \cup Running) = Total(UsedBy, Done) + Total(UsedBy, Running)
  <2>1. Done \cap Running = {} /\ Done \cup Running \in SUBSET Tasks
    BY <1>1 DEF Done, Running
  <2> QED
    BY <1>1, <1>2, <2>1, TotalUnion
<1>6. Total(UsedBy, Analysts \cup Fixers) = Total(UsedBy, Analysts) + Total(UsedBy, Fixers)
  <2>1. \A t \in Analysts \cup Fixers : UsedBy[t] \in Nat
    BY <1>1, <1>2
  <2> QED
    BY <1>1, <1>2, <2>1, TotalUnion
<1>7. Total(UsedBy, Waiting) = 0
  <2>1. \A t \in Waiting : UsedBy[t] \in 0..0
    BY UsedTypes
  <2>2. Total(UsedBy, Waiting) <= Cardinality(Waiting) * 0
    BY <1>1, <1>2, <2>1, TotalBounded
  <2>3. Cardinality(Waiting) \in Nat /\ Total(UsedBy, Waiting) \in Nat
    BY <1>1, <1>2, FS_CardinalityType
  <2> QED
    BY <2>2, <2>3
<1>8. Total(UsedBy, Running) <= Cardinality(Running) * Most
  BY <1>1, <1>2, MostType, TotalBounded
<1>9. /\ Cardinality(Running) * Most \in Nat /\ MaxParallel * Most \in Nat
      /\ StageCeiling \in Int /\ spend.tokens \in Nat
  BY HoldersFinite, MostType, Products, UsedTypes, SessionAssumption DEF StageCeiling
<1>10. Total(UsedBy, Tasks) <= spend.tokens + Cardinality(Running) * Most
  <2>1. /\ Total(UsedBy, Done) \in Nat /\ Total(UsedBy, Running) \in Nat
        /\ spend.tokens = Total(UsedBy, Done)
    BY <1>1, <1>2 DEF LedgerInv
  <2> QED
    BY <1>4, <1>5, <1>7, <1>8, <1>9, <2>1
<1>11. Total(UsedBy, Tasks) < StageCeiling + MaxParallel * Most
  <2>1. Total(UsedBy, Tasks) \in Nat
    BY <1>2
  <2> QED
    BY <1>9, <1>10, <2>1 DEF BudgetInv
<1> QED
  BY <1>1, <1>2, <1>6, <1>11

BudgetPlan == PlanInv /\ LedgerInv /\ BudgetInv /\ AnalysedInv

LEMMA BudgetPlanInit == Init => BudgetPlan
<1> SUFFICES ASSUME Init PROVE LedgerInv /\ BudgetInv /\ AnalysedInv
  BY PlanInit, PlanIsSound DEF BudgetPlan, PlanInv
<1>1. Done = {} /\ Running = {} /\ stage = "analysis" /\ spend.tokens = 0
  BY DEF Init, Untouched, Done, Running
<1>2. 0 * Most = 0 /\ MaxParallel * Most \in Nat
  BY MostType, Products, SessionAssumption
<1> QED
  BY <1>1, <1>2, TotalEmpty, FS_EmptySet, SessionAssumption
  DEF LedgerInv, BudgetInv, AnalysedInv, StageCeiling

LEMMA BudgetPlanStep == BudgetPlan /\ [Next]_vars => BudgetPlan'
BY PlanStep, LedgerStep, BudgetStep, AnalysedStep DEF BudgetPlan

(* What a run uses stays within its ceiling and one round of the sessions  *)
(* that overlap, in the analysis and in the whole: the ledger is asked with *)
(* the slot held and told before the slot is given back (Ledger, execute,  *)
(* apply).                                                                 *)
THEOREM SpendIsBounded == Spec => []SpendBounded
<1>1. ASSUME BudgetPlan PROVE SpendBounded
  <2>1. /\ Total(UsedBy, Tasks) < StageCeiling + MaxParallel * Most
        /\ Total(UsedBy, Tasks) = Total(UsedBy, Analysts) + Total(UsedBy, Fixers)
        /\ Total(UsedBy, Analysts) \in Nat /\ Total(UsedBy, Fixers) \in Nat
    BY <1>1, AllUsed DEF BudgetPlan, Tasks
  <2>2. /\ Overshoot = MaxParallel * Most /\ MaxParallel * Most \in Nat
        /\ Tokens \in Nat /\ Reserve \in Nat
    BY MostType, Products, SessionAssumption
  <2>3. stage # "analysis" => Total(UsedBy, Analysts) < Tokens - Reserve + MaxParallel * Most
    BY <1>1 DEF BudgetPlan, AnalysedInv
  <2>4. /\ Total(UsedBy, Analysts) < Tokens - Reserve + Overshoot
        /\ Total(UsedBy, Analysts) + Total(UsedBy, Fixers) < Tokens + Overshoot
    BY <2>1, <2>2, <2>3 DEF StageCeiling
  <2> QED
    BY <2>4, UsedIsTotal DEF SpendBounded
<1> QED
  BY <1>1, BudgetPlanInit, BudgetPlanStep, PTL DEF Spec

(* A task that only has its checks to prove has been attempted.            *)
ProvingInv == \A t \in Tasks : task[t].state = "proving" => task[t].attempts > 0

LEMMA ProvingStep == PlanInv /\ PlanInv' /\ ProvingInv /\ [Next]_vars => ProvingInv'
<1> SUFFICES ASSUME PlanInv, PlanInv', ProvingInv, [Next]_vars,
                    NEW t \in Tasks, task'[t].state = "proving"
             PROVE  task'[t].attempts > 0
  BY DEF ProvingInv
<1>1. task[t] \in TaskRecord /\ task'[t] \in TaskRecord
  BY DEF PlanInv, SoundPlan, SoundTasks
<1>2. ~ Refuse(t) /\ ~ Proved(t)
  BY <1>1 DEF Refuse, NotAfforded, Proved, PlanInv, SoundPlan, SoundTasks, TaskRecord
<1> QED
  BY <1>1, <1>2, TaskStep DEF ProvingInv, TaskRecord

(* The first fixer that is refused follows one that was tried.             *)
LEMMA RefusedFollows ==
  ASSUME BudgetPlan, OrderInv, stage = "fixing", Reserve >= Overshoot,
         NEW t \in Fixers, GetsSlot(t), ~ MayStart(t)
  PROVE  \E u \in Fixers : Order[u] < Order[t] /\ task[u].attempts > 0
<1> SUFFICES ASSUME \A u \in Fixers : Order[u] < Order[t] => ~ task[u].attempts > 0
             PROVE  FALSE
  OBVIOUS
<1>0. Fixers \in SUBSET Tasks /\ Analysts \in SUBSET Tasks /\ Done \in SUBSET Tasks
  BY DEF Tasks, Done
<1>1. \A u \in Fixers : UsedBy[u] \in 0..0
  <2> SUFFICES ASSUME NEW u \in Fixers PROVE task[u].used = 0
    BY <1>0 DEF UsedBy
  <2>1. Sound(task[u]) /\ task[u] \in TaskRecord
    BY <1>0 DEF BudgetPlan, PlanInv, SoundPlan, SoundTasks, Sound
  <2>2. CASE task[u].state = "waiting"
    BY <2>1, <2>2 DEF Sound, Untouched
  <2>3. CASE task[u].state # "waiting"
    <3>1. task[u].attempts = 0
      BY <2>1, <2>3 DEF OrderInv, GetsSlot, In, TaskRecord
    <3>2. 0 * MaxUse = 0 /\ task[u].used \in Nat
      BY <2>1, SessionAssumption DEF TaskRecord
    <3> QED
      BY <2>1, <3>1, <3>2 DEF Sound
  <2> QED
    BY <2>2, <2>3
<1>2. Total(UsedBy, Fixers) = 0
  <2>1. IsFiniteSet(Fixers) /\ Total(UsedBy, Fixers) \in Nat /\ Cardinality(Fixers) \in Nat
    BY <1>0, UsedTypes, TotalTypes, FS_CardinalityType DEF BudgetPlan
  <2>2. Total(UsedBy, Fixers) <= Cardinality(Fixers) * 0
    BY <1>1, <2>1, TotalBounded
  <2> QED
    BY <2>1, <2>2
<1>3. Total(UsedBy, Tasks) = Total(UsedBy, Analysts) /\ Total(UsedBy, Analysts) \in Nat
  BY <1>0, <1>2, AllUsed DEF BudgetPlan
<1>4. Total(UsedBy, Analysts) < Tokens - Reserve + MaxParallel * Most
  BY DEF BudgetPlan, AnalysedInv
<1>5. spend.tokens <= Total(UsedBy, Tasks) /\ spend.tokens \in Nat
  <2>1. Tasks = Done \cup (Tasks \ Done) /\ Done \cap (Tasks \ Done) = {} /\ Tasks \ Done \in SUBSET Tasks
    BY <1>0
  <2>2. \A u \in Done \cup (Tasks \ Done) : UsedBy[u] \in Nat
    BY <1>0, UsedTypes DEF BudgetPlan
  <2>3. IsFiniteSet(Done) /\ IsFiniteSet(Tasks \ Done)
    BY <1>0, <2>1, UsedTypes DEF BudgetPlan
  <2>4. Total(UsedBy, Done \cup (Tasks \ Done)) = Total(UsedBy, Done) + Total(UsedBy, Tasks \ Done)
    BY <2>1, <2>2, <2>3, TotalUnion
  <2>5. Total(UsedBy, Done) \in Nat /\ Total(UsedBy, Tasks \ Done) \in Nat
    BY <1>0, <2>1, TotalTypes DEF BudgetPlan
  <2>6. spend.tokens = Total(UsedBy, Done)
    BY DEF BudgetPlan, LedgerInv
  <2>7. Total(UsedBy, Tasks) = Total(UsedBy, Done \cup (Tasks \ Done))
    BY <2>1
  <2> QED
    BY <2>4, <2>5, <2>6, <2>7
<1>6. Overshoot = MaxParallel * Most /\ MaxParallel * Most \in Nat /\ Tokens \in Nat /\ Reserve \in Nat
  BY MostType, Products, SessionAssumption
<1>7. ~ (spend.tokens < Tokens)
  BY DEF MayStart, Ceiling
<1> QED
  BY <1>3, <1>4, <1>5, <1>6, <1>7

AffordedPlan == BudgetPlan /\ OrderInv /\ ProvingInv /\ FixersAfforded

LEMMA AffordedStep == AffordedPlan /\ [Next]_vars => FixersAfforded'
<1> SUFFICES ASSUME AffordedPlan, [Next]_vars, stage' = "fixing", Reserve >= Overshoot,
                    NEW t \in Fixers, task'[t].state = "ended", task'[t].attempts = 0
             PROVE  \E u \in Fixers : Order[u] < Order[t] /\ task'[u].attempts > 0
  BY DEF FixersAfforded, Overshoot
<1>1. PlanInv /\ PlanInv'
  BY PlanStep DEF AffordedPlan, BudgetPlan
<1>2. \A u \in Tasks : /\ task[u] \in TaskRecord /\ task'[u] \in TaskRecord
                       /\ task'[u].attempts >= task[u].attempts
  BY <1>1, TaskStep DEF PlanInv, SoundPlan, SoundTasks
<1>3. Fixers \in SUBSET Tasks
  BY DEF Tasks
<1>4. CASE stage = "analysis"
  <2>1. task'[t].state = "waiting"
    BY <1>1, <1>4, StageStep DEF PlanInv, StageInv
  <2> QED
    BY <2>1
<1>5. CASE stage = "fixing"
  <2>1. \E u \in Fixers : Order[u] < Order[t] /\ task[u].attempts > 0
    <3>1. CASE task[t].state = "ended"
      <4>1. task[t].attempts = 0
        BY <1>2, <1>3 DEF TaskRecord
      <4> QED
        BY <1>5, <3>1, <4>1 DEF AffordedPlan, FixersAfforded
    <3>2. CASE task[t].state # "ended"
      <4>1. ~ (Proved(t) /\ task'[t].attempts = task[t].attempts)
        BY <1>2, <1>3, <3>2 DEF Proved, In, AffordedPlan, ProvingInv, TaskRecord
      <4>2. Refuse(t)
        BY <1>1, <1>2, <1>3, <3>2, <4>1, TaskStep DEF TaskRecord
      <4> QED
        BY <1>5, <4>2, RefusedFollows DEF Refuse, AffordedPlan
    <3> QED
      BY <3>1, <3>2
  <2>2. PICK u \in Fixers : Order[u] < Order[t] /\ task[u].attempts > 0
    BY <2>1
  <2>3. task'[u].attempts > 0
    BY <1>2, <1>3, <2>2 DEF TaskRecord
  <2> QED
    BY <2>2, <2>3
<1> QED
  BY <1>1, <1>4, <1>5, StageStep

(* With a reserve that covers what analyses that overlap can overspend, no *)
(* run refuses a fix before it has tried one (RunBudget.fixer_reserve).    *)
THEOREM FixersAreAfforded == Spec => []FixersAfforded
<1>1. Init => AffordedPlan
  <2>1. Init => OrderInv /\ ProvingInv /\ FixersAfforded
    BY DEF Init, Untouched, OrderInv, ProvingInv, FixersAfforded, Tasks
  <2> QED
    BY <2>1, BudgetPlanInit DEF AffordedPlan
<1>2. AffordedPlan /\ [Next]_vars => AffordedPlan'
  <2> SUFFICES ASSUME AffordedPlan, [Next]_vars PROVE AffordedPlan'
    OBVIOUS
  <2>1. BudgetPlan' /\ PlanInv /\ PlanInv'
    BY BudgetPlanStep DEF AffordedPlan, BudgetPlan
  <2> QED
    BY <2>1, OrderStep, ProvingStep, AffordedStep DEF AffordedPlan
<1>3. AffordedPlan => FixersAfforded
  BY DEF AffordedPlan
<1> QED
  BY <1>1, <1>2, <1>3, PTL DEF Spec
=============================================================================
