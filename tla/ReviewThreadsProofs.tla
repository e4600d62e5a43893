------------------------ MODULE ReviewThreadsProofs -------------------------
(***************************************************************************)
(* What holds of a change's threads for any findings, checks, people and   *)
(* any number of pushes.                                                   *)
(***************************************************************************)
EXTENDS ReviewThreads, FiniteSetTheorems, TLAPS

(* Runs do not overlap.                                                    *)
Alone == \A r, s \in Runs : r = s

(* Until a run writes its review there is no thread for the findings it    *)
(* means to start one for.                                                 *)
FreshIsNew ==
  \A r \in Runs, n \in DOMAIN threads : threads[n].key \notin run[r].fresh

ThreadInv == TypeOK /\ FreshIsNew /\ OneThreadPerFinding

(* With one thread per finding the listing is that thread.                 *)
LEMMA ListingIsIt ==
  ASSUME threads \in Seq([key : Keys, resolved : BOOLEAN]), OneThreadPerFinding,
         NEW k \in Keys
  PROVE  \/ ThreadsOf(k) = {} /\ Listing[k] = 0
         \/ Listing[k] \in ThreadsOf(k)
<1>1. CASE ThreadsOf(k) = {}
  BY <1>1 DEF Listing, LastOf
<1>2. ASSUME NEW n \in ThreadsOf(k) PROVE Listing[k] \in ThreadsOf(k)
  <2>1. \A m \in ThreadsOf(k) : m = n
    BY <1>2 DEF ThreadsOf, OneThreadPerFinding
  <2>2. n \in Nat
    BY <1>2 DEF ThreadsOf
  <2>3. \E m \in ThreadsOf(k) : \A l \in ThreadsOf(k) : l <= m
    BY <1>2, <2>1, <2>2
  <2> QED
    BY <1>2, <2>3 DEF Listing, LastOf
<1> QED
  BY <1>1, <1>2

(* The number of threads a review starts is a number.                      *)
LEMMA OrdersAreSequences ==
  ASSUME NEW keys \in SUBSET Keys, NEW order \in Orders(keys)
  PROVE  /\ order \in Seq(keys)
         /\ \A i, j \in DOMAIN order : order[i] = order[j] => i = j
<1>1. Cardinality(keys) \in Nat
  BY ReviewAssumption, FS_Subset, FS_CardinalityType
<1>2. order \in [1..Cardinality(keys) -> keys]
  BY DEF Orders
<1> QED
  BY <1>1, <1>2 DEF Orders
-----------------------------------------------------------------------------
Thread == [key : Keys, resolved : BOOLEAN]

LEMMA EachIsThread ==
  ASSUME TypeOK, NEW n \in DOMAIN threads
  PROVE  /\ threads \in Seq(Thread) /\ threads[n] \in Thread /\ threads[n].key \in Keys
         /\ threads[n] = [key |-> threads[n].key, resolved |-> threads[n].resolved]
<1>1. threads \in Seq(Thread)
  BY DEF TypeOK, Thread
<1>2. threads[n] \in Thread
  BY <1>1
<1>3. \A t \in Thread : t.key \in Keys
  BY DEF Thread
<1>4. \A t \in Thread : t = [key |-> t.key, resolved |-> t.resolved]
  BY DEF Thread
<1> QED
  BY <1>1, <1>2, <1>3, <1>4

LEMMA IdleIsRun == Idle \in Run
BY ReviewAssumption DEF Idle, Run

(* What the record of one run has to keep for the types to stay.           *)
LEMMA RunTyped ==
  ASSUME TypeOK, NEW r \in Runs, NEW rec \in Run, run' = [run EXCEPT ![r] = rec],
         UNCHANGED <<problems, draft, threads, stance, acts>>,
         \A k \in Keys : /\ k \in rec.todo => rec.listed[k] \in DOMAIN threads
                         /\ k \in rec.fresh => rec.listed[k] = 0
  PROVE  TypeOK'
<1>1. run' \in [Runs -> Run]
  BY DEF TypeOK
<1>2. \A s \in Runs, k \in Keys :
        /\ k \in run'[s].todo => run'[s].listed[k] \in DOMAIN threads
        /\ k \in run'[s].fresh => run'[s].listed[k] = 0
  BY DEF TypeOK
<1> QED
  BY <1>1, <1>2 DEF TypeOK, Tip

LEMMA ThreadInit == Init => ThreadInv
<1> SUFFICES ASSUME Init PROVE ThreadInv
  OBVIOUS
<1>1. run \in [Runs -> Run]
  BY IdleIsRun DEF Init
<1>2. problems \in Seq(SUBSET Keys) /\ Tip \in 1..MaxHeads
  BY ReviewAssumption DEF Init, Tip
<1>3. threads \in Seq(Thread) /\ DOMAIN threads = {}
  BY DEF Init
<1>4. \A r \in Runs : run[r].todo = {} /\ run[r].fresh = {}
  BY DEF Init, Idle
<1>5. draft \in BOOLEAN
  BY Zenon DEF Init
<1>6. stance \in Stances /\ acts \in 0..MaxActs
  BY ReviewAssumption DEF Init, Stances
<1>7. TypeOK
  BY <1>1, <1>2, <1>3, <1>4, <1>5, <1>6 DEF TypeOK, Thread
<1> QED
  BY <1>3, <1>7 DEF ThreadInv, FreshIsNew, OneThreadPerFinding

(* Steps that write no thread leave a run nothing new to start one for.    *)
LEMMA FreshKept ==
  ASSUME ThreadInv, TypeOK', threads' = threads,
         \A r \in Runs : run'[r].fresh \subseteq run[r].fresh
  PROVE  ThreadInv'
BY DEF ThreadInv, FreshIsNew, OneThreadPerFinding

(* A run that only reads, or drops what it had read.                       *)
LEMMA ReadsKeepInv ==
  ASSUME ThreadInv, NEW r \in Runs, Reads(r) \/ GivesUp(r) PROVE ThreadInv'
<1>1. run[r] \in Run
  BY DEF ThreadInv, TypeOK
<1>2. \A k \in Keys : /\ k \in run[r].todo => run[r].listed[k] \in DOMAIN threads
                      /\ k \in run[r].fresh => run[r].listed[k] = 0
  BY DEF ThreadInv, TypeOK
<1>3. UNCHANGED <<problems, draft, threads, stance, acts>>
  BY DEF Reads, Start, Conclude, Withhold, CheckHead, GivesUp
<1>4. PICK rec \in Run :
        /\ run' = [run EXCEPT ![r] = rec]
        /\ \/ rec.fresh = {} /\ rec.todo = {}
           \/ rec.fresh = run[r].fresh /\ rec.todo = run[r].todo /\ rec.listed = run[r].listed
  <2>1. ASSUME NEW ran \in SUBSET Checks, Start(r, ran)
        PROVE  [Idle EXCEPT !.at = "working", !.head = Tip, !.ran = ran] \in Run
    <3>1. Tip \in 0..MaxHeads
      BY DEF ThreadInv, TypeOK
    <3> QED
      BY <3>1, IdleIsRun DEF Run
  <2>2. ASSUME NEW done \in SUBSET Checks, NEW failed \in SUBSET Checks,
               NEW found \in SUBSET Keys, Conclude(r, done, failed, found)
        PROVE  [run[r] EXCEPT !.at = "concluded", !.done = done,
                              !.failed = failed, !.found = found] \in Run
    BY <1>1 DEF Run
  <2>3. [run[r] EXCEPT !.at = "listing"] \in Run
    BY <1>1 DEF Run
  <2>4. ASSUME NEW ran \in SUBSET Checks, Start(r, ran)
        PROVE  \E rec \in Run : run' = [run EXCEPT ![r] = rec] /\ rec.fresh = {} /\ rec.todo = {}
    BY <2>1, <2>4 DEF Start, Idle
  <2>5. ASSUME NEW done \in SUBSET Checks, NEW failed \in SUBSET Checks,
               NEW found \in SUBSET Keys, Conclude(r, done, failed, found)
        PROVE  \E rec \in Run : /\ run' = [run EXCEPT ![r] = rec]
                                /\ rec.fresh = run[r].fresh /\ rec.todo = run[r].todo
                                /\ rec.listed = run[r].listed
    <3> DEFINE rec == [run[r] EXCEPT !.at = "concluded", !.done = done,
                                     !.failed = failed, !.found = found]
    <3>1. rec \in Run /\ run' = [run EXCEPT ![r] = rec]
      BY <2>2, <2>5 DEF Conclude
    <3>2. rec.fresh = run[r].fresh /\ rec.todo = run[r].todo /\ rec.listed = run[r].listed
      BY <1>1 DEF Run
    <3> QED
      BY <3>1, <3>2
  <2>6. ASSUME Withhold(r) \/ GivesUp(r)
        PROVE  run' = [run EXCEPT ![r] = Idle]
    BY <2>6 DEF Withhold, GivesUp
  <2>7. Idle.fresh = {} /\ Idle.todo = {}
    BY DEF Idle
  <2>8. ASSUME CheckHead(r)
        PROVE  \E rec \in Run : /\ run' = [run EXCEPT ![r] = rec]
                                /\ rec.fresh = run[r].fresh /\ rec.todo = run[r].todo
                                /\ rec.listed = run[r].listed
    <3> DEFINE rec == [run[r] EXCEPT !.at = "listing"]
    <3>1. rec.fresh = run[r].fresh /\ rec.todo = run[r].todo /\ rec.listed = run[r].listed
      BY <1>1 DEF Run
    <3>2. run' = [run EXCEPT ![r] = rec]
      BY <2>8 DEF CheckHead
    <3> QED
      BY <2>3, <3>1, <3>2
  <2> QED
    BY <2>4, <2>5, <2>6, <2>7, <2>8, IdleIsRun DEF Reads
<1>5. TypeOK'
  BY <1>2, <1>3, <1>4, RunTyped DEF ThreadInv
<1>6. \A s \in Runs : run'[s].fresh \subseteq run[s].fresh
  BY <1>4 DEF ThreadInv, TypeOK
<1> QED
  BY <1>3, <1>5, <1>6, FreshKept

LEMMA ListKeepsInv ==
  ASSUME ThreadInv, NEW r \in Runs, NEW attachable \in SUBSET Keys, List(r, attachable)
  PROVE  ThreadInv'
<1> DEFINE known == {k \in Keys : Listing[k] # 0}
           shut == {k \in known : threads[Listing[k]].resolved}
           gone == {k \in known \ shut : ProvenGone(r, k)}
           todo == Returned(r, shut) \cup gone
           rec == [run[r] EXCEPT !.at = "writing", !.listed = Listing, !.shut = shut,
                                 !.todo = todo, !.fresh = attachable, !.touched = {}]
<1>1. /\ attachable \subseteq run[r].found \ known
      /\ run' = [run EXCEPT ![r] = rec]
      /\ UNCHANGED <<problems, draft, threads, stance, acts>>
  BY DEF List, Unthreaded
<1>2. \A k \in Keys : \/ ThreadsOf(k) = {} /\ Listing[k] = 0
                      \/ Listing[k] \in ThreadsOf(k)
  BY ListingIsIt DEF ThreadInv, TypeOK
<1>3. \A k \in Keys : Listing[k] \in Nat /\ (k \in known => Listing[k] \in DOMAIN threads)
  BY <1>2 DEF ThreadsOf, ThreadInv, TypeOK
<1>4. Listing \in [Keys -> Nat]
  BY <1>3 DEF Listing
<1>5. todo \subseteq known /\ shut \subseteq Keys
  BY DEF Returned
<1>6. run[r] \in Run
  BY DEF ThreadInv, TypeOK
<1> HIDE DEF known, shut, todo
<1>7. known \subseteq Keys
  BY DEF known
<1>8. rec \in Run
  BY <1>4, <1>5, <1>6, <1>7 DEF Run
<1>9. rec.todo = todo /\ rec.fresh = attachable /\ rec.listed = Listing
  BY <1>6 DEF Run
<1>10. \A k \in Keys : k \notin known => Listing[k] = 0
  BY DEF known
<1> HIDE DEF rec
<1>11. TypeOK'
  BY <1>1, <1>3, <1>5, <1>8, <1>9, <1>10, RunTyped DEF ThreadInv
<1>12. \A n \in DOMAIN threads : threads[n].key \in Keys /\ threads[n].key \notin attachable
  <2> SUFFICES ASSUME NEW n \in DOMAIN threads
               PROVE  threads[n].key \in Keys /\ threads[n].key \notin attachable
    OBVIOUS
  <2>1. threads[n].key \in Keys
    BY EachIsThread DEF ThreadInv
  <2>2. Listing[threads[n].key] \in ThreadsOf(threads[n].key)
    BY <2>1, <1>2 DEF ThreadsOf
  <2>3. Listing[threads[n].key] # 0
    BY <2>2 DEF ThreadsOf, ThreadInv, TypeOK
  <2> QED
    BY <2>1, <2>3, <1>1 DEF known
<1>13. FreshIsNew'
  BY <1>1, <1>9, <1>12 DEF FreshIsNew, ThreadInv, TypeOK
<1> QED
  BY <1>1, <1>11, <1>13 DEF ThreadInv, OneThreadPerFinding

(* A thread whose state changes keeps its key.                             *)
LEMMA KeysKept ==
  ASSUME ThreadInv, TypeOK', DOMAIN threads' = DOMAIN threads,
         \A n \in DOMAIN threads : threads'[n].key = threads[n].key,
         \A r \in Runs : run'[r].fresh = run[r].fresh
  PROVE  ThreadInv'
BY DEF ThreadInv, FreshIsNew, OneThreadPerFinding

(* The threads with one of them resolved or reopened.                      *)
LEMMA ThreadWritten ==
  ASSUME TypeOK, NEW n \in DOMAIN threads, NEW resolved \in BOOLEAN,
         threads' = [threads EXCEPT ![n].resolved = resolved]
  PROVE  /\ threads' \in Seq(Thread) /\ DOMAIN threads' = DOMAIN threads
         /\ \A m \in DOMAIN threads : threads'[m].key = threads[m].key
<1>1. threads \in Seq(Thread) /\ threads[n].key \in Keys
  BY EachIsThread
<1> DEFINE written == [threads[n] EXCEPT !.resolved = resolved]
<1>2. threads[n] = [key |-> threads[n].key, resolved |-> threads[n].resolved]
  BY EachIsThread
<1>3. written = [key |-> threads[n].key, resolved |-> resolved]
  BY <1>2
<1>4. [key |-> threads[n].key, resolved |-> resolved] \in Thread
  BY <1>1, Zenon DEF Thread
<1>5. threads' = [threads EXCEPT ![n] = written]
  OBVIOUS
<1>6. written \in Thread /\ written.key = threads[n].key
  BY <1>3, <1>4
<1> HIDE DEF written
<1> QED
  BY <1>1, <1>5, <1>6

LEMMA SettleKeepsInv ==
  ASSUME ThreadInv, NEW r \in Runs, NEW k \in Keys, Settle(r, k) PROVE ThreadInv'
<1> DEFINE n == run[r].listed[k]
           rec == [run[r] EXCEPT !.todo = @ \ {k}]
<1>1. n \in DOMAIN threads
  BY DEF Settle, ThreadInv, TypeOK
<1>2. threads' = [threads EXCEPT ![n].resolved = k \notin run[r].found]
  BY DEF Settle
<1>3. /\ threads' \in Seq(Thread) /\ DOMAIN threads' = DOMAIN threads
      /\ \A m \in DOMAIN threads : threads'[m].key = threads[m].key
  BY <1>1, <1>2, ThreadWritten DEF ThreadInv
<1>4. rec \in Run /\ rec.fresh = run[r].fresh /\ rec.todo \subseteq run[r].todo
      /\ rec.listed = run[r].listed
  BY DEF ThreadInv, TypeOK, Run
<1>5. run' = [run EXCEPT ![r] = rec]
  BY DEF Settle
<1> HIDE DEF rec
<1>6. /\ run' \in [Runs -> Run]
      /\ \A s \in Runs : /\ run'[s].fresh = run[s].fresh /\ run'[s].todo \subseteq run[s].todo
                         /\ run'[s].listed = run[s].listed
  BY <1>4, <1>5 DEF ThreadInv, TypeOK
<1>7. TypeOK'
  BY <1>3, <1>6 DEF Settle, ThreadInv, TypeOK, Thread, Tip
<1> QED
  BY <1>3, <1>6, <1>7, KeysKept

LEMMA ReviewKeepsInv ==
  ASSUME Alone, ThreadInv, NEW r \in Runs, NEW own \in BOOLEAN, Review(r, own)
  PROVE  ThreadInv'
<1>1. PICK order \in Orders(run[r].fresh) :
        threads' = threads \o [i \in DOMAIN order |-> [key |-> order[i], resolved |-> FALSE]]
  BY DEF Review
<1> DEFINE new == [i \in DOMAIN order |-> [key |-> order[i], resolved |-> FALSE]]
<1>2. run[r].fresh \in SUBSET Keys
  BY DEF ThreadInv, TypeOK, Run
<1>3. order \in Seq(run[r].fresh) /\ \A i, j \in DOMAIN order : order[i] = order[j] => i = j
  BY <1>2, OrdersAreSequences
<1>4. new \in Seq(Thread) /\ Len(new) = Len(order)
  <2>1. order \in [1..Len(order) -> run[r].fresh] /\ Len(order) \in Nat
    BY <1>3
  <2>2. \A i \in 1..Len(order) : order[i] \in Keys
    BY <2>1, <1>2
  <2>3. \A i \in 1..Len(order) : [key |-> order[i], resolved |-> FALSE] \in Thread
    BY <2>2 DEF Thread
  <2>4. new \in [1..Len(order) -> Thread]
    BY <2>1, <2>3
  <2> QED
    BY <2>1, <2>4
<1>5. threads \in Seq(Thread)
  BY DEF ThreadInv, TypeOK, Thread
<1> HIDE DEF new
<1>6. /\ threads' \in Seq(Thread)
      /\ DOMAIN threads' = 1..(Len(threads) + Len(new))
      /\ \A n \in 1..Len(threads) : threads'[n] = threads[n]
      /\ \A n \in Len(threads) + 1..Len(threads) + Len(new) :
           threads'[n] = new[n - Len(threads)]
  BY <1>1, <1>4, <1>5 DEF new
<1>7. \A i \in DOMAIN new : new[i].key = order[i] /\ order[i] \in run[r].fresh
  BY <1>3, <1>4 DEF new
<1>8. OneThreadPerFinding'
  <2> SUFFICES ASSUME NEW m \in DOMAIN threads', NEW n \in DOMAIN threads',
                      threads'[m].key = threads'[n].key
               PROVE  m = n
    BY DEF OneThreadPerFinding
  <2>1. CASE m \in DOMAIN threads /\ n \in DOMAIN threads
    BY <2>1, <1>5, <1>6 DEF ThreadInv, OneThreadPerFinding
  <2>2. CASE m \notin DOMAIN threads /\ n \notin DOMAIN threads
    <3>1. /\ m - Len(threads) \in DOMAIN new /\ n - Len(threads) \in DOMAIN new
          /\ threads'[m] = new[m - Len(threads)] /\ threads'[n] = new[n - Len(threads)]
      BY <2>2, <1>4, <1>5, <1>6
    <3>2. m - Len(threads) = n - Len(threads)
      BY <3>1, <1>3, <1>4, <1>7
    <3> QED
      BY <3>2, <1>4, <1>5, <1>6
  <2>3. ASSUME NEW i \in DOMAIN threads', NEW j \in DOMAIN threads',
               i \in DOMAIN threads, j \notin DOMAIN threads
        PROVE  threads'[i].key # threads'[j].key
    <3>1. DOMAIN new = 1..Len(new) /\ Len(new) \in Nat
          /\ DOMAIN threads = 1..Len(threads) /\ Len(threads) \in Nat
      BY <1>4, <1>5
    <3>2. i \in 1..Len(threads) /\ j \in Len(threads) + 1..Len(threads) + Len(new)
      BY <2>3, <3>1, <1>6
    <3>3. threads'[i] = threads[i] /\ threads'[j] = new[j - Len(threads)]
      BY <3>2, <1>6
    <3>4. j - Len(threads) \in DOMAIN new
      BY <3>1, <3>2
    <3> QED
      BY <3>3, <3>4, <2>3, <1>7 DEF ThreadInv, FreshIsNew
  <2> QED
    BY <2>1, <2>2, <2>3
<1>9. FreshIsNew'
  <2>1. run'[r].fresh = {}
    BY DEF Review, Idle, ThreadInv, TypeOK
  <2> QED
    BY <2>1 DEF Alone, FreshIsNew
<1>10. TypeOK'
  <2>1. Verdict(r) \in Stances
    <3>1. CASE run[r].found \cap Blocking # {}
      BY <3>1 DEF Verdict, Stances
    <3>2. CASE run[r].found \cap Blocking = {} /\ (run[r].failed # {} \/ run[r].ran = {})
      BY <3>2 DEF Verdict, Stances
    <3>3. CASE run[r].found \cap Blocking = {} /\ ~ (run[r].failed # {} \/ run[r].ran = {})
      BY <3>3 DEF Verdict, Stances
    <3> QED
      BY <3>1, <3>2, <3>3
  <2>2. stance' \in Stances
    BY <2>1 DEF Review, Stances
  <2>3. run' = [run EXCEPT ![r] = Idle] /\ run' \in [Runs -> Run]
    BY IdleIsRun DEF Review, ThreadInv, TypeOK
  <2>4. DOMAIN threads \subseteq DOMAIN threads'
    BY <1>4, <1>5, <1>6
  <2>5. ASSUME NEW s \in Runs, NEW k \in Keys
        PROVE  /\ k \in run'[s].todo => run'[s].listed[k] \in DOMAIN threads'
               /\ k \in run'[s].fresh => run'[s].listed[k] = 0
    BY <2>3, <2>4 DEF Idle, ThreadInv, TypeOK
  <2> QED
    BY <2>2, <2>3, <2>5, <1>6 DEF Review, ThreadInv, TypeOK, Thread, Tip
<1> QED
  BY <1>8, <1>9, <1>10 DEF ThreadInv

LEMMA TouchKeepsInv ==
  ASSUME ThreadInv, NEW n \in DOMAIN threads, NEW resolved \in BOOLEAN, Touch(n, resolved)
  PROVE  ThreadInv'
<1>1. /\ threads' = [threads EXCEPT ![n].resolved = resolved]
      /\ run' = [r \in Runs |-> [run[r] EXCEPT !.touched = @ \cup {n}]]
  BY DEF Touch
<1>2. threads' \in Seq(Thread) /\ DOMAIN threads' = DOMAIN threads
  BY <1>1, ThreadWritten DEF ThreadInv
<1>3. \A m \in DOMAIN threads : threads'[m].key = threads[m].key
  BY <1>1, ThreadWritten DEF ThreadInv
<1>4. \A r \in Runs : /\ run'[r].fresh = run[r].fresh /\ run'[r].todo = run[r].todo
                       /\ run'[r].listed = run[r].listed
  BY <1>1 DEF ThreadInv, TypeOK, Run
<1>5. run' \in [Runs -> Run]
  <2>1. n \in Nat
    BY DEF ThreadInv, TypeOK
  <2>2. \A r \in Runs : [run[r] EXCEPT !.touched = @ \cup {n}] \in Run
    BY <2>1 DEF ThreadInv, TypeOK, Run
  <2> QED
    BY <1>1, <2>2
<1>6. TypeOK'
  <2>1. acts' \in 0..MaxActs
    BY ReviewAssumption DEF Touch, ThreadInv, TypeOK
  <2>2. \A r \in Runs, k \in Keys :
          /\ k \in run'[r].todo => run'[r].listed[k] \in DOMAIN threads'
          /\ k \in run'[r].fresh => run'[r].listed[k] = 0
    BY <1>2, <1>4 DEF ThreadInv, TypeOK
  <2> QED
    BY <1>2, <1>5, <2>1, <2>2 DEF Touch, ThreadInv, TypeOK, Thread, Tip
<1> QED
  BY <1>2, <1>3, <1>4, <1>6, KeysKept

LEMMA PersonsKeepInv ==
  ASSUME ThreadInv, Persons PROVE ThreadInv'
<1>1. ASSUME NEW there \in SUBSET Keys, Push(there) PROVE ThreadInv'
  <2>1. Tip' = Tip + 1 /\ problems' \in Seq(SUBSET Keys)
    BY <1>1 DEF Push, Tip, ThreadInv, TypeOK
  <2>2. Tip' \in 1..MaxHeads
    BY <1>1, <2>1, ReviewAssumption DEF Push, ThreadInv, TypeOK
  <2>3. TypeOK'
    BY <1>1, <2>1, <2>2 DEF Push, ThreadInv, TypeOK
  <2> QED
    BY <1>1, <2>3, FreshKept DEF Push
<1>2. ASSUME TurnDraft PROVE ThreadInv'
  <2>1. draft' \in BOOLEAN
    BY <1>2, Zenon DEF TurnDraft
  <2>2. TypeOK'
    BY <1>2, <2>1 DEF TurnDraft, ThreadInv, TypeOK, Tip
  <2> QED
    BY <1>2, <2>2, FreshKept DEF TurnDraft
<1>3. ASSUME NEW n \in DOMAIN threads, PersonResolves(n) \/ PersonReopens(n)
      PROVE  ThreadInv'
  BY <1>3, TouchKeepsInv DEF PersonResolves, PersonReopens
<1> QED
  BY <1>1, <1>2, <1>3 DEF Persons

LEMMA StepKeepsInv ==
  ASSUME Alone, ThreadInv, [Next]_vars PROVE ThreadInv'
<1>1. CASE UNCHANGED vars
  BY <1>1 DEF vars, ThreadInv, TypeOK, Tip, FreshIsNew, OneThreadPerFinding
<1>2. ASSUME NEW r \in Runs, Reads(r) PROVE ThreadInv'
  BY <1>2, ReadsKeepInv
<1>3. ASSUME NEW r \in Runs, Writes(r) PROVE ThreadInv'
  BY <1>3, ListKeepsInv, SettleKeepsInv, ReviewKeepsInv DEF Writes
<1>4. ASSUME NEW r \in Runs, GivesUp(r) PROVE ThreadInv'
  BY <1>4, ReadsKeepInv
<1>5. CASE Persons
  BY <1>5, PersonsKeepInv
<1> QED
  BY <1>1, <1>2, <1>3, <1>4, <1>5 DEF Next

(* While runs do not overlap a finding never gets a second thread, however *)
(* many reviews stopped half way and whatever people resolved, reopened    *)
(* and pushed meanwhile (agent/publish.py, agent/scm/github.py).           *)
THEOREM OneThread == ASSUME Alone PROVE Spec => []OneThreadPerFinding
<1>1. Init => ThreadInv
  BY ThreadInit
<1>2. ThreadInv /\ [Next]_vars => ThreadInv'
  BY StepKeepsInv
<1>3. ThreadInv => OneThreadPerFinding
  BY DEF ThreadInv
<1> QED
  BY <1>1, <1>2, <1>3, PTL DEF Spec

(* Every variable of a review is of its type, over any number of pushes.   *)
THEOREM ReviewsTyped == ASSUME Alone PROVE Spec => []TypeOK
<1>1. Init => ThreadInv
  BY ThreadInit
<1>2. ThreadInv /\ [Next]_vars => ThreadInv'
  BY StepKeepsInv
<1>3. ThreadInv => TypeOK
  BY DEF ThreadInv
<1> QED
  BY <1>1, <1>2, <1>3, PTL DEF Spec
-----------------------------------------------------------------------------
(* What a run knows of its commit: the checks that got through left        *)
(* nothing out, and what it means to resolve is theirs.                    *)
Reported(rec) ==
  /\ rec.at # "idle" => rec.head \in DOMAIN problems
  /\ rec.at \in {"concluded", "listing", "writing"} =>
       \A k \in problems[rec.head] : CheckOf[k] \in rec.done => k \in rec.found
  /\ rec.at # "writing" => rec.todo = {}
  /\ \A k \in rec.todo : k \notin rec.found => CheckOf[k] \in rec.done

AllReported == \A r \in Runs : Reported(run[r])

LEMMA IdleReported == Reported(Idle)
BY DEF Reported, Idle

(* A step of one run leaves the others as they were.                       *)
LEMMA OneReported ==
  ASSUME ThreadInv, AllReported, NEW r \in Runs, NEW rec, run' = [run EXCEPT ![r] = rec],
         problems' = problems, Reported(rec)
  PROVE  AllReported'
<1>1. \A s \in Runs : run'[s] = IF s = r THEN rec ELSE run[s]
  BY DEF ThreadInv, TypeOK
<1> QED
  BY <1>1 DEF AllReported, Reported

LEMMA ReadsReport ==
  ASSUME ThreadInv, AllReported, NEW r \in Runs, Reads(r) \/ GivesUp(r) PROVE AllReported'
<1>1. problems' = problems
  BY DEF Reads, Start, Conclude, Withhold, CheckHead, GivesUp
<1>2. run[r] \in Run /\ Reported(run[r])
  BY DEF ThreadInv, TypeOK, AllReported
<1>3. ASSUME NEW ran \in SUBSET Checks, Start(r, ran) PROVE AllReported'
  <2> DEFINE rec == [Idle EXCEPT !.at = "working", !.head = Tip, !.ran = ran]
  <2>1. Tip \in DOMAIN problems
    BY DEF Tip, ThreadInv, TypeOK
  <2>2. Reported(rec)
    BY <2>1 DEF Reported, Idle
  <2>3. run' = [run EXCEPT ![r] = rec]
    BY <1>3 DEF Start
  <2> QED
    BY <1>1, <2>2, <2>3, OneReported
<1>4. ASSUME NEW done \in SUBSET Checks, NEW failed \in SUBSET Checks,
             NEW found \in SUBSET Keys, Conclude(r, done, failed, found)
      PROVE  AllReported'
  <2> DEFINE rec == [run[r] EXCEPT !.at = "concluded", !.done = done,
                                   !.failed = failed, !.found = found]
  <2>1. /\ rec.at = "concluded" /\ rec.done = done /\ rec.found = found
        /\ rec.head = run[r].head /\ rec.todo = run[r].todo
    BY <1>2 DEF Run
  <2>2. run' = [run EXCEPT ![r] = rec]
    BY <1>4 DEF Conclude
  <2>3. /\ run[r].at = "working"
        /\ \A k \in problems[run[r].head] : CheckOf[k] \in done => k \in found
    BY <1>4 DEF Conclude
  <2> HIDE DEF rec
  <2>4. Reported(rec)
    BY <1>2, <2>1, <2>3 DEF Reported
  <2> QED
    BY <1>1, <2>2, <2>4, OneReported
<1>5. ASSUME Withhold(r) \/ GivesUp(r) PROVE AllReported'
  BY <1>1, <1>5, IdleReported, OneReported DEF Withhold, GivesUp
<1>6. ASSUME CheckHead(r) PROVE AllReported'
  <2> DEFINE rec == [run[r] EXCEPT !.at = "listing"]
  <2>1. /\ rec.at = "listing" /\ rec.done = run[r].done /\ rec.found = run[r].found
        /\ rec.head = run[r].head /\ rec.todo = run[r].todo
    BY <1>2 DEF Run
  <2>2. run' = [run EXCEPT ![r] = rec] /\ run[r].at = "concluded"
    BY <1>6 DEF CheckHead
  <2> HIDE DEF rec
  <2>3. Reported(rec)
    BY <1>2, <2>1, <2>2 DEF Reported
  <2> QED
    BY <1>1, <2>2, <2>3, OneReported
<1> QED
  BY <1>3, <1>4, <1>5, <1>6 DEF Reads

LEMMA WritesReport ==
  ASSUME ThreadInv, AllReported, NEW r \in Runs, Writes(r) PROVE AllReported'
<1>1. problems' = problems
  BY DEF Writes, List, Settle, Review
<1>2. run[r] \in Run /\ Reported(run[r])
  BY DEF ThreadInv, TypeOK, AllReported
<1>3. ASSUME NEW attachable \in SUBSET Keys, List(r, attachable) PROVE AllReported'
  <2>1. PICK shut \in SUBSET Keys, gone \in SUBSET {k \in Keys : ProvenGone(r, k)} :
          run' = [run EXCEPT ![r] =
             [run[r] EXCEPT !.at = "writing", !.listed = Listing, !.shut = shut,
                            !.todo = Returned(r, shut) \cup gone, !.fresh = attachable,
                            !.touched = {}]]
    <3> DEFINE known == {k \in Keys : Listing[k] # 0}
               shut == {k \in known : threads[Listing[k]].resolved}
               gone == {k \in known \ shut : ProvenGone(r, k)}
    <3>1. shut \in SUBSET Keys /\ gone \in SUBSET {k \in Keys : ProvenGone(r, k)}
      OBVIOUS
    <3> QED
      BY <1>3, <3>1 DEF List
  <2> DEFINE rec == [run[r] EXCEPT !.at = "writing", !.listed = Listing, !.shut = shut,
                            !.todo = Returned(r, shut) \cup gone, !.fresh = attachable,
                            !.touched = {}]
  <2>2. /\ rec.at = "writing" /\ rec.done = run[r].done /\ rec.found = run[r].found
        /\ rec.head = run[r].head /\ rec.todo = Returned(r, shut) \cup gone
    BY <1>2 DEF Run
  <2>3. run[r].at = "listing"
    BY <1>3 DEF List
  <2>4. \A k \in Returned(r, shut) \cup gone : k \notin run[r].found => CheckOf[k] \in run[r].done
    BY <2>1 DEF Returned, ProvenGone
  <2> HIDE DEF rec
  <2>5. Reported(rec)
    BY <1>2, <2>2, <2>3, <2>4 DEF Reported
  <2> QED
    BY <1>1, <2>1, <2>5, OneReported DEF rec
<1>4. ASSUME NEW k \in Keys, Settle(r, k) PROVE AllReported'
  <2> DEFINE rec == [run[r] EXCEPT !.todo = @ \ {k}]
  <2>1. /\ rec.at = run[r].at /\ rec.done = run[r].done /\ rec.found = run[r].found
        /\ rec.head = run[r].head /\ rec.todo = run[r].todo \ {k}
    BY <1>2 DEF Run
  <2>2. run' = [run EXCEPT ![r] = rec]
    BY <1>4 DEF Settle
  <2> HIDE DEF rec
  <2>3. Reported(rec)
    BY <1>2, <2>1 DEF Reported
  <2> QED
    BY <1>1, <2>2, <2>3, OneReported
<1>5. ASSUME NEW own \in BOOLEAN, Review(r, own) PROVE AllReported'
  BY <1>1, <1>5, IdleReported, OneReported DEF Review
<1> QED
  BY <1>3, <1>4, <1>5 DEF Writes

LEMMA PersonsReport ==
  ASSUME ThreadInv, AllReported, Persons PROVE AllReported'
<1>1. ASSUME NEW there \in SUBSET Keys, Push(there) PROVE AllReported'
  <2>1. /\ DOMAIN problems \subseteq DOMAIN problems'
        /\ \A c \in DOMAIN problems : problems'[c] = problems[c]
    BY <1>1 DEF Push, ThreadInv, TypeOK
  <2>2. run' = run
    BY <1>1 DEF Push
  <2> SUFFICES ASSUME NEW r \in Runs PROVE Reported(run[r])'
    BY DEF AllReported
  <2>3. Reported(run[r])
    BY DEF AllReported
  <2> QED
    BY <2>1, <2>2, <2>3 DEF Reported
<1>2. ASSUME TurnDraft PROVE AllReported'
  BY <1>2 DEF TurnDraft, AllReported, Reported
<1>3. ASSUME NEW n \in DOMAIN threads, NEW resolved \in BOOLEAN, Touch(n, resolved)
      PROVE  AllReported'
  <2> SUFFICES ASSUME NEW r \in Runs PROVE Reported(run[r])'
    BY DEF AllReported
  <2>1. run[r] \in Run /\ Reported(run[r])
    BY DEF ThreadInv, TypeOK, AllReported
  <2>2. run'[r] = [run[r] EXCEPT !.touched = @ \cup {n}] /\ problems' = problems
    BY <1>3 DEF Touch
  <2>3. /\ run'[r].at = run[r].at /\ run'[r].done = run[r].done /\ run'[r].found = run[r].found
        /\ run'[r].head = run[r].head /\ run'[r].todo = run[r].todo
    BY <2>1, <2>2 DEF Run
  <2> QED
    BY <2>1, <2>2, <2>3 DEF Reported
<1> QED
  BY <1>1, <1>2, <1>3 DEF Persons, PersonResolves, PersonReopens

LEMMA ReportedKept ==
  ASSUME Alone, ThreadInv, AllReported, [Next]_vars PROVE AllReported'
<1>1. CASE UNCHANGED vars
  BY <1>1 DEF vars, AllReported, Reported
<1>2. CASE Next
  BY <1>2, ReadsReport, WritesReport, PersonsReport DEF Next
<1> QED
  BY <1>1, <1>2

(* A thread is resolved only when the commit analysed no longer has its    *)
(* problem: a check that failed, was not run or lacked its tools retracts  *)
(* nothing, whatever people do (agent/reconcile.py, agent/publish.py).     *)
THEOREM NothingRetracted == ASSUME Alone PROVE Spec => ResolvedIsGone
<1> DEFINE Inv == ThreadInv /\ AllReported
           Step == \A r \in Runs, k \in Keys :
                     Settle(r, k) /\ k \notin run[r].found => k \notin problems[run[r].head]
<1>1. Init => Inv
  <2>1. Init => AllReported
    BY IdleReported DEF Init, AllReported
  <2> QED
    BY <2>1, ThreadInit
<1>2. Inv /\ [Next]_vars => Inv'
  <2> SUFFICES ASSUME Inv, [Next]_vars PROVE Inv'
    OBVIOUS
  <2> QED
    BY StepKeepsInv, ReportedKept
<1>3. Inv => Step
  BY DEF AllReported, Reported, Settle
<1>4. Inv /\ [Next]_vars => [Step]_vars
  BY <1>3
<1> QED
  BY <1>1, <1>2, <1>4, PTL DEF Spec, ResolvedIsGone
-----------------------------------------------------------------------------
(* What a run found is in its commit.  While it writes, what it still has  *)
(* to settle is known by its thread, and every other thread that no person *)
(* touched agrees with what the run found.                                 *)
AgreeingIn(rec, problemsNow, threadsNow) ==
  /\ rec.at \in {"concluded", "listing", "writing"} => rec.found \subseteq problemsNow[rec.head]
  /\ rec.at = "writing" =>
       /\ \A k \in rec.todo : threadsNow[rec.listed[k]].key = k
       /\ \A n \in DOMAIN threadsNow \ rec.touched :
            LET key == threadsNow[n].key
            IN key \notin rec.todo =>
                 /\ key \in rec.found => ~ threadsNow[n].resolved
                 /\ CheckOf[key] \in rec.done /\ key \notin rec.found => threadsNow[n].resolved

Agreeing(rec) == AgreeingIn(rec, problems, threads)

AllAgree == \A r \in Runs : Agreeing(run[r])

LEMMA IdleAgrees == Agreeing(Idle)
BY DEF Agreeing, AgreeingIn, Idle

(* One run changes, and with Alone there is no other.                      *)
LEMMA OneAgrees ==
  ASSUME Alone, ThreadInv, NEW r \in Runs, NEW rec, run' = [run EXCEPT ![r] = rec],
         AgreeingIn(rec, problems', threads')
  PROVE  AllAgree'
<1>1. \A s \in Runs : s = r
  BY DEF Alone
<1>2. run'[r] = rec
  BY DEF ThreadInv, TypeOK
<1> QED
  BY <1>1, <1>2 DEF AllAgree, Agreeing, AgreeingIn

(* A run that reads changes neither problems nor threads.                  *)
LEMMA ReadsAgree ==
  ASSUME Alone, ThreadInv, AllAgree, NEW r \in Runs, Reads(r) \/ GivesUp(r) PROVE AllAgree'
<1>1. problems' = problems /\ threads' = threads
  BY DEF Reads, Start, Conclude, Withhold, CheckHead, GivesUp
<1>2. run[r] \in Run /\ Agreeing(run[r])
  BY DEF ThreadInv, TypeOK, AllAgree
<1>3. ASSUME NEW rec, rec.at \notin {"concluded", "listing", "writing"},
             run' = [run EXCEPT ![r] = rec]
      PROVE  AllAgree'
  BY <1>3, OneAgrees DEF Agreeing, AgreeingIn
<1>4. \A rec : rec.at \in {"concluded", "listing"} /\ rec.found \subseteq problems[rec.head] =>
               AgreeingIn(rec, problems', threads')
  BY <1>1 DEF AgreeingIn
<1>5. ASSUME NEW ran \in SUBSET Checks, Start(r, ran) PROVE AllAgree'
  <2> DEFINE rec == [Idle EXCEPT !.at = "working", !.head = Tip, !.ran = ran]
  <2>1. rec.at = "working"
    BY DEF Idle
  <2>2. run' = [run EXCEPT ![r] = rec]
    BY <1>5 DEF Start
  <2> HIDE DEF rec
  <2> QED
    BY <1>3, <2>1, <2>2
<1>6. ASSUME NEW done \in SUBSET Checks, NEW failed \in SUBSET Checks,
             NEW found \in SUBSET Keys, Conclude(r, done, failed, found)
      PROVE  AllAgree'
  <2> DEFINE rec == [run[r] EXCEPT !.at = "concluded", !.done = done,
                                   !.failed = failed, !.found = found]
  <2>1. rec.at = "concluded" /\ rec.found = found /\ rec.head = run[r].head
    BY <1>2 DEF Run
  <2>2. run' = [run EXCEPT ![r] = rec] /\ found \subseteq problems[run[r].head]
    BY <1>6 DEF Conclude
  <2> HIDE DEF rec
  <2>3. AgreeingIn(rec, problems', threads')
    BY <1>4, <2>1, <2>2
  <2> QED
    BY <2>2, <2>3, OneAgrees
<1>7. ASSUME Withhold(r) \/ GivesUp(r) PROVE AllAgree'
  <2>1. run' = [run EXCEPT ![r] = Idle] /\ Idle.at = "idle"
    BY <1>7 DEF Withhold, GivesUp, Idle
  <2> QED
    BY <1>3, <2>1
<1>8. ASSUME CheckHead(r) PROVE AllAgree'
  <2> DEFINE rec == [run[r] EXCEPT !.at = "listing"]
  <2>1. rec.at = "listing" /\ rec.found = run[r].found /\ rec.head = run[r].head
    BY <1>2 DEF Run
  <2>2. run' = [run EXCEPT ![r] = rec] /\ run[r].at = "concluded"
    BY <1>8 DEF CheckHead
  <2>3. run[r].found \subseteq problems[run[r].head]
    BY <1>2, <2>2 DEF Agreeing, AgreeingIn
  <2> HIDE DEF rec
  <2>4. AgreeingIn(rec, problems', threads')
    BY <1>4, <2>1, <2>3
  <2> QED
    BY <2>2, <2>4, OneAgrees
<1> QED
  BY <1>5, <1>6, <1>7, <1>8 DEF Reads

(* The writing is planned from threads of which there is one per finding.  *)
LEMMA ListAgrees ==
  ASSUME Alone, ThreadInv, AllAgree, NEW r \in Runs, NEW attachable \in SUBSET Keys,
         List(r, attachable)
  PROVE  AllAgree'
<1> DEFINE known == {k \in Keys : Listing[k] # 0}
           shut == {k \in known : threads[Listing[k]].resolved}
           gone == {k \in known \ shut : ProvenGone(r, k)}
           todo == Returned(r, shut) \cup gone
           rec == [run[r] EXCEPT !.at = "writing", !.listed = Listing, !.shut = shut,
                                 !.todo = todo, !.fresh = attachable, !.touched = {}]
<1>1. /\ run' = [run EXCEPT ![r] = rec]
      /\ UNCHANGED <<problems, threads>> /\ run[r].at = "listing"
  BY DEF List
<1>2. run[r] \in Run /\ run[r].found \subseteq problems[run[r].head]
  BY <1>1 DEF ThreadInv, TypeOK, AllAgree, Agreeing, AgreeingIn
<1>3. \A k \in Keys : \/ ThreadsOf(k) = {} /\ Listing[k] = 0
                      \/ Listing[k] \in ThreadsOf(k)
  BY ListingIsIt DEF ThreadInv, TypeOK
<1>4. todo \subseteq known
  BY DEF Returned
<1>5. \A k \in known : threads[Listing[k]].key = k
  BY <1>3 DEF ThreadsOf
<1>6. ASSUME NEW n \in DOMAIN threads, threads[n].key \notin todo
      PROVE  /\ threads[n].key \in run[r].found => ~ threads[n].resolved
             /\ CheckOf[threads[n].key] \in run[r].done /\ threads[n].key \notin run[r].found =>
                  threads[n].resolved
  <2> DEFINE k == threads[n].key
  <2>1. k \in Keys /\ n \in ThreadsOf(k) /\ n # 0
    BY EachIsThread DEF ThreadsOf, ThreadInv, TypeOK
  <2>2. Listing[k] = n
    BY <2>1, <1>3 DEF ThreadsOf, ThreadInv, OneThreadPerFinding
  <2>3. k \in known
    BY <2>1, <2>2
  <2>4. k \in shut <=> threads[n].resolved
    BY <2>2, <2>3
  <2>5. k \notin Returned(r, shut) /\ k \notin gone
    BY <1>6
  <2> HIDE DEF k, known, shut
  <2>6. k \in run[r].found => k \notin shut
    BY <2>5 DEF Returned
  <2>7. CheckOf[k] \in run[r].done /\ k \notin run[r].found => k \in shut
    BY <2>3, <2>5 DEF ProvenGone
  <2> QED
    BY <2>4, <2>6, <2>7 DEF k
<1> HIDE DEF known, shut, todo
<1>7. /\ rec.at = "writing" /\ rec.found = run[r].found /\ rec.head = run[r].head
      /\ rec.done = run[r].done /\ rec.todo = todo /\ rec.listed = Listing
  BY <1>2 DEF Run
<1> HIDE DEF rec
<1>8. AgreeingIn(rec, problems', threads')
  BY <1>1, <1>2, <1>4, <1>5, <1>6, <1>7 DEF Agreeing, AgreeingIn
<1> QED
  BY <1>1, <1>8, OneAgrees

(* The thread that is settled agrees from then on, the others stay.        *)
LEMMA SettleAgrees ==
  ASSUME Alone, ThreadInv, AllAgree, NEW r \in Runs, NEW k \in Keys, Settle(r, k)
  PROVE  AllAgree'
<1> DEFINE m == run[r].listed[k]
           rec == [run[r] EXCEPT !.todo = @ \ {k}]
<1>1. /\ run' = [run EXCEPT ![r] = rec] /\ problems' = problems
      /\ threads' = [threads EXCEPT ![m].resolved = k \notin run[r].found]
      /\ run[r].at = "writing" /\ k \in run[r].todo
  BY DEF Settle
<1>2. run[r] \in Run /\ Agreeing(run[r])
  BY DEF ThreadInv, TypeOK, AllAgree
<1>3. m \in DOMAIN threads /\ threads[m].key = k
  BY <1>1, <1>2 DEF Agreeing, AgreeingIn, ThreadInv, TypeOK
<1>4. DOMAIN threads' = DOMAIN threads /\ \A n \in DOMAIN threads : threads'[n].key = threads[n].key
  BY <1>1, <1>3, ThreadWritten DEF ThreadInv
<1>5. threads'[m].resolved = (k \notin run[r].found)
  <2>1. threads[m] = [key |-> threads[m].key, resolved |-> threads[m].resolved]
    BY <1>3, EachIsThread DEF ThreadInv
  <2>2. threads'[m] = [threads[m] EXCEPT !.resolved = k \notin run[r].found]
    BY <1>1, <1>3
  <2> QED
    BY <2>1, <2>2
<1>6. \A n \in DOMAIN threads : n # m => threads'[n] = threads[n]
  BY <1>1
<1>7. /\ rec.at = "writing" /\ rec.found = run[r].found /\ rec.head = run[r].head
      /\ rec.done = run[r].done /\ rec.todo = run[r].todo \ {k}
      /\ rec.listed = run[r].listed /\ rec.touched = run[r].touched
  BY <1>1, <1>2 DEF Run
<1> HIDE DEF rec, m
<1>8. \A n \in DOMAIN threads : threads[n].key = k => n = m
  BY <1>3 DEF ThreadInv, OneThreadPerFinding
<1>9. \A l \in rec.todo : threads'[rec.listed[l]].key = l
  <2>1. \A l \in run[r].todo : l \in Keys
    BY <1>2 DEF Run
  <2>2. \A l \in run[r].todo : run[r].listed[l] \in DOMAIN threads /\ threads[run[r].listed[l]].key = l
    BY <1>1, <1>2, <2>1 DEF Agreeing, AgreeingIn, ThreadInv, TypeOK
  <2> QED
    BY <1>4, <1>7, <2>2
<1>10. ASSUME NEW n \in DOMAIN threads' \ rec.touched, threads'[n].key \notin rec.todo
       PROVE  /\ threads'[n].key \in rec.found => ~ threads'[n].resolved
              /\ CheckOf[threads'[n].key] \in rec.done /\ threads'[n].key \notin rec.found =>
                   threads'[n].resolved
  <2>1. CASE n = m
    BY <1>3, <1>4, <1>5, <1>7, <2>1
  <2>2. CASE n # m
    <3>1. n \in DOMAIN threads \ run[r].touched /\ threads'[n] = threads[n]
      BY <1>4, <1>6, <1>7, <2>2
    <3>2. threads[n].key \notin run[r].todo
      BY <1>7, <1>8, <1>10, <2>2, <3>1
    <3> QED
      BY <1>1, <1>2, <1>7, <3>1, <3>2 DEF Agreeing, AgreeingIn
  <2> QED
    BY <2>1, <2>2
<1>11. rec.found \subseteq problems'[rec.head]
  BY <1>1, <1>2, <1>7 DEF Agreeing, AgreeingIn
<1>12. AgreeingIn(rec, problems', threads')
  BY <1>9, <1>10, <1>11 DEF Agreeing, AgreeingIn
<1> QED
  BY <1>1, <1>12, OneAgrees

LEMMA PersonsAgree ==
  ASSUME Alone, ThreadInv, AllReported, AllAgree, Persons PROVE AllAgree'
<1> SUFFICES ASSUME NEW r \in Runs PROVE Agreeing(run[r])'
  BY DEF AllAgree
<1>1. run[r] \in Run /\ Agreeing(run[r]) /\ (run[r].at # "idle" => run[r].head \in DOMAIN problems)
  BY DEF ThreadInv, TypeOK, AllAgree, AllReported, Reported
<1>2. ASSUME NEW there \in SUBSET Keys, Push(there) PROVE Agreeing(run[r])'
  <2>1. \A c \in DOMAIN problems : problems'[c] = problems[c]
    BY <1>2 DEF Push, ThreadInv, TypeOK
  <2>2. run' = run /\ threads' = threads
    BY <1>2 DEF Push
  <2> QED
    BY <1>1, <2>1, <2>2 DEF Agreeing, AgreeingIn
<1>3. CASE TurnDraft
  BY <1>1, <1>3 DEF TurnDraft, Agreeing, AgreeingIn
<1>4. ASSUME NEW m \in DOMAIN threads, NEW resolved \in BOOLEAN, Touch(m, resolved)
      PROVE  Agreeing(run[r])'
  <2>1. /\ threads' = [threads EXCEPT ![m].resolved = resolved] /\ problems' = problems
        /\ run'[r] = [run[r] EXCEPT !.touched = @ \cup {m}]
    BY <1>4 DEF Touch
  <2>2. /\ DOMAIN threads' = DOMAIN threads
        /\ \A n \in DOMAIN threads : threads'[n].key = threads[n].key
    BY <2>1, ThreadWritten DEF ThreadInv
  <2>3. \A n \in DOMAIN threads : n # m => threads'[n] = threads[n]
    BY <2>1
  <2>4. /\ run'[r].at = run[r].at /\ run'[r].done = run[r].done /\ run'[r].found = run[r].found
        /\ run'[r].head = run[r].head /\ run'[r].todo = run[r].todo
        /\ run'[r].listed = run[r].listed /\ run'[r].touched = run[r].touched \cup {m}
    BY <1>1, <2>1 DEF Run
  <2>5. \A l \in run[r].todo : run[r].listed[l] \in DOMAIN threads
    BY <1>1 DEF ThreadInv, TypeOK, Run
  <2> QED
    BY <1>1, <2>1, <2>2, <2>3, <2>4, <2>5 DEF Agreeing, AgreeingIn
<1> QED
  BY <1>2, <1>3, <1>4 DEF Persons, PersonResolves, PersonReopens

LEMMA StepAgrees ==
  ASSUME Alone, ThreadInv, AllReported, AllAgree, [Next]_vars PROVE AllAgree'
<1>1. CASE UNCHANGED vars
  BY <1>1 DEF vars, AllAgree, Agreeing, AgreeingIn
<1>2. ASSUME NEW r \in Runs, Reads(r) \/ GivesUp(r) PROVE AllAgree'
  BY <1>2, ReadsAgree
<1>3. ASSUME NEW r \in Runs, Writes(r) PROVE AllAgree'
  <2>1. ASSUME NEW own \in BOOLEAN, Review(r, own) PROVE AllAgree'
    <3>1. run' = [run EXCEPT ![r] = Idle] /\ Idle.at = "idle"
      BY <2>1 DEF Review, Idle
    <3>2. AgreeingIn(Idle, problems', threads')
      BY <3>1 DEF Agreeing, AgreeingIn, Idle
    <3> QED
      BY <3>1, <3>2, OneAgrees
  <2> QED
    BY <1>3, <2>1, ListAgrees, SettleAgrees DEF Writes
<1>4. CASE Persons
  BY <1>4, PersonsAgree
<1> QED
  BY <1>1, <1>2, <1>3, <1>4 DEF Next

(* When a review appears, the threads agree with what it reports, however  *)
(* many earlier reviews stopped half way and whatever was pushed, except   *)
(* for those that a person touched meanwhile (agent/publish.py).           *)
THEOREM ReviewsAgree == ASSUME Alone PROVE Spec => ThreadsAgree
<1> DEFINE Inv == ThreadInv /\ AllReported /\ AllAgree
           Step == \A r \in Runs, own \in BOOLEAN : Review(r, own) =>
                     \A n \in DOMAIN threads \ run[r].touched :
                       LET key == threads[n].key
                       IN /\ key \in run[r].found => ~ threads[n].resolved
                          /\ CheckOf[key] \in run[r].done =>
                               threads[n].resolved = (key \notin problems[run[r].head])
<1>1. Init => Inv
  <2>1. Init => AllReported /\ AllAgree
    BY IdleReported, IdleAgrees DEF Init, AllReported, AllAgree
  <2> QED
    BY <2>1, ThreadInit
<1>2. Inv /\ [Next]_vars => Inv'
  <2> SUFFICES ASSUME Inv, [Next]_vars PROVE Inv'
    OBVIOUS
  <2>1. ThreadInv' /\ AllReported'
    BY StepKeepsInv, ReportedKept
  <2> QED
    BY <2>1, StepAgrees
<1>3. Inv => Step
  <2> SUFFICES ASSUME Inv, NEW r \in Runs, NEW own \in BOOLEAN, Review(r, own),
                      NEW n \in DOMAIN threads \ run[r].touched
               PROVE  LET key == threads[n].key
                      IN /\ key \in run[r].found => ~ threads[n].resolved
                         /\ CheckOf[key] \in run[r].done =>
                              threads[n].resolved = (key \notin problems[run[r].head])
    OBVIOUS
  <2>1. run[r].at = "writing" /\ run[r].todo = {}
    BY DEF Review
  <2>2. Agreeing(run[r]) /\ Reported(run[r])
    BY DEF AllAgree, AllReported
  <2>3. threads[n].resolved \in BOOLEAN
    BY EachIsThread DEF ThreadInv, TypeOK, Thread
  <2> QED
    BY <2>1, <2>2, <2>3 DEF Agreeing, AgreeingIn, Reported
<1>4. Inv /\ [Next]_vars => [Step]_vars
  BY <1>3
<1> QED
  BY <1>1, <1>2, <1>4, PTL DEF Spec, ThreadsAgree
=============================================================================
