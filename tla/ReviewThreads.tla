--------------------------- MODULE ReviewThreads ----------------------------
(***************************************************************************)
(* Review runs on one change: each analyses the commit it was started on   *)
(* and then writes one review, after bringing the agent's own threads in   *)
(* line with what it found.                                                *)
(*                                                                         *)
(* The head and the draft flag are read once, the threads are listed once, *)
(* and then threads are written one call after another while people push,  *)
(* resolve and reopen.  A run that a comment in a thread asked to look     *)
(* again performs only the check the thread belongs to, and writes its     *)
(* review all the same.                                                    *)
(***************************************************************************)
EXTENDS Integers, Sequences, FiniteSets

CONSTANTS
  Keys,       \* finding keys
  Checks,     \* the checks of a full review
  CheckOf,    \* the check a key belongs to
  Blocking,   \* keys whose finding blocks the merge
  Runs,       \* runs that may be under way at once
  Faults,     \* what may go wrong: "check", "gap", "platform"
  People,     \* what people do: "push", "draft", "resolve", "unresolve", "recheck"
  MaxHeads,   \* bound on the commits pushed
  MaxActs     \* bound on what people do to threads

ASSUME ReviewAssumption ==
  /\ IsFiniteSet(Keys)
  /\ CheckOf \in [Keys -> Checks]
  /\ Blocking \subseteq Keys
  /\ Faults \subseteq {"check", "gap", "platform"}
  /\ People \subseteq {"push", "draft", "resolve", "unresolve", "recheck"}
  /\ MaxHeads \in Nat \ {0} /\ MaxActs \in Nat

VARIABLES
  problems,  \* by commit: the findings that are there to be found
  draft,     \* whether the change is a draft
  threads,   \* the agent's threads on the change, oldest first
  stance,    \* what its latest review says
  run,       \* what each run has read and concluded
  acts       \* what people have done to threads

vars == <<problems, draft, threads, stance, run, acts>>

Tip == Len(problems)

Stances == {"none", "approve", "request", "comment"}

Idle ==
  [at |-> "idle", head |-> 0, ran |-> {}, done |-> {}, failed |-> {}, found |-> {},
   listed |-> [k \in Keys |-> 0], shut |-> {}, todo |-> {}, fresh |-> {}, touched |-> {}]

Init ==
  /\ \E there \in SUBSET Keys : problems = <<there>>
  /\ draft = FALSE
  /\ threads = << >>
  /\ stance = "none"
  /\ run = [r \in Runs |-> Idle]
  /\ acts = 0

-----------------------------------------------------------------------------
(* Analysis.                                                               *)

(* A run starts on the newest commit: a full review, or the one check that *)
(* owns the finding of a thread somebody commented in.                     *)
Start(r, ran) ==
  /\ run[r].at = "idle"
  /\ \/ ran = Checks
     \/ /\ "recheck" \in People
        /\ \E n \in DOMAIN threads : ran = {CheckOf[threads[n].key]}
  /\ run' = [run EXCEPT ![r] = [Idle EXCEPT !.at = "working", !.head = Tip, !.ran = ran]]
  /\ UNCHANGED <<problems, draft, threads, stance, acts>>

(* A check that gets through reports what there is to report; one that     *)
(* failed, or that lacks its tools, reports some of it.                    *)
Conclude(r, done, failed, found) ==
  /\ run[r].at = "working"
  /\ done \cup failed \subseteq run[r].ran /\ done \cap failed = {}
  /\ failed # {} => "check" \in Faults
  /\ done \cup failed # run[r].ran => "gap" \in Faults
  /\ found \subseteq {k \in problems[run[r].head] : CheckOf[k] \in run[r].ran}
  /\ \A k \in problems[run[r].head] : CheckOf[k] \in done => k \in found
  /\ run' = [run EXCEPT ![r] = [@ EXCEPT !.at = "concluded", !.done = done,
                                         !.failed = failed, !.found = found]]
  /\ UNCHANGED <<problems, draft, threads, stance, acts>>

(* Findings that block outrank checks that failed; a check without tools   *)
(* is a gap, which refuses nothing.                                        *)
Verdict(r) ==
  CASE run[r].found \cap Blocking # {} -> "request"
    [] run[r].failed # {} \/ run[r].ran = {} -> "comment"
    [] OTHER -> "approve"

-----------------------------------------------------------------------------
(* Publishing.                                                             *)

Withhold(r) ==
  /\ run[r].at = "concluded"
  /\ draft \/ run[r].head # Tip
  /\ run' = [run EXCEPT ![r] = Idle]
  /\ UNCHANGED <<problems, draft, threads, stance, acts>>

CheckHead(r) ==
  /\ run[r].at = "concluded"
  /\ ~ draft /\ run[r].head = Tip
  /\ run' = [run EXCEPT ![r].at = "listing"]
  /\ UNCHANGED <<problems, draft, threads, stance, acts>>

ThreadsOf(key) == {n \in DOMAIN threads : threads[n].key = key}

(* Of several threads the last one listed counts.                          *)
LastOf(numbers) ==
  IF numbers = {} THEN 0 ELSE CHOOSE n \in numbers : \A m \in numbers : m <= n

(* Mutant: only the threads that are open are listed.                      *)
OpenListing == [k \in Keys |-> LastOf({n \in ThreadsOf(k) : ~ threads[n].resolved})]

Listing == [k \in Keys |-> LastOf(ThreadsOf(k))]

(* Mutant: absence alone is enough.                                        *)
AbsentFrom(r, key) == key \notin run[r].found

(* The check that owns this finding got through and did not report it.     *)
ProvenGone(r, key) == key \notin run[r].found /\ CheckOf[key] \in run[r].done

(* Mutant: a thread that is resolved stays so.                             *)
NothingReturned(r, shut) == {}

(* Threads of findings that are back.                                      *)
Returned(r, shut) == run[r].found \cap shut

(* Findings a thread may be started for.                                   *)
Unthreaded(r, known) == run[r].found \ known

(* Threads are listed, resolved ones included, and the writing is planned: *)
(* threads to open again, threads to resolve, findings with a line of the  *)
(* change to start a thread on.                                            *)
List(r, attachable) ==
  /\ run[r].at = "listing"
  /\ LET listed == Listing
         known == {k \in Keys : listed[k] # 0}
         shut == {k \in known : threads[listed[k]].resolved}
         gone == {k \in known \ shut : ProvenGone(r, k)}
     IN /\ attachable \subseteq Unthreaded(r, known)
        /\ run' = [run EXCEPT ![r] =
             [@ EXCEPT !.at = "writing", !.listed = listed, !.shut = shut,
                       !.todo = Returned(r, shut) \cup gone, !.fresh = attachable, !.touched = {}]]
  /\ UNCHANGED <<problems, draft, threads, stance, acts>>

(* A note and the resolution: the findings that are back come first.       *)
Settle(r, key) ==
  /\ run[r].at = "writing"
  /\ key \in run[r].todo
  /\ key \in run[r].found \/ run[r].todo \cap run[r].found = {}
  /\ threads' = [threads EXCEPT ![run[r].listed[key]].resolved = key \notin run[r].found]
  /\ run' = [run EXCEPT ![r].todo = @ \ {key}]
  /\ UNCHANGED <<problems, draft, stance, acts>>

(* The orders in which a run may have judged its findings.                 *)
Orders(keys) ==
  {f \in [1..Cardinality(keys) -> keys] : \A i, j \in DOMAIN f : f[i] = f[j] => i = j}

(* One call: the text, the stance, and every new thread.  On a change of   *)
(* the agent's own the platform records a comment instead of the stance.   *)
Review(r, own) ==
  /\ run[r].at = "writing" /\ run[r].todo = {}
  /\ \E order \in Orders(run[r].fresh) :
       threads' = threads \o [i \in DOMAIN order |-> [key |-> order[i], resolved |-> FALSE]]
  /\ stance' = IF own THEN "comment" ELSE Verdict(r)
  /\ run' = [run EXCEPT ![r] = Idle]
  /\ UNCHANGED <<problems, draft, acts>>

(* A call is refused, or the job is killed: what was written stays.        *)
GivesUp(r) ==
  /\ "platform" \in Faults
  /\ run[r].at # "idle"
  /\ run' = [run EXCEPT ![r] = Idle]
  /\ UNCHANGED <<problems, draft, threads, stance, acts>>

-----------------------------------------------------------------------------
(* People.                                                                 *)

Push(there) ==
  /\ "push" \in People
  /\ Tip < MaxHeads
  /\ problems' = Append(problems, there)
  /\ UNCHANGED <<draft, threads, stance, run, acts>>

TurnDraft ==
  /\ "draft" \in People
  /\ draft' = ~ draft
  /\ UNCHANGED <<problems, threads, stance, run, acts>>

Touch(n, resolved) ==
  /\ acts < MaxActs
  /\ threads[n].resolved # resolved
  /\ threads' = [threads EXCEPT ![n].resolved = resolved]
  /\ run' = [r \in Runs |-> [run[r] EXCEPT !.touched = @ \cup {n}]]
  /\ acts' = acts + 1
  /\ UNCHANGED <<problems, draft, stance>>

PersonResolves(n) == "resolve" \in People /\ Touch(n, TRUE)

PersonReopens(n) == "unresolve" \in People /\ Touch(n, FALSE)

-----------------------------------------------------------------------------
Reads(r) ==
  \/ \E ran \in SUBSET Checks : Start(r, ran)
  \/ \E done, failed \in SUBSET Checks, found \in SUBSET Keys : Conclude(r, done, failed, found)
  \/ Withhold(r) \/ CheckHead(r)

Writes(r) ==
  \/ \E attachable \in SUBSET Keys : List(r, attachable)
  \/ \E k \in Keys : Settle(r, k)
  \/ \E own \in BOOLEAN : Review(r, own)

Persons ==
  \/ \E there \in SUBSET Keys : Push(there)
  \/ TurnDraft
  \/ \E n \in DOMAIN threads : PersonResolves(n) \/ PersonReopens(n)

Next == (\E r \in Runs : Reads(r) \/ Writes(r) \/ GivesUp(r)) \/ Persons

Spec == Init /\ [][Next]_vars

-----------------------------------------------------------------------------
(* Properties.                                                             *)

Run ==
  [at : {"idle", "working", "concluded", "listing", "writing"}, head : 0..MaxHeads,
   ran : SUBSET Checks, done : SUBSET Checks, failed : SUBSET Checks, found : SUBSET Keys,
   listed : [Keys -> Nat], shut : SUBSET Keys, todo : SUBSET Keys, fresh : SUBSET Keys,
   touched : SUBSET Nat]

(* Every variable holds what the code's data can be; a run only means to   *)
(* change threads it listed, and to start them for findings without one.   *)
TypeOK ==
  /\ problems \in Seq(SUBSET Keys) /\ Tip \in 1..MaxHeads
  /\ draft \in BOOLEAN
  /\ threads \in Seq([key : Keys, resolved : BOOLEAN])
  /\ stance \in Stances
  /\ run \in [Runs -> Run]
  /\ acts \in 0..MaxActs
  /\ \A r \in Runs, k \in Keys :
       /\ k \in run[r].todo => run[r].listed[k] \in DOMAIN threads
       /\ k \in run[r].fresh => run[r].listed[k] = 0

(* A finding keeps one thread, over pushes, half-written reviews and       *)
(* resolutions, as long as runs do not overlap.                            *)
OneThreadPerFinding ==
  \A m, n \in DOMAIN threads : threads[m].key = threads[n].key => m = n

(* A thread the agent resolves is about nothing that is still there in the *)
(* commit the run analysed: a check that failed, was not part of the run   *)
(* or lacked its tools retracts no finding.                                *)
ResolvedIsGone ==
  [][\A r \in Runs, k \in Keys :
       Settle(r, k) /\ k \notin run[r].found => k \notin problems[run[r].head]]_vars

(* When a review appears, the threads agree with it, however many earlier  *)
(* reviews stopped half way: those of what it reports are open, and those  *)
(* of what its checks no longer see are resolved, except where a person    *)
(* acted since the threads were listed.                                    *)
ThreadsAgree ==
  [][\A r \in Runs, own \in BOOLEAN : Review(r, own) =>
       \A n \in DOMAIN threads \ run[r].touched :
         LET key == threads[n].key
         IN /\ key \in run[r].found => ~ threads[n].resolved
            /\ CheckOf[key] \in run[r].done =>
                 threads[n].resolved = (key \notin problems[run[r].head])]_vars
=============================================================================
