----------------------------- MODULE FixBranches ----------------------------
(***************************************************************************)
(* Fix branches from one maintenance run to the next: what is planned,     *)
(* prepared in a worktree, committed, pushed and proposed, and how the     *)
(* remains of an earlier attempt are reclaimed.                            *)
(*                                                                         *)
(* A subject stands for the branch that is named after it.  Runs follow    *)
(* one another; people answer change requests at any time.                 *)
(***************************************************************************)
EXTENDS Naturals, FiniteSets

CONSTANTS
  Subjects,    \* class and subject of a group of findings; one branch each
  FindingsOf,  \* the findings of a subject's group
  LeadOf,      \* the strictest of them, which names the job
  Rank,        \* ship order
  AwaitingCI,  \* subjects a person asked a change request for without local verification
  MaxOpen,     \* open fix requests the overlay allows
  Publishes,   \* whether runs publish: a set of Booleans
  Fresh,       \* whether every run starts from a new clone
  Standing,    \* subjects that are fixable in every run
  Faults,      \* what may go wrong
  People,      \* what people may do
  MaxEvents    \* bound on faults and on what people do, over a behaviour

ASSUME BranchAssumption ==
  /\ IsFiniteSet(Subjects)
  /\ MaxOpen \in Nat /\ MaxEvents \in Nat
  /\ \A s \in Subjects : LeadOf[s] \in FindingsOf[s]
  /\ \A s \in Subjects : Rank[s] \in Nat
  /\ \A s, t \in Subjects : Rank[s] = Rank[t] => s = t
  /\ AwaitingCI \subseteq Subjects /\ Standing \subseteq Subjects
  /\ Publishes \subseteq BOOLEAN /\ Fresh \in BOOLEAN
  /\ Faults \subseteq {"platform", "git", "label", "issue", "cancel", "crash"}
  /\ People \subseteq {"close", "merge", "reopen"}

VARIABLES
  change,  \* the newest change request about each subject
  remote,  \* branches on the platform
  local,   \* branches in the checkout
  trees,   \* branches a linked worktree holds
  phase,   \* how far the run is
  run,     \* what the run has read, planned and done
  told,    \* what the last run has said, or could not say, on issues whose fix did not ship
  events   \* faults and acts of people so far

vars == <<change, remote, local, trees, phase, run, told, events>>

Phases == {"idle", "analysing", "reclaiming", "creating", "fixing", "settling",
           "announcing", "pushing", "proposing"}

NoRun ==
  [publish |-> FALSE, reach |-> FALSE, heads |-> {}, fixable |-> {}, todo |-> {},
   blocked |-> {}, jobs |-> {}, fixed |-> {}, shipped |-> {}, unshipped |-> {}]

Init ==
  /\ change = [s \in Subjects |-> "none"]
  /\ remote = {} /\ local = {} /\ trees = {}
  /\ phase = "idle"
  /\ run = NoRun
  /\ told = {}
  /\ events = 0

UnderReview == {s \in Subjects : change[s] = "open"}

(* The n first subjects of a set, in ship order.                           *)
Foremost(subjects, n) ==
  {s \in subjects : Cardinality({t \in subjects : Rank[t] < Rank[s]}) < n}

First(subjects, s) == s \in subjects /\ \A t \in subjects : Rank[s] <= Rank[t]

Happens == events < MaxEvents /\ events' = events + 1

GoesWrong(fault) == fault \in Faults /\ Happens

-----------------------------------------------------------------------------
(* The open change requests are read before anything is planned, by a run  *)
(* that publishes; one that cannot read them prepares nothing.  A run that *)
(* does not publish may have no platform to talk to.                       *)
Begin(publish, reach) ==
  /\ phase = "idle"
  /\ publish \in Publishes
  /\ publish => reach
  /\ phase' = "analysing"
  /\ run' = [NoRun EXCEPT !.publish = publish, !.reach = reach,
                          !.heads = IF publish THEN UnderReview ELSE {}]
  /\ local' = IF Fresh THEN {} ELSE local
  /\ trees' = IF Fresh THEN {} ELSE trees
  /\ told' = {}
  /\ UNCHANGED <<change, remote, events>>

(* The analysis has ended, and these subjects have a fixable finding.      *)
Decide(fixable) ==
  /\ phase = "analysing"
  /\ Standing \subseteq fixable
  /\ phase' = "reclaiming"
  /\ run' = [run EXCEPT !.fixable = fixable,
                        !.todo = IF run.reach THEN fixable \ run.heads ELSE {}]
  /\ UNCHANGED <<change, remote, local, trees, told, events>>

(* The platform closes a change request whose branch is deleted.           *)
WithoutBranch(s) ==
  IF s \in remote /\ change[s] = "open" THEN [change EXCEPT ![s] = "withdrawn"] ELSE change

(* Mutant: the checkout's own branch is left.                              *)
ReclaimRemotely(s) ==
  /\ phase = "reclaiming"
  /\ s \in run.todo
  /\ change' = WithoutBranch(s)
  /\ remote' = remote \ {s}
  /\ run' = [run EXCEPT !.todo = @ \ {s}]
  /\ UNCHANGED <<local, trees, phase, told, events>>

(* The remains of an earlier attempt are removed: the platform's branch,   *)
(* the worktrees on the local one, the local one.                          *)
Reclaim(s) ==
  /\ phase = "reclaiming"
  /\ s \in run.todo
  /\ change' = WithoutBranch(s)
  /\ remote' = remote \ {s}
  /\ local' = local \ {s}
  /\ trees' = trees \ {s}
  /\ run' = [run EXCEPT !.todo = @ \ {s}]
  /\ UNCHANGED <<phase, told, events>>

(* A call fails and the rest of this branch's reclaim is given up.  Calls  *)
(* to the platform come first; the local branch is removed last.           *)
ReclaimFails(s) ==
  /\ phase = "reclaiming"
  /\ s \in run.todo
  /\ \/ /\ GoesWrong("platform")
        /\ UNCHANGED <<change, remote, trees>>
     \/ /\ s \in local
        /\ GoesWrong("git")
        /\ change' = WithoutBranch(s)
        /\ remote' = remote \ {s}
        /\ trees' \in {trees, trees \ {s}}
  /\ run' = [run EXCEPT !.todo = @ \ {s}, !.blocked = @ \cup {s}]
  /\ UNCHANGED <<local, phase, told>>

-----------------------------------------------------------------------------
(* Mutant: the requests that are open are not counted.                     *)
RoomForAll == MaxOpen

Room == IF Cardinality(run.heads) < MaxOpen THEN MaxOpen - Cardinality(run.heads) ELSE 0

(* Mutant: a branch under review is prepared again.                        *)
OpenAgain == run.fixable \ local

(* Subjects neither under review nor held by a branch that is still here.  *)
Unclaimed == run.fixable \ (run.heads \cup local)

Plan ==
  /\ phase = "reclaiming"
  /\ run.todo = {}
  /\ phase' = "creating"
  /\ LET jobs == Foremost(Unclaimed, Room)
     IN run' = [run EXCEPT !.jobs = jobs, !.todo = jobs]
  /\ UNCHANGED <<change, remote, local, trees, told, events>>

(* Worktrees are created one at a time, each on its branch from the head.  *)
Create(s) ==
  /\ phase = "creating"
  /\ First(run.todo, s)
  /\ local' = local \cup {s}
  /\ trees' = trees \cup {s}
  /\ run' = [run EXCEPT !.todo = @ \ {s}]
  /\ UNCHANGED <<change, remote, phase, told, events>>

CreateFails(s) ==
  /\ phase = "creating"
  /\ First(run.todo, s)
  /\ GoesWrong("git")
  /\ run' = [run EXCEPT !.todo = @ \ {s}, !.unshipped = @ \cup {s}]
  /\ UNCHANGED <<change, remote, local, trees, phase, told>>

Prepared == run.jobs \ run.unshipped

StartFixing ==
  /\ phase = "creating"
  /\ run.todo = {}
  /\ phase' = "fixing"
  /\ run' = [run EXCEPT !.todo = Prepared]
  /\ UNCHANGED <<change, remote, local, trees, told, events>>

(* The sessions overlap, and end in any order.  Whether a fix ships is     *)
(* read from the worktree and from the commands that ran.                  *)
Shippable(s, changed, verified) == changed /\ (s \in AwaitingCI \/ verified)

Session(s, claimed, changed, verified) ==
  /\ phase = "fixing"
  /\ s \in run.todo
  /\ run' = [run EXCEPT
       !.todo = @ \ {s},
       !.fixed = IF claimed /\ Shippable(s, changed, verified) THEN @ \cup {s} ELSE @]
  /\ UNCHANGED <<change, remote, local, trees, phase, told, events>>

StartSettling ==
  /\ phase = "fixing"
  /\ run.todo = {}
  /\ phase' = "settling"
  /\ run' = [run EXCEPT !.todo = Prepared]
  /\ UNCHANGED <<change, remote, local, trees, told, events>>

(* Mutant: an interrupted run leaves its worktrees where they are.         *)
CancelUncleaned ==
  /\ phase = "fixing"
  /\ GoesWrong("cancel")
  /\ phase' = "idle"
  /\ run' = NoRun
  /\ UNCHANGED <<change, remote, local, trees, told>>

(* The run is interrupted while sessions run: what was prepared is dropped. *)
Cancel ==
  /\ phase = "fixing"
  /\ GoesWrong("cancel")
  /\ trees' = trees \ Prepared
  /\ local' = local \ Prepared
  /\ phase' = "idle"
  /\ run' = NoRun
  /\ UNCHANGED <<change, remote, told>>

-----------------------------------------------------------------------------
(* Fixes are settled one at a time: a fix that will ship is committed and  *)
(* keeps its branch, any other goes, branch included.                      *)
Settling(s) == phase = "settling" /\ First(run.todo, s)

Settled(s) ==
  run' = [run EXCEPT !.todo = @ \ {s},
                     !.unshipped = IF s \in run.fixed THEN @ ELSE @ \cup {s}]

Settle(s) ==
  /\ Settling(s)
  /\ Settled(s)
  /\ trees' = trees \ {s}
  /\ local' = IF s \in run.fixed THEN local ELSE local \ {s}
  /\ UNCHANGED <<change, remote, phase, told, events>>

(* A clean-up that fails is left: the worktree and with it the branch, or  *)
(* the branch alone.                                                       *)
SettleLeft(s) ==
  /\ Settling(s)
  /\ GoesWrong("git")
  /\ Settled(s)
  /\ trees' \in {trees, trees \ {s}}
  /\ UNCHANGED <<change, remote, local, phase, told>>

(* A commit that fails ends the run; what it had not settled is dropped.   *)
CommitFails(s) ==
  /\ Settling(s)
  /\ s \in run.fixed
  /\ GoesWrong("git")
  /\ trees' = trees \ run.todo
  /\ local' = local \ run.todo
  /\ phase' = "idle"
  /\ run' = NoRun
  /\ UNCHANGED <<change, remote, told>>

EndSettling ==
  /\ phase = "settling"
  /\ run.todo = {}
  /\ IF run.publish
     THEN phase' = "announcing" /\ UNCHANGED run
     ELSE phase' = "idle" /\ run' = NoRun
  /\ UNCHANGED <<change, remote, local, trees, told, events>>

-----------------------------------------------------------------------------
(* Mutant: every job is pushed, whatever became of its fix.                *)
EveryJob == run.jobs

Shipping == run.fixed

(* Nothing is published under an identity that could not be read.          *)
Announce ==
  /\ phase = "announcing"
  /\ \/ /\ phase' = "pushing"
        /\ run' = [run EXCEPT !.todo = Shipping]
        /\ UNCHANGED events
     \/ /\ GoesWrong("platform")
        /\ phase' = "idle"
        /\ run' = NoRun
  /\ UNCHANGED <<change, remote, local, trees, told>>

NotProposed(s) ==
  /\ phase' = "pushing"
  /\ run' = [run EXCEPT !.todo = @ \ {s}, !.unshipped = @ \cup {s}]

(* A push is never forced: onto a branch that is there it is refused,      *)
(* unless what is there has been merged into the head it starts from.      *)
Push(s) ==
  /\ phase = "pushing"
  /\ First(run.todo, s)
  /\ \/ /\ s \notin remote \/ change[s] = "merged"
        /\ remote' = remote \cup {s}
        /\ phase' = "proposing"
        /\ UNCHANGED <<run, events>>
     \/ /\ s \in remote
        /\ NotProposed(s)
        /\ UNCHANGED <<remote, events>>
     \/ /\ GoesWrong("platform")
        /\ NotProposed(s)
        /\ UNCHANGED remote
  /\ UNCHANGED <<change, local, trees, told>>

(* The platform refuses a second open change request on one branch.  The   *)
(* label is set by a later call, and without it nothing counts as proposed. *)
Propose(s) ==
  /\ phase = "proposing"
  /\ First(run.todo, s)
  /\ \/ /\ change[s] # "open"
        /\ change' = [change EXCEPT ![s] = "open"]
        /\ phase' = "pushing"
        /\ run' = [run EXCEPT !.todo = @ \ {s}, !.shipped = @ \cup {s}]
        /\ UNCHANGED events
     \/ /\ change[s] = "open"
        /\ NotProposed(s)
        /\ UNCHANGED <<change, events>>
     \/ /\ GoesWrong("platform")
        /\ NotProposed(s)
        /\ UNCHANGED change
     \/ /\ change[s] # "open"
        /\ GoesWrong("label")
        /\ change' = [change EXCEPT ![s] = "open"]
        /\ NotProposed(s)
  /\ UNCHANGED <<remote, local, trees, told>>

(* Mutant: only the fixes that failed to ship are told of.                 *)
NotedOfProposals == {LeadOf[s] : s \in run.fixed \cap run.unshipped}

(* A fix that failed is told to every finding of its group; one that was   *)
(* not pushed or proposed to the finding that names the job.               *)
Noted == (UNION {FindingsOf[s] : s \in run.jobs \ run.fixed}) \cup
         {LeadOf[s] : s \in run.fixed \cap run.unshipped}

(* The run puts down which of them it could tell.                          *)
Postings(untold) ==
  {<<IF f \in untold THEN "not-noted" ELSE "noted", f>> : f \in Noted}

(* An issue may have no number, be no longer the agent's, or refuse the    *)
(* comment.                                                                *)
Note ==
  /\ phase = "pushing"
  /\ run.todo = {}
  /\ \E untracked \in SUBSET Noted : \E refused \in SUBSET (Noted \ untracked) :
       /\ IF refused = {} THEN UNCHANGED events ELSE GoesWrong("platform")
       /\ told' = Postings(untracked \cup refused)
  /\ phase' = "idle"
  /\ run' = NoRun
  /\ UNCHANGED <<change, remote, local, trees>>

(* An issue that cannot be read ends the run before the rest is told.      *)
NoteAborts ==
  /\ phase = "pushing"
  /\ run.todo = {}
  /\ GoesWrong("issue")
  /\ \E rest \in SUBSET Noted \ {{}} : \E untold \in SUBSET (Noted \ rest) :
       told' = {p \in Postings(untold) : p[2] \notin rest}
  /\ phase' = "idle"
  /\ run' = NoRun
  /\ UNCHANGED <<change, remote, local, trees>>

(* The process dies, and what it kept on disk stays there.                 *)
Crash ==
  /\ phase # "idle"
  /\ GoesWrong("crash")
  /\ phase' = "idle"
  /\ run' = NoRun
  /\ UNCHANGED <<change, remote, local, trees, told>>

-----------------------------------------------------------------------------
Close(s) ==
  /\ "close" \in People
  /\ change[s] = "open"
  /\ Happens
  /\ change' = [change EXCEPT ![s] = "closed"]
  /\ UNCHANGED <<remote, local, trees, phase, run, told>>

(* The platform may be set to delete the branch of a merged request.       *)
Merge(s) ==
  /\ "merge" \in People
  /\ change[s] = "open"
  /\ Happens
  /\ change' = [change EXCEPT ![s] = "merged"]
  /\ remote' \in {remote, remote \ {s}}
  /\ UNCHANGED <<local, trees, phase, run, told>>

Reopen(s) ==
  /\ "reopen" \in People
  /\ change[s] = "closed" /\ s \in remote
  /\ Happens
  /\ change' = [change EXCEPT ![s] = "open"]
  /\ UNCHANGED <<remote, local, trees, phase, run, told>>

Prepare ==
  \/ \E publish, reach \in BOOLEAN : Begin(publish, reach)
  \/ \E fixable \in SUBSET Subjects : Decide(fixable)
  \/ \E s \in Subjects : Reclaim(s)
  \/ Plan
  \/ \E s \in Subjects : Create(s)
  \/ StartFixing
  \/ \E s \in Subjects, claimed, changed, verified \in BOOLEAN :
       Session(s, claimed, changed, verified)
  \/ StartSettling

Ship ==
  \/ \E s \in Subjects : Settle(s)
  \/ EndSettling
  \/ Announce
  \/ \E s \in Subjects : Push(s) \/ Propose(s)
  \/ Note

Fault ==
  \/ \E s \in Subjects :
       ReclaimFails(s) \/ CreateFails(s) \/ SettleLeft(s) \/ CommitFails(s)
  \/ NoteAborts \/ Cancel \/ Crash

Person == \E s \in Subjects : Close(s) \/ Merge(s) \/ Reopen(s)

Next == Prepare \/ Ship \/ Fault \/ Person

Spec == Init /\ [][Next]_vars

(* The schedule's runs publish and come round however many others people   *)
(* start, and a process that runs goes on.                                 *)
FairSpec == Spec /\ WF_vars(Prepare \/ Ship) /\ SF_vars(Begin(TRUE, TRUE))

-----------------------------------------------------------------------------
TypeOK ==
  /\ change \in [Subjects -> {"none", "open", "closed", "merged", "withdrawn"}]
  /\ remote \subseteq Subjects /\ trees \subseteq local /\ local \subseteq Subjects
  /\ phase \in Phases
  /\ run \in [publish : BOOLEAN, reach : BOOLEAN, heads : SUBSET Subjects,
              fixable : SUBSET Subjects, todo : SUBSET Subjects,
              blocked : SUBSET Subjects, jobs : SUBSET Subjects,
              fixed : SUBSET run.jobs, shipped : SUBSET run.fixed,
              unshipped : SUBSET run.jobs]
  /\ told \subseteq {"noted", "not-noted"} \X UNION {FindingsOf[s] : s \in Subjects}
  /\ events \in 0..MaxEvents

(* What a team is promised of the queue: one open change request about a   *)
(* subject, never more than it allows, taken off only by people            *)
(* (plan_fixes, reclaim_abandoned, propose_fixes).                         *)
Queue == INSTANCE ReviewQueue WITH
  change <- [s \in Subjects |-> IF change[s] = "merged" THEN "closed" ELSE change[s]]

QueueSpec == Queue!Spec

(* The agent never takes a change request away from its reviewers, as      *)
(* deleting its branch would (reclaim_abandoned).                          *)
NeverWithdraws ==
  [][\A s \in Subjects : change[s] = "open" => change'[s] # "withdrawn"]_vars

(* A run that ends leaves no worktree behind, and of the branches it made  *)
(* those whose fix it committed (apply, _settle, the finally clause).      *)
OnlyFixesRemain ==
  [][phase # "idle" /\ phase' = "idle" =>
       trees' = {} /\ local' \cap run.jobs \subseteq run.fixed]_vars

(* When a job's fix did not ship, a run that ends has said so on the issue *)
(* of the finding that names the job, or has put down that it could not    *)
(* (_note_unshipped, whose "not-noted" become warnings of the manifest).   *)
UnshippedIsTold ==
  [][phase = "pushing" /\ phase' = "idle" =>
       \A s \in run.jobs \ run.shipped :
         \E what \in {"noted", "not-noted"} : <<what, LeadOf[s]>> \in told']_vars

(* An issue told that no fix shipped has no change request open for it     *)
(* (_note_unshipped, propose_fixes).                                       *)
ToldIsUnshipped ==
  [][phase = "pushing" /\ phase' = "idle" =>
       \A s \in run.jobs \ run.shipped : change[s] # "open"]_vars

(* What an earlier run left behind keeps no subject from being taken up    *)
(* again for ever (reclaim_abandoned, plan_fixes).                         *)
TakenUp == \A s \in Standing : []<>(change[s] = "open" \/ s \in run.jobs)
=============================================================================
