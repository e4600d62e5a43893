-------------------------- MODULE FixBranchesProofs -------------------------
(***************************************************************************)
(* What holds of fix branches for any subjects, limits, faults and people, *)
(* and what the queue of change requests promises when runs publish.       *)
(***************************************************************************)
EXTENDS FixBranches, FiniteSetTheorems, TLAPS

(* What a run has done fits how far it is.                                 *)
PhaseInv ==
  /\ phase \in {"idle", "analysing", "reclaiming"} => run.jobs = {}
  /\ phase \in {"idle", "analysing", "reclaiming", "creating"} => run.fixed = {}
  /\ phase \notin {"pushing", "proposing"} => run.shipped = {}
  /\ phase \in {"creating", "fixing", "settling"} => run.todo \subseteq run.jobs
  /\ phase \in {"pushing", "proposing"} => run.todo \subseteq run.fixed

Found == UNION {FindingsOf[s] : s \in Subjects}

Told == {"noted", "not-noted"} \X Found

Records ==
  [publish : BOOLEAN, reach : BOOLEAN, heads : SUBSET Subjects, fixable : SUBSET Subjects,
   todo : SUBSET Subjects, blocked : SUBSET Subjects, jobs : SUBSET Subjects,
   fixed : SUBSET Subjects, shipped : SUBSET Subjects, unshipped : SUBSET Subjects]

(* The types, with what ties the record's fields to one another apart.     *)
TypeInv ==
  /\ change \in [Subjects -> {"none", "open", "closed", "merged", "withdrawn"}]
  /\ remote \subseteq Subjects /\ trees \subseteq local /\ local \subseteq Subjects
  /\ phase \in Phases
  /\ run \in Records
  /\ run.fixed \subseteq run.jobs /\ run.shipped \subseteq run.fixed
  /\ run.unshipped \subseteq run.jobs
  /\ told \subseteq Told
  /\ events \in 0..MaxEvents
  /\ PhaseInv

LEMMA TypesTold == TypeInv => TypeOK
BY DEF TypeInv, TypeOK, Records, Told, Found

LEMMA NoRunTyped ==
  /\ NoRun \in Records
  /\ NoRun.jobs = {} /\ NoRun.fixed = {} /\ NoRun.shipped = {} /\ NoRun.todo = {}
  /\ NoRun.unshipped = {} /\ NoRun.publish = FALSE
BY DEF NoRun, Records

(* A step of a subject of the run edits these fields of the record alone.  *)
Edited(todo, fixed, shipped, unshipped) ==
  /\ run' \in Records
  /\ run'.todo = todo
  /\ run'.fixed = fixed
  /\ run'.shipped = shipped
  /\ run'.unshipped = unshipped
  /\ run'.jobs = run.jobs /\ run'.heads = run.heads /\ run'.publish = run.publish

LEMMA EditedTodo ==
  ASSUME run \in Records, NEW todo \in SUBSET Subjects, run' = [run EXCEPT !.todo = todo]
  PROVE  Edited(todo, run.fixed, run.shipped, run.unshipped)
BY DEF Records, Edited

LEMMA EditedUnshipped ==
  ASSUME run \in Records, NEW s \in run.jobs,
         run' = [run EXCEPT !.todo = @ \ {s}, !.unshipped = @ \cup {s}]
  PROVE  Edited(run.todo \ {s}, run.fixed, run.shipped, run.unshipped \cup {s})
<1>1. run.todo \ {s} \in SUBSET Subjects /\ run.unshipped \cup {s} \in SUBSET Subjects
  BY DEF Records
<1>2. run' \in Records
  BY <1>1 DEF Records
<1> QED
  BY <1>2 DEF Records, Edited

LEMMA EditedFixed ==
  ASSUME run \in Records, NEW s \in run.jobs,
         run' = [run EXCEPT !.todo = @ \ {s}, !.fixed = @ \cup {s}]
  PROVE  Edited(run.todo \ {s}, run.fixed \cup {s}, run.shipped, run.unshipped)
<1>1. run.todo \ {s} \in SUBSET Subjects /\ run.fixed \cup {s} \in SUBSET Subjects
  BY DEF Records
<1>2. run' \in Records
  BY <1>1 DEF Records
<1> QED
  BY <1>2 DEF Records, Edited

LEMMA EditedShipped ==
  ASSUME run \in Records, NEW s \in run.jobs,
         run' = [run EXCEPT !.todo = @ \ {s}, !.shipped = @ \cup {s}]
  PROVE  Edited(run.todo \ {s}, run.fixed, run.shipped \cup {s}, run.unshipped)
<1>1. run.todo \ {s} \in SUBSET Subjects /\ run.shipped \cup {s} \in SUBSET Subjects
  BY DEF Records
<1>2. run' \in Records
  BY <1>1 DEF Records
<1> QED
  BY <1>2 DEF Records, Edited

LEMMA HappensTyped == TypeInv /\ Happens => events' \in 0..MaxEvents
BY BranchAssumption DEF TypeInv, Happens

(* What the steps that deal with one subject of the run make of it.        *)
LEMMA SessionEdits ==
  ASSUME TypeInv, NEW s, NEW claimed, NEW changed, NEW verified,
         Session(s, claimed, changed, verified)
  PROVE  /\ s \in run.todo /\ s \in run.jobs /\ phase = "fixing"
         /\ \E fixed \in {run.fixed, run.fixed \cup {s}} :
              Edited(run.todo \ {s}, fixed, run.shipped, run.unshipped)
         /\ UNCHANGED <<change, remote, local, trees, phase, told, events>>
<1>1. /\ s \in run.todo /\ s \in run.jobs /\ phase = "fixing"
      /\ run \in Records /\ run.todo \ {s} \in SUBSET Subjects
      /\ UNCHANGED <<change, remote, local, trees, phase, told, events>>
  BY DEF Session, TypeInv, PhaseInv, Records
<1>2. CASE claimed /\ Shippable(s, changed, verified)
  <2>1. run' = [run EXCEPT !.todo = @ \ {s}, !.fixed = @ \cup {s}]
    BY <1>2 DEF Session
  <2> QED
    BY <1>1, <2>1, EditedFixed
<1>3. CASE ~ (claimed /\ Shippable(s, changed, verified))
  <2>1. run' = [run EXCEPT !.todo = run.todo \ {s}]
    BY <1>1, <1>3 DEF Session, Records
  <2> QED
    BY <1>1, <2>1, EditedTodo
<1> QED
  BY <1>2, <1>3

LEMMA SettledEdits ==
  ASSUME TypeInv, NEW s, Settling(s), Settled(s)
  PROVE  /\ s \in run.todo /\ s \in run.jobs /\ phase = "settling"
         /\ \E unshipped :
              /\ unshipped = IF s \in run.fixed THEN run.unshipped ELSE run.unshipped \cup {s}
              /\ Edited(run.todo \ {s}, run.fixed, run.shipped, unshipped)
<1>1. /\ s \in run.todo /\ s \in run.jobs /\ phase = "settling"
      /\ run \in Records /\ run.todo \ {s} \in SUBSET Subjects
  BY DEF Settling, First, TypeInv, PhaseInv, Records
<1>2. CASE s \in run.fixed
  <2>1. run' = [run EXCEPT !.todo = run.todo \ {s}]
    BY <1>1, <1>2 DEF Settled, Records
  <2> QED
    BY <1>1, <1>2, <2>1, EditedTodo
<1>3. CASE s \notin run.fixed
  <2>1. run' = [run EXCEPT !.todo = @ \ {s}, !.unshipped = @ \cup {s}]
    BY <1>3 DEF Settled
  <2> QED
    BY <1>1, <1>3, <2>1, EditedUnshipped
<1> QED
  BY <1>2, <1>3

LEMMA CreateFailsEdits ==
  ASSUME TypeInv, NEW s, CreateFails(s)
  PROVE  /\ s \in run.todo /\ s \in run.jobs /\ phase = "creating"
         /\ Edited(run.todo \ {s}, run.fixed, run.shipped, run.unshipped \cup {s})
         /\ "git" \in Faults /\ events' \in 0..MaxEvents
         /\ UNCHANGED <<change, remote, local, trees, phase, told>>
<1>1. s \in run.todo /\ s \in run.jobs /\ phase = "creating" /\ run \in Records
  BY DEF CreateFails, First, TypeInv, PhaseInv
<1>2. Edited(run.todo \ {s}, run.fixed, run.shipped, run.unshipped \cup {s})
  BY <1>1, EditedUnshipped DEF CreateFails
<1> QED
  BY <1>1, <1>2, HappensTyped DEF CreateFails, GoesWrong

LEMMA NotProposedEdits ==
  ASSUME TypeInv, NEW s \in run.todo, phase \in {"pushing", "proposing"}, NotProposed(s)
  PROVE  /\ s \in run.jobs /\ phase' = "pushing"
         /\ Edited(run.todo \ {s}, run.fixed, run.shipped, run.unshipped \cup {s})
<1>1. s \in run.jobs /\ run \in Records
  BY DEF TypeInv, PhaseInv
<1> QED
  BY <1>1, EditedUnshipped DEF NotProposed

(* A push goes on to the proposal, or to the next of the run's fixes.      *)
LEMMA PushEdits ==
  ASSUME TypeInv, NEW s, Push(s)
  PROVE  /\ s \in run.todo /\ s \in run.jobs /\ phase = "pushing"
         /\ \/ run' = run /\ phase' = "proposing"
            \/ /\ phase' = "pushing"
               /\ Edited(run.todo \ {s}, run.fixed, run.shipped, run.unshipped \cup {s})
         /\ remote' \subseteq remote \cup {s} /\ events' \in 0..MaxEvents
         /\ UNCHANGED <<change, local, trees, told>>
<1>1. s \in run.todo /\ s \in run.jobs /\ phase = "pushing" /\ events \in 0..MaxEvents
  BY DEF Push, First, TypeInv, PhaseInv
<1> QED
  BY <1>1, NotProposedEdits, HappensTyped DEF Push, GoesWrong

(* A proposal opens a change request and counts as shipped, or it opens    *)
(* one and is left without its label, or it fails.                         *)
LEMMA ProposeEdits ==
  ASSUME TypeInv, NEW s, Propose(s)
  PROVE  /\ s \in run.todo /\ s \in run.jobs /\ phase = "proposing" /\ phase' = "pushing"
         /\ \/ /\ change[s] # "open" /\ change' = [change EXCEPT ![s] = "open"]
               /\ Edited(run.todo \ {s}, run.fixed, run.shipped \cup {s}, run.unshipped)
            \/ /\ \/ change' = change
                  \/ /\ "label" \in Faults
                     /\ change[s] # "open" /\ change' = [change EXCEPT ![s] = "open"]
               /\ Edited(run.todo \ {s}, run.fixed, run.shipped, run.unshipped \cup {s})
         /\ events' \in 0..MaxEvents
         /\ UNCHANGED <<remote, local, trees, told>>
<1>1. /\ s \in run.todo /\ s \in run.jobs /\ phase = "proposing" /\ run \in Records
      /\ events \in 0..MaxEvents
  BY DEF Propose, First, TypeInv, PhaseInv
<1> QED
  BY <1>1, NotProposedEdits, EditedShipped, HappensTyped DEF Propose, GoesWrong

LEMMA ForemostChosen ==
  ASSUME NEW subjects, NEW n
  PROVE  Foremost(subjects, n) \subseteq subjects
BY DEF Foremost

LEMMA WithdrawnTyped ==
  ASSUME TypeInv, NEW s \in Subjects
  PROVE  WithoutBranch(s) \in [Subjects -> {"none", "open", "closed", "merged", "withdrawn"}]
BY DEF TypeInv, WithoutBranch

LEMMA PrepareTyped ==
  ASSUME TypeInv, Prepare
  PROVE  TypeInv'
<1> USE DEF TypeInv, PhaseInv, Phases
<1>1. ASSUME NEW publish \in BOOLEAN, NEW reach \in BOOLEAN, Begin(publish, reach)
      PROVE  TypeInv'
  BY <1>1 DEF Begin, NoRun, UnderReview, Records
<1>2. ASSUME NEW fixable \in SUBSET Subjects, Decide(fixable)
      PROVE  TypeInv'
  BY <1>2 DEF Decide, Records
<1>3. ASSUME NEW s \in Subjects, Reclaim(s)
      PROVE  TypeInv'
  BY <1>3, WithdrawnTyped DEF Reclaim, Records
<1>4. CASE Plan
  BY <1>4, ForemostChosen DEF Plan, Unclaimed, Records
<1>5. ASSUME NEW s \in Subjects, Create(s)
      PROVE  TypeInv'
  BY <1>5 DEF Create, First, Records
<1>6. CASE StartFixing
  BY <1>6 DEF StartFixing, Prepared, Records
<1>7. ASSUME NEW s \in Subjects, NEW claimed \in BOOLEAN, NEW changed \in BOOLEAN,
             NEW verified \in BOOLEAN, Session(s, claimed, changed, verified)
      PROVE  TypeInv'
  BY <1>7, SessionEdits DEF Edited
<1>8. CASE StartSettling
  BY <1>8 DEF StartSettling, Prepared, Records
<1> QED
  BY <1>1, <1>2, <1>3, <1>4, <1>5, <1>6, <1>7, <1>8 DEF Prepare

(* A run that ends, in whatever way, has its record taken away.            *)
LEMMA EndTyped ==
  ASSUME TypeInv, phase' = "idle", run' = NoRun, change' = change, remote' = remote,
         local' \subseteq local, trees' \subseteq local', told' \subseteq Told,
         events' \in 0..MaxEvents
  PROVE  TypeInv'
BY NoRunTyped DEF TypeInv, PhaseInv, Phases, Told

LEMMA PostingsTyped ==
  ASSUME TypeInv, NEW untold
  PROVE  Postings(untold) \subseteq Told
<1>1. \A s \in Subjects : LeadOf[s] \in Found /\ FindingsOf[s] \subseteq Found
  BY BranchAssumption DEF Found
<1>2. run.jobs \subseteq Subjects /\ run.fixed \subseteq Subjects
  BY DEF TypeInv, Records
<1>3. Noted \subseteq Found
  BY <1>1, <1>2 DEF Noted
<1> QED
  BY <1>3 DEF Postings, Told

LEMMA ShipTyped ==
  ASSUME TypeInv, Ship
  PROVE  TypeInv'
<1> USE DEF TypeInv, PhaseInv, Phases
<1>1. ASSUME NEW s \in Subjects, Settle(s)
      PROVE  TypeInv'
  BY <1>1, SettledEdits DEF Settle, Edited
<1>2. CASE EndSettling
  BY <1>2, EndTyped DEF EndSettling, Told
<1>3. CASE Announce
  <2>1. CASE phase' = "pushing"
    BY <1>3, <2>1 DEF Announce, Shipping, Records
  <2>2. CASE phase' # "pushing"
    BY <1>3, <2>2, EndTyped, HappensTyped DEF Announce, GoesWrong, Told
  <2> QED
    BY <2>1, <2>2
<1>4. ASSUME NEW s \in Subjects, Push(s)
      PROVE  TypeInv'
  BY <1>4, PushEdits DEF Edited
<1>5. ASSUME NEW s \in Subjects, Propose(s)
      PROVE  TypeInv'
  BY <1>5, ProposeEdits DEF Edited
<1>6. CASE Note
  <2>1. told' \subseteq Told
    BY <1>6, PostingsTyped DEF Note
  <2> QED
    BY <1>6, <2>1, HappensTyped, EndTyped DEF Note, GoesWrong
<1> QED
  BY <1>1, <1>2, <1>3, <1>4, <1>5, <1>6 DEF Ship

LEMMA FaultTyped ==
  ASSUME TypeInv, Fault
  PROVE  TypeInv'
<1> USE DEF TypeInv, PhaseInv, Phases
<1>1. ASSUME NEW s \in Subjects, ReclaimFails(s)
      PROVE  TypeInv'
  BY <1>1, HappensTyped, WithdrawnTyped DEF ReclaimFails, GoesWrong, Records
<1>2. ASSUME NEW s \in Subjects, CreateFails(s)
      PROVE  TypeInv'
  BY <1>2, CreateFailsEdits DEF Edited
<1>3. ASSUME NEW s \in Subjects, SettleLeft(s)
      PROVE  TypeInv'
  BY <1>3, SettledEdits, HappensTyped DEF SettleLeft, GoesWrong, Edited
<1>4. ASSUME NEW s \in Subjects, CommitFails(s)
      PROVE  TypeInv'
  BY <1>4, HappensTyped, EndTyped DEF CommitFails, GoesWrong, Told
<1>5. CASE Cancel
  BY <1>5, HappensTyped, EndTyped DEF Cancel, GoesWrong, Told
<1>6. CASE Crash
  BY <1>6, HappensTyped, EndTyped DEF Crash, GoesWrong, Told
<1>7. CASE NoteAborts
  <2>1. told' \subseteq Told
    BY <1>7, PostingsTyped DEF NoteAborts
  <2> QED
    BY <1>7, <2>1, HappensTyped, EndTyped DEF NoteAborts, GoesWrong
<1> QED
  BY <1>1, <1>2, <1>3, <1>4, <1>5, <1>6, <1>7 DEF Fault

LEMMA PersonTyped ==
  ASSUME TypeInv, Person
  PROVE  TypeInv'
BY HappensTyped DEF TypeInv, PhaseInv, Person, Close, Merge, Reopen

LEMMA TypesKept == Spec => []TypeInv
<1>1. Init => TypeInv
  BY NoRunTyped, BranchAssumption DEF Init, TypeInv, PhaseInv, Phases
<1>2. TypeInv /\ [Next]_vars => TypeInv'
  <2>1. TypeInv /\ UNCHANGED vars => TypeInv'
    BY DEF TypeInv, PhaseInv, vars
  <2> QED
    BY <2>1, PrepareTyped, ShipTyped, FaultTyped, PersonTyped DEF Next
<1> QED
  BY <1>1, <1>2, PTL DEF Spec

(* The records of a run stay well-formed, whatever fails and whenever it   *)
(* is interrupted: it ships only what it fixed, it fixes only what it      *)
(* planned, and a worktree is on a branch that is there.                   *)
THEOREM BranchesTyped == Spec => []TypeOK
BY TypesKept, TypesTold, PTL

(* The actions of a subject, which the proofs below go through.            *)
Of(s) ==
  \/ Reclaim(s) \/ Create(s) \/ Settle(s) \/ Push(s) \/ Propose(s)
  \/ ReclaimFails(s) \/ CreateFails(s) \/ SettleLeft(s) \/ CommitFails(s)
  \/ Close(s) \/ Merge(s) \/ Reopen(s)
  \/ \E claimed, changed, verified \in BOOLEAN : Session(s, claimed, changed, verified)

(* The actions of a whole run.                                             *)
OfRun ==
  \/ \E publish, reach \in BOOLEAN : Begin(publish, reach)
  \/ \E fixable \in SUBSET Subjects : Decide(fixable)
  \/ Plan \/ StartFixing \/ StartSettling \/ EndSettling \/ Announce \/ Note
  \/ NoteAborts \/ Cancel \/ Crash

LEMMA Steps == Next <=> OfRun \/ \E s \in Subjects : Of(s)
BY Zenon DEF Next, Prepare, Ship, Fault, Person, Of, OfRun

-----------------------------------------------------------------------------
(* Every fix of a run that is shipping is still to be dealt with, shipped, *)
(* or marked as one that did not ship.                                     *)
ToldInv ==
  phase \in {"pushing", "proposing"} =>
    run.fixed \subseteq run.todo \cup run.shipped \cup run.unshipped

LEMMA ToldKept ==
  ASSUME TypeInv, ToldInv, Next
  PROVE  ToldInv'
<1> USE DEF ToldInv
<1>1. ASSUME NEW s \in Subjects, Of(s)
      PROVE  ToldInv'
  <2>1. CASE Push(s)
    BY <2>1, PushEdits DEF Edited
  <2>2. CASE Propose(s)
    BY <2>2, ProposeEdits DEF Edited
  <2>3. CASE ~ Push(s) /\ ~ Propose(s)
    BY <1>1, <2>3
    DEF Of, Reclaim, Create, Settle, Settling, Session, ReclaimFails, CreateFails, SettleLeft,
        CommitFails, Close, Merge, Reopen
  <2> QED
    BY <2>1, <2>2, <2>3
<1>2. CASE Announce
  BY <1>2 DEF Announce, Shipping, TypeInv, Records
<1>3. CASE OfRun /\ ~ Announce
  BY <1>3
  DEF OfRun, Begin, Decide, Plan, StartFixing, StartSettling, EndSettling, Note,
      NoteAborts, Cancel, Crash
<1> QED
  BY <1>1, <1>2, <1>3, Steps

(* When a job's fix did not ship, a run that ends has said so on the issue *)
(* of the finding that names the job, or has put down that it could not,   *)
(* unless the process dies first or an issue cannot be read                *)
(* (_note_unshipped).                                                      *)
THEOREM UnshippedAreTold ==
  ASSUME "crash" \notin Faults, "issue" \notin Faults
  PROVE  Spec => UnshippedIsTold
<1>1. Init => ToldInv
  BY DEF Init, ToldInv
<1>2. TypeInv /\ ToldInv /\ [Next]_vars => ToldInv'
  <2>1. ToldInv /\ UNCHANGED vars => ToldInv'
    BY DEF ToldInv, vars
  <2> QED
    BY <2>1, ToldKept
<1>3. TypeInv /\ ToldInv /\ [Next]_vars =>
        [phase = "pushing" /\ phase' = "idle" =>
           \A s \in run.jobs \ run.shipped :
             \E what \in {"noted", "not-noted"} : <<what, LeadOf[s]>> \in told']_vars
  <2> SUFFICES ASSUME TypeInv, ToldInv, Next, phase = "pushing", phase' = "idle",
                      NEW s \in run.jobs \ run.shipped
               PROVE  \E what \in {"noted", "not-noted"} : <<what, LeadOf[s]>> \in told'
    OBVIOUS
  <2>1. Note
    <3>1. ~ \E u \in Subjects : Of(u)
      <4> SUFFICES ASSUME NEW u \in Subjects, Of(u) PROVE FALSE
        OBVIOUS
      <4>1. ~ Push(u) /\ ~ Propose(u)
        BY PushEdits, ProposeEdits
      <4> QED
        BY <4>1
        DEF Of, Reclaim, Create, Settle, Settling, Session, ReclaimFails, CreateFails,
            SettleLeft, CommitFails, Close, Merge, Reopen
    <3> QED
      BY <3>1, Steps
      DEF OfRun, Begin, Decide, Plan, StartFixing, StartSettling, EndSettling, Announce,
          NoteAborts, Cancel, Crash, GoesWrong
  <2>2. s \in Subjects /\ run.todo = {}
    BY <2>1 DEF Note, TypeInv, Records
  <2>3. LeadOf[s] \in Noted
    <3>1. CASE s \in run.fixed
      <4>1. s \in run.fixed \cap run.unshipped
        BY <2>2, <3>1 DEF ToldInv
      <4> QED
        BY <4>1 DEF Noted
    <3>2. CASE s \notin run.fixed
      <4>1. LeadOf[s] \in FindingsOf[s] /\ s \in run.jobs \ run.fixed
        BY <2>2, <3>2, BranchAssumption
      <4>2. LeadOf[s] \in UNION {FindingsOf[u] : u \in run.jobs \ run.fixed}
        BY <4>1
      <4> QED
        BY <4>2 DEF Noted
    <3> QED
      BY <3>1, <3>2
  <2>4. PICK untold : told' = Postings(untold)
    BY <2>1 DEF Note
  <2>5. ASSUME NEW f \in Noted
        PROVE  \E what \in {"noted", "not-noted"} : <<what, f>> \in Postings(untold)
    BY DEF Postings
  <2> QED
    BY <2>3, <2>4, <2>5
<1> QED
  BY <1>1, <1>2, <1>3, TypesKept, PTL DEF Spec, UnshippedIsTold

-----------------------------------------------------------------------------
(* Whatever holds a worktree is prepared and not settled, and of the       *)
(* branches a run has made those are left whose fix it committed.          *)
RemainsInv ==
  /\ phase \in {"idle", "analysing", "reclaiming"} => trees = {}
  /\ phase \in {"creating", "fixing"} => run.unshipped = {}
  /\ phase = "creating" => trees \cup (local \cap run.jobs) \subseteq run.jobs \ run.todo
  /\ phase = "fixing" => trees \subseteq run.jobs
  /\ phase = "settling" =>
       trees \subseteq run.todo /\ local \cap run.jobs \subseteq run.fixed \cup run.todo
  /\ phase \in {"announcing", "pushing", "proposing"} =>
       trees = {} /\ local \cap run.jobs \subseteq run.fixed

LEMMA RemainsKept ==
  ASSUME "git" \notin Faults, "crash" \notin Faults, TypeInv, RemainsInv, Next
  PROVE  /\ RemainsInv'
         /\ phase # "idle" /\ phase' = "idle" =>
              trees' = {} /\ local' \cap run.jobs \subseteq run.fixed
<1> DEFINE Goal ==
      /\ RemainsInv'
      /\ phase # "idle" /\ phase' = "idle" =>
           trees' = {} /\ local' \cap run.jobs \subseteq run.fixed
<1> USE DEF RemainsInv
<1>1. ASSUME NEW s \in Subjects, Of(s)
      PROVE  Goal
  <2>1. CASE Push(s)
    BY <2>1, PushEdits DEF Edited
  <2>2. CASE Propose(s)
    BY <2>2, ProposeEdits DEF Edited
  <2>3. CASE Settle(s)
    BY <2>3, SettledEdits DEF Edited, Settle
  <2>4. ASSUME NEW claimed, NEW changed, NEW verified, Session(s, claimed, changed, verified)
        PROVE  Goal
    BY <2>4, SessionEdits DEF Edited
  <2>5. CASE Create(s)
    <3>1. s \in run.todo /\ Edited(run.todo \ {s}, run.fixed, run.shipped, run.unshipped)
      BY <2>5, EditedTodo DEF Create, First, TypeInv, Records
    <3> QED
      BY <2>5, <3>1 DEF Create, Edited, TypeInv, PhaseInv
  <2>6. CASE Reclaim(s) \/ ReclaimFails(s)
    BY <2>6 DEF Reclaim, ReclaimFails, GoesWrong
  <2>7. ~ CreateFails(s) /\ ~ SettleLeft(s) /\ ~ CommitFails(s)
    BY DEF CreateFails, SettleLeft, CommitFails, GoesWrong
  <2>8. CASE Close(s) \/ Merge(s) \/ Reopen(s)
    BY <2>8 DEF Close, Merge, Reopen
  <2> QED
    BY <1>1, <2>1, <2>2, <2>3, <2>4, <2>5, <2>6, <2>7, <2>8 DEF Of
<1>2. ASSUME OfRun
      PROVE  Goal
  <2>1. ASSUME NEW publish, NEW reach, Begin(publish, reach)
        PROVE  Goal
    BY <2>1 DEF Begin
  <2>2. ASSUME NEW fixable, Decide(fixable)
        PROVE  Goal
    BY <2>2 DEF Decide
  <2>3. CASE Plan
    <3>1. Foremost(Unclaimed, Room) \cap local = {}
      BY ForemostChosen DEF Unclaimed
    <3>2. run.unshipped = {}
      BY <2>3 DEF Plan, TypeInv, PhaseInv
    <3>3. run'.jobs = Foremost(Unclaimed, Room) /\ run'.unshipped = {}
      BY <2>3, <3>2 DEF Plan, TypeInv, Records
    <3> QED
      BY <2>3, <3>1, <3>3 DEF Plan
  <2>4. CASE StartFixing
    BY <2>4 DEF StartFixing, Prepared, TypeInv, Records
  <2>5. CASE StartSettling
    BY <2>5 DEF StartSettling, Prepared, TypeInv, Records
  <2>6. CASE EndSettling
    BY <2>6 DEF EndSettling
  <2>7. CASE Announce
    BY <2>7 DEF Announce, Shipping, TypeInv, Records
  <2>8. CASE Note
    BY <2>8 DEF Note
  <2>9. CASE Cancel
    BY <2>9 DEF Cancel, Prepared
  <2>10. ~ Crash
    BY DEF Crash, GoesWrong
  <2>11. CASE NoteAborts
    BY <2>11 DEF NoteAborts
  <2> QED
    BY <1>2, <2>1, <2>2, <2>3, <2>4, <2>5, <2>6, <2>7, <2>8, <2>9, <2>10, <2>11 DEF OfRun
<1> QED
  BY <1>1, <1>2, Steps

(* A run that ends, interrupted or not, leaves no worktree behind, and of  *)
(* the branches it made those whose fix it committed, as long as git does  *)
(* what it is told and the process lives (apply, _settle, the finally      *)
(* clause).                                                                *)
THEOREM OnlyFixesAreLeft ==
  ASSUME "git" \notin Faults, "crash" \notin Faults
  PROVE  Spec => OnlyFixesRemain
<1>1. Init => RemainsInv
  BY DEF Init, RemainsInv
<1>2. TypeInv /\ RemainsInv /\ [Next]_vars => RemainsInv'
  <2>1. RemainsInv /\ UNCHANGED vars => RemainsInv'
    BY DEF RemainsInv, vars
  <2> QED
    BY <2>1, RemainsKept DEF TypeInv
<1>3. TypeInv /\ RemainsInv /\ [Next]_vars =>
        [phase # "idle" /\ phase' = "idle" =>
           trees' = {} /\ local' \cap run.jobs \subseteq run.fixed]_vars
  BY RemainsKept DEF TypeInv
<1> QED
  BY <1>1, <1>2, <1>3, TypesKept, PTL DEF Spec, OnlyFixesRemain

-----------------------------------------------------------------------------
LEMMA SubjectsFinite ==
  ASSUME NEW S \in SUBSET Subjects
  PROVE  IsFiniteSet(S) /\ Cardinality(S) \in Nat
BY BranchAssumption, FS_Subset, FS_CardinalityType

(* Ship order is strict: of two subjects, more come before the later one.  *)
LEMMA MoreBefore ==
  ASSUME NEW S \in SUBSET Subjects, NEW s \in S, NEW t \in S, Rank[s] < Rank[t]
  PROVE  Cardinality({u \in S : Rank[u] < Rank[s]}) < Cardinality({u \in S : Rank[u] < Rank[t]})
<1> DEFINE Before(x) == {u \in S : Rank[u] < Rank[x]}
<1>1. Before(s) \in SUBSET Before(t) /\ s \in Before(t) /\ s \notin Before(s)
  BY BranchAssumption
<1>2. Before(s) \in SUBSET Subjects /\ Before(t) \in SUBSET Subjects
  OBVIOUS
<1> HIDE DEF Before
<1>3. /\ Cardinality(Before(s)) \in Nat /\ Cardinality(Before(t)) \in Nat
      /\ IsFiniteSet(Before(t))
  BY <1>2, SubjectsFinite
<1>4. /\ Cardinality(Before(s)) <= Cardinality(Before(t))
      /\ Cardinality(Before(t)) # Cardinality(Before(s))
  BY <1>1, <1>3, FS_Subset
<1>5. Cardinality(Before(s)) < Cardinality(Before(t))
  BY <1>3, <1>4
<1> QED
  BY <1>5 DEF Before

(* No more are foremost than were asked for.                               *)
LEMMA ForemostFew ==
  ASSUME NEW S \in SUBSET Subjects, NEW n \in Nat
  PROVE  Cardinality(Foremost(S, n)) <= n
<1> DEFINE F == Foremost(S, n)
           Before(x) == {u \in S : Rank[u] < Rank[x]}
           place == [x \in F |-> Cardinality(Before(x))]
<1>1. F \in SUBSET S /\ F \in SUBSET Subjects
  BY DEF Foremost
<1>2. ASSUME NEW x \in F PROVE Cardinality(Before(x)) \in 0..(n - 1)
  <2>1. Cardinality(Before(x)) \in Nat
    BY SubjectsFinite
  <2>2. Cardinality(Before(x)) < n
    BY DEF Foremost
  <2> QED
    BY <2>1, <2>2
<1>3. ASSUME NEW x \in F, NEW y \in F, place[x] = place[y] PROVE x = y
  <2>1. Cardinality(Before(x)) = Cardinality(Before(y))
    BY <1>3
  <2>2. Cardinality(Before(x)) \in Int
    BY <1>2
  <2>3. x \in S /\ y \in S
    BY <1>1
  <2> HIDE DEF F, place
  <2>4. ~ (Rank[x] < Rank[y]) /\ ~ (Rank[y] < Rank[x])
    BY <2>1, <2>2, <2>3, MoreBefore
  <2>5. x \in Subjects /\ y \in Subjects /\ Rank[x] \in Nat /\ Rank[y] \in Nat
    BY <2>3, BranchAssumption
  <2> QED
    BY <2>4, <2>5, BranchAssumption
<1> HIDE DEF Before, F
<1>4. place \in Injection(F, 0..(n - 1))
  BY <1>2, <1>3 DEF Injection, IsInjective
<1>5. IsFiniteSet(0..(n - 1)) /\ Cardinality(0..(n - 1)) = n
  BY FS_Interval
<1> HIDE DEF place
<1>6. Cardinality(F) <= n
  BY <1>4, <1>5, FS_Injection
<1> QED
  BY <1>6 DEF F

-----------------------------------------------------------------------------
(* Runs publish, and a closed change request stays closed: then what is    *)
(* open is what the run saw when it began, and what it has proposed since. *)
Published == Publishes \subseteq {TRUE} /\ "reopen" \notin People

Taken == IF phase \in {"pushing", "proposing"} THEN run.jobs \ run.todo ELSE {}

QueueInv ==
  /\ phase # "idle" => run.publish /\ UnderReview \subseteq run.heads \cup Taken
  /\ phase = "reclaiming" => run.todo \cap run.heads = {}
  /\ run.jobs \cap run.heads = {}
  /\ Cardinality(run.jobs) <= Room

(* What becomes of the change requests in a step: nothing, an answer of a  *)
(* person, or a proposal of the run.                                       *)
Answered(s) ==
  /\ change[s] = "open"
  /\ \E answer \in {"closed", "merged"} : change' = [change EXCEPT ![s] = answer]
  /\ UNCHANGED <<phase, run>>

Proposed(s) ==
  /\ phase = "proposing" /\ s \in run.todo /\ s \in run.jobs
  /\ phase' = "pushing"
  /\ change[s] # "open" /\ change' = [change EXCEPT ![s] = "open"]
  /\ \E shipped, unshipped : Edited(run.todo \ {s}, run.fixed, shipped, unshipped)

LEMMA ChangeSteps ==
  ASSUME Published, TypeInv, QueueInv, Next
  PROVE  \/ change' = change
         \/ \E s \in Subjects : Answered(s) \/ Proposed(s)
<1>1. ASSUME NEW s \in Subjects, Of(s)
      PROVE  change' = change \/ Answered(s) \/ Proposed(s)
  <2>1. CASE Propose(s)
    BY <2>1, ProposeEdits DEF Proposed
  <2>2. CASE Reclaim(s) \/ ReclaimFails(s)
    <3>1. phase = "reclaiming" /\ s \in run.todo
      BY <2>2 DEF Reclaim, ReclaimFails
    <3>2. change[s] # "open"
      BY <3>1 DEF QueueInv, UnderReview, Taken
    <3> QED
      BY <2>2, <3>2 DEF Reclaim, ReclaimFails, WithoutBranch
  <2>3. CASE Close(s) \/ Merge(s)
    BY <2>3 DEF Close, Merge, Answered
  <2>4. ~ Reopen(s)
    BY DEF Reopen, Published
  <2>5. CASE Push(s) \/ Create(s) \/ Settle(s) \/ CreateFails(s) \/ SettleLeft(s)
              \/ CommitFails(s) \/ \E claimed, changed, verified : Session(s, claimed, changed, verified)
    BY <2>5 DEF Push, Create, Settle, CreateFails, SettleLeft, CommitFails, Session
  <2> QED
    BY <1>1, <2>1, <2>2, <2>3, <2>4, <2>5 DEF Of
<1>2. OfRun => change' = change
  BY DEF OfRun, Begin, Decide, Plan, StartFixing, StartSettling, EndSettling, Announce, Note,
         NoteAborts, Cancel, Crash
<1> QED
  BY <1>1, <1>2, Steps

LEMMA RoomTyped ==
  ASSUME TypeInv
  PROVE  /\ Room \in Nat
         /\ IsFiniteSet(run.heads) /\ Cardinality(run.heads) \in Nat
         /\ Room > 0 => Cardinality(run.heads) + Room = MaxOpen
<1>1. IsFiniteSet(run.heads) /\ Cardinality(run.heads) \in Nat
  BY SubjectsFinite DEF TypeInv, Records
<1>2. MaxOpen \in Nat
  BY BranchAssumption
<1> QED
  BY <1>1, <1>2 DEF Room

(* A run that proposes leaves the queue within its limit.                  *)
LEMMA RoomLeft ==
  ASSUME TypeInv, QueueInv, NEW s \in Subjects, Proposed(s)
  PROVE  Cardinality(UnderReview) < MaxOpen
<1>1. /\ UnderReview \subseteq run.heads \cup (run.jobs \ {s})
      /\ s \in run.jobs /\ run.jobs \in SUBSET Subjects
  BY DEF Proposed, QueueInv, Taken, TypeInv, Records
<1>2. /\ IsFiniteSet(run.jobs) /\ Cardinality(run.jobs) \in Nat
      /\ IsFiniteSet(run.jobs \ {s}) /\ Cardinality(run.jobs \ {s}) = Cardinality(run.jobs) - 1
  BY <1>1, SubjectsFinite, FS_RemoveElement
<1>3. Cardinality(run.jobs) # 0
  BY <1>1, <1>2, FS_EmptySet
<1>4. /\ IsFiniteSet(run.heads \cup (run.jobs \ {s}))
      /\ Cardinality(run.heads \cup (run.jobs \ {s})) \in Nat
      /\ Cardinality(run.heads \cup (run.jobs \ {s})) <= Cardinality(run.heads) + Cardinality(run.jobs \ {s})
  <2>1. IsFiniteSet(run.heads)
    BY RoomTyped
  <2>2. /\ IsFiniteSet(run.heads \cup (run.jobs \ {s}))
        /\ Cardinality(run.heads \cup (run.jobs \ {s})) =
             Cardinality(run.heads) + Cardinality(run.jobs \ {s})
               - Cardinality(run.heads \cap (run.jobs \ {s}))
    BY <1>2, <2>1, FS_Union
  <2>3. Cardinality(run.heads \cap (run.jobs \ {s})) \in Nat
    BY <2>1, FS_Intersection, FS_CardinalityType
  <2>4. Cardinality(run.heads \cup (run.jobs \ {s})) \in Nat
    BY <2>2, FS_CardinalityType
  <2>5. Cardinality(run.heads) \in Nat
    BY RoomTyped
  <2> QED
    BY <1>2, <2>2, <2>3, <2>4, <2>5
<1>5. /\ Cardinality(UnderReview) \in Nat
      /\ Cardinality(UnderReview) <= Cardinality(run.heads \cup (run.jobs \ {s}))
  BY <1>1, <1>4, FS_Subset, FS_CardinalityType
<1>6. Cardinality(run.jobs) <= Room
  BY DEF QueueInv
<1>7. /\ Room \in Nat /\ Cardinality(run.heads) \in Nat
      /\ Room > 0 => Cardinality(run.heads) + Room = MaxOpen
  BY RoomTyped
<1> QED
  BY <1>2, <1>3, <1>4, <1>5, <1>6, <1>7

(* A step that edits the record of one subject keeps what was seen and     *)
(* planned.                                                                *)
LEMMA EditKeepsQueue ==
  ASSUME QueueInv, phase # "idle", NEW s, NEW fixed, NEW shipped, NEW unshipped,
         Edited(run.todo \ {s}, fixed, shipped, unshipped), phase # "reclaiming",
         \/ phase \in {"pushing", "proposing"} /\ phase' \in {"pushing", "proposing"}
         \/ phase' = phase,
         UnderReview' \subseteq UnderReview \/ Proposed(s)
  PROVE  QueueInv'
<1>1. /\ run'.heads = run.heads /\ run'.jobs = run.jobs /\ run'.publish = run.publish
      /\ run'.todo = run.todo \ {s}
  BY DEF Edited
<1>2. Room' = Room
  BY <1>1 DEF Room
<1>3. phase' # "reclaiming"
  OBVIOUS
<1>4. UnderReview' \subseteq run'.heads \cup Taken'
  <2>1. CASE UnderReview' \subseteq UnderReview
    BY <1>1, <2>1 DEF QueueInv, Taken
  <2>2. CASE Proposed(s)
    <3>1. UnderReview' \subseteq UnderReview \cup {s}
      BY <2>2 DEF Proposed, UnderReview
    <3> QED
      BY <1>1, <2>2, <3>1 DEF QueueInv, Taken, Proposed
  <2> QED
    BY <2>1, <2>2
<1> QED
  BY <1>1, <1>2, <1>3, <1>4 DEF QueueInv

LEMMA QueueEnded ==
  ASSUME phase' = "idle", run' = NoRun
  PROVE  QueueInv'
<1>1. run'.jobs = {} /\ Room' \in Nat
  <2>1. run'.heads \in SUBSET Subjects /\ run'.jobs = {}
    BY DEF NoRun
  <2>2. Cardinality(run'.heads) \in Nat /\ MaxOpen \in Nat
    BY <2>1, SubjectsFinite, BranchAssumption
  <2> QED
    BY <2>1, <2>2 DEF Room
<1>2. Cardinality(run'.jobs) = 0
  BY <1>1, FS_EmptySet
<1> QED
  BY <1>1, <1>2 DEF QueueInv

LEMMA QueueKept ==
  ASSUME Published, TypeInv, QueueInv, Next
  PROVE  QueueInv'
<1>1. ASSUME NEW s \in Subjects, Of(s)
      PROVE  QueueInv'
  <2>1. CASE Propose(s)
    <3>1. phase = "proposing" /\ phase' = "pushing" /\ s \in run.todo /\ s \in run.jobs
      BY <2>1, ProposeEdits
    <3>2. \/ change' = change
          \/ change[s] # "open" /\ change' = [change EXCEPT ![s] = "open"]
      BY <2>1, ProposeEdits
    <3>3. \E shipped, unshipped : Edited(run.todo \ {s}, run.fixed, shipped, unshipped)
      BY <2>1, ProposeEdits
    <3>4. UnderReview' \subseteq UnderReview \/ Proposed(s)
      BY <3>1, <3>2, <3>3 DEF UnderReview, Proposed
    <3> QED
      BY <3>1, <3>3, <3>4, EditKeepsQueue
  <2>2. CASE Push(s)
    <3>1. phase = "pushing" /\ UnderReview' = UnderReview
      BY <2>2, PushEdits DEF UnderReview
    <3>2. CASE run' = run /\ phase' = "proposing"
      BY <3>1, <3>2 DEF QueueInv, Taken, Room
    <3>3. CASE /\ phase' = "pushing"
               /\ Edited(run.todo \ {s}, run.fixed, run.shipped, run.unshipped \cup {s})
      BY <3>1, <3>3, EditKeepsQueue
    <3> QED
      BY <2>2, <3>2, <3>3, PushEdits
  <2>3. CASE Settle(s) \/ SettleLeft(s)
    <3>1. \E unshipped : Edited(run.todo \ {s}, run.fixed, run.shipped, unshipped)
      BY <2>3, SettledEdits DEF Settle, SettleLeft
    <3>2. phase = "settling" /\ phase' = phase /\ UnderReview' = UnderReview
      BY <2>3 DEF Settle, SettleLeft, Settling, UnderReview
    <3> QED
      BY <3>1, <3>2, EditKeepsQueue
  <2>4. ASSUME NEW claimed, NEW changed, NEW verified, Session(s, claimed, changed, verified)
        PROVE  QueueInv'
    <3>1. /\ \E fixed : Edited(run.todo \ {s}, fixed, run.shipped, run.unshipped)
          /\ phase = "fixing" /\ phase' = phase /\ UnderReview' = UnderReview
      BY <2>4, SessionEdits DEF UnderReview
    <3> QED
      BY <3>1, EditKeepsQueue
  <2>5. CASE Create(s)
    <3>1. /\ Edited(run.todo \ {s}, run.fixed, run.shipped, run.unshipped)
          /\ phase = "creating" /\ phase' = phase /\ UnderReview' = UnderReview
      BY <2>5, EditedTodo DEF Create, First, TypeInv, Records, UnderReview
    <3> QED
      BY <3>1, EditKeepsQueue
  <2>6. CASE CreateFails(s)
    <3>1. /\ Edited(run.todo \ {s}, run.fixed, run.shipped, run.unshipped \cup {s})
          /\ phase = "creating" /\ phase' = phase /\ UnderReview' = UnderReview
      BY <2>6, CreateFailsEdits DEF UnderReview
    <3> QED
      BY <3>1, EditKeepsQueue
  <2>7. CASE Reclaim(s) \/ ReclaimFails(s)
    <3>1. /\ phase = "reclaiming" /\ phase' = phase /\ s \in run.todo
          /\ run'.todo = run.todo \ {s} /\ run'.heads = run.heads /\ run'.jobs = run.jobs
          /\ run'.publish = run.publish
      BY <2>7 DEF Reclaim, ReclaimFails, TypeInv, Records
    <3>2. run' # run
      BY <3>1
    <3>3. change' = change
      BY <3>1, <3>2, ChangeSteps DEF Answered, Proposed
    <3> QED
      BY <3>1, <3>3 DEF QueueInv, UnderReview, Taken, Room
  <2>8. CASE Close(s) \/ Merge(s)
    <3>1. phase' = phase /\ run' = run
      BY <2>8 DEF Close, Merge
    <3>2. UnderReview' \subseteq UnderReview
      BY <2>8 DEF Close, Merge, UnderReview, TypeInv
    <3> QED
      BY <3>1, <3>2 DEF QueueInv, Taken, Room
  <2>9. CASE CommitFails(s)
    BY <2>9, QueueEnded DEF CommitFails
  <2>10. ~ Reopen(s)
    BY DEF Reopen, Published
  <2> QED
    BY <1>1, <2>1, <2>2, <2>3, <2>4, <2>5, <2>6, <2>7, <2>8, <2>9, <2>10 DEF Of
<1>2. ASSUME OfRun
      PROVE  QueueInv'
  <2>0. UnderReview' = UnderReview
    BY <1>2
    DEF UnderReview, OfRun, Begin, Decide, Plan, StartFixing, StartSettling, EndSettling,
        Announce, Note, NoteAborts, Cancel, Crash
  <2>1. ASSUME NEW publish \in BOOLEAN, NEW reach \in BOOLEAN, Begin(publish, reach)
        PROVE  QueueInv'
    <3>1. publish
      BY <2>1 DEF Begin, Published
    <3>2. /\ run'.heads = UnderReview /\ run'.jobs = {} /\ run'.publish
          /\ phase' = "analysing"
      BY <2>1, <3>1 DEF Begin, NoRun
    <3>3. Cardinality(run'.jobs) = 0 /\ Room' \in Nat
      <4>1. Cardinality(run'.heads) \in Nat /\ MaxOpen \in Nat
        BY <3>2, SubjectsFinite, BranchAssumption DEF UnderReview
      <4> QED
        BY <3>2, <4>1, FS_EmptySet DEF Room
    <3> QED
      BY <2>0, <3>2, <3>3 DEF QueueInv, Taken
  <2>2. ASSUME NEW fixable \in SUBSET Subjects, Decide(fixable)
        PROVE  QueueInv'
    <3>1. /\ run'.heads = run.heads /\ run'.jobs = run.jobs /\ run'.publish = run.publish
          /\ run'.todo \subseteq fixable \ run.heads
          /\ phase = "analysing" /\ phase' = "reclaiming"
      BY <2>2 DEF Decide, TypeInv, Records
    <3> QED
      BY <2>0, <3>1 DEF QueueInv, Taken, Room
  <2>3. CASE Plan
    <3>1. /\ run'.jobs = Foremost(Unclaimed, Room) /\ run'.heads = run.heads
          /\ run'.publish = run.publish /\ phase = "reclaiming" /\ phase' = "creating"
      BY <2>3 DEF Plan, TypeInv, Records
    <3>2. /\ run'.jobs \cap run.heads = {}
          /\ Unclaimed \in SUBSET Subjects
      BY <3>1, ForemostChosen DEF Unclaimed, TypeInv, Records
    <3>3. Cardinality(run'.jobs) <= Room
      BY <3>1, <3>2, ForemostFew, RoomTyped
    <3> QED
      BY <2>0, <3>1, <3>2, <3>3 DEF QueueInv, Taken, Room
  <2>4. CASE StartFixing \/ StartSettling
    <3>1. /\ run'.jobs = run.jobs /\ run'.heads = run.heads /\ run'.publish = run.publish
          /\ phase \in {"creating", "fixing"} /\ phase' \in {"fixing", "settling"}
      BY <2>4 DEF StartFixing, StartSettling, TypeInv, Records
    <3> QED
      BY <2>0, <3>1 DEF QueueInv, Taken, Room
  <2>5. CASE EndSettling
    <3>1. CASE phase' = "announcing" /\ UNCHANGED run
      BY <2>0, <2>5, <3>1 DEF EndSettling, QueueInv, Taken, Room
    <3> QED
      BY <2>5, <3>1, QueueEnded DEF EndSettling
  <2>6. CASE Announce
    <3>1. CASE phase' = "pushing" /\ run' = [run EXCEPT !.todo = Shipping]
      <4>1. /\ run'.jobs = run.jobs /\ run'.heads = run.heads /\ run'.publish = run.publish
            /\ phase = "announcing"
        BY <2>6, <3>1 DEF Announce, TypeInv, Records
      <4> QED
        BY <2>0, <3>1, <4>1 DEF QueueInv, Taken, Room
    <3> QED
      BY <2>6, <3>1, QueueEnded DEF Announce
  <2> QED
    BY <1>2, <2>1, <2>2, <2>3, <2>4, <2>5, <2>6, QueueEnded
    DEF OfRun, Note, NoteAborts, Cancel, Crash
<1> QED
  BY <1>1, <1>2, Steps

LEMMA QueueAlways ==
  ASSUME Published
  PROVE  Spec => []QueueInv
<1>1. Init => QueueInv
  <2> SUFFICES ASSUME Init PROVE QueueInv
    OBVIOUS
  <2>1. phase = "idle" /\ run.jobs = {} /\ run.heads = {}
    BY DEF Init, NoRun
  <2>2. Cardinality(run.jobs) = 0 /\ Cardinality(run.heads) = 0 /\ MaxOpen \in Nat
    BY <2>1, FS_EmptySet, BranchAssumption
  <2> QED
    BY <2>1, <2>2 DEF QueueInv, Room
<1>2. TypeInv /\ QueueInv /\ [Next]_vars => QueueInv'
  <2>1. QueueInv /\ UNCHANGED vars => QueueInv'
    BY DEF QueueInv, UnderReview, Taken, Room, vars
  <2> QED
    BY <2>1, QueueKept
<1> QED
  BY <1>1, <1>2, TypesKept, PTL DEF Spec

(* Runs that publish never take a change request away from its reviewers,  *)
(* whatever fails, unless a person reopens one while a run reclaims        *)
(* (reclaim_abandoned).                                                    *)
THEOREM NothingWithdrawn ==
  ASSUME Published
  PROVE  Spec => NeverWithdraws
<1>1. TypeInv /\ QueueInv /\ [Next]_vars =>
        [\A s \in Subjects : change[s] = "open" => change'[s] # "withdrawn"]_vars
  <2> SUFFICES ASSUME TypeInv, QueueInv, Next, NEW s \in Subjects, change[s] = "open"
               PROVE  change'[s] # "withdrawn"
    OBVIOUS
  <2> QED
    BY ChangeSteps DEF Answered, Proposed, TypeInv
<1> QED
  BY <1>1, TypesKept, QueueAlways, PTL DEF Spec, NeverWithdraws

(* Runs that publish keep what a team is promised of the queue: initial    *)
(* states map to initial states, a proposal to Propose, an answer of a     *)
(* person to Answer, and every other step, a fault too, to a stutter       *)
(* (plan_fixes, reclaim_abandoned, propose_fixes).                         *)
THEOREM QueueKeepsItsPromise ==
  ASSUME Published
  PROVE  Spec => QueueSpec
<1> DEFINE mapped == [s \in Subjects |-> IF change[s] = "merged" THEN "closed" ELSE change[s]]
<1>1. Init => Queue!Init
  BY DEF Init, Queue!Init
<1>2. TypeInv /\ QueueInv /\ [Next]_vars => [Queue!Next]_mapped
  <2> SUFFICES ASSUME TypeInv, QueueInv, [Next]_vars
               PROVE  [Queue!Next]_mapped
    OBVIOUS
  <2>1. CASE change' = change
    BY <2>1
  <2>2. ASSUME NEW s \in Subjects, Answered(s)
        PROVE  Queue!Answer(s)
    <3>1. mapped[s] = "open" /\ mapped' = [mapped EXCEPT ![s] = "closed"]
      BY <2>2 DEF Answered, TypeInv
    <3> QED
      BY <3>1 DEF Queue!Answer
  <2>3. ASSUME NEW s \in Subjects, Proposed(s)
        PROVE  Queue!Propose(s)
    <3>1. mapped[s] # "open" /\ mapped' = [mapped EXCEPT ![s] = "open"]
      BY <2>3 DEF Proposed, TypeInv
    <3>2. Queue!UnderReview = UnderReview
      BY DEF Queue!UnderReview, UnderReview
    <3>3. Cardinality(Queue!UnderReview) < MaxOpen
      BY <2>3, <3>2, RoomLeft
    <3>4. Queue!Cardinality(Queue!UnderReview) = Cardinality(Queue!UnderReview)
      BY Zenon DEF Queue!Cardinality, Cardinality
    <3> QED
      BY <3>1, <3>3, <3>4 DEF Queue!Propose
  <2>4. UNCHANGED vars => change' = change
    BY DEF vars
  <2> QED
    BY <2>1, <2>2, <2>3, <2>4, ChangeSteps DEF Queue!Next
<1> QED
  BY <1>1, <1>2, TypesKept, QueueAlways, PTL DEF Spec, QueueSpec, Queue!Spec

-----------------------------------------------------------------------------
(* What is open was open when the run began, or the run shipped it; and a  *)
(* run that announces, pushes or proposes is one that publishes.           *)
ShippedInv ==
  /\ phase \in {"announcing", "pushing", "proposing"} => run.publish
  /\ run.publish => /\ UnderReview \subseteq run.heads \cup run.shipped
                    /\ run.jobs \cap run.heads = {}

LEMMA ShippedKept ==
  ASSUME "reopen" \notin People, "label" \notin Faults, TypeInv, ShippedInv, Next
  PROVE  ShippedInv'
<1> USE DEF ShippedInv, UnderReview
<1>1. ASSUME NEW s \in Subjects, Of(s)
      PROVE  ShippedInv'
  <2>1. CASE Propose(s)
    <3>1. /\ phase = "proposing" /\ s \in run.jobs
          /\ run'.jobs = run.jobs /\ run'.heads = run.heads /\ run'.publish = run.publish
          /\ run.shipped \subseteq run'.shipped
          /\ \/ change' = change
             \/ change' = [change EXCEPT ![s] = "open"] /\ s \in run'.shipped
      BY <2>1, ProposeEdits DEF Edited
    <3>2. UnderReview' \subseteq UnderReview \cup run'.shipped
      BY <3>1 DEF TypeInv
    <3> QED
      BY <3>1, <3>2
  <2>2. CASE Push(s)
    BY <2>2, PushEdits DEF Edited
  <2>3. CASE Settle(s) \/ SettleLeft(s)
    BY <2>3, SettledEdits DEF Settle, SettleLeft, Edited
  <2>4. ASSUME NEW claimed, NEW changed, NEW verified, Session(s, claimed, changed, verified)
        PROVE  ShippedInv'
    BY <2>4, SessionEdits DEF Edited
  <2>5. CASE Create(s)
    <3>1. /\ Edited(run.todo \ {s}, run.fixed, run.shipped, run.unshipped)
          /\ change' = change /\ phase' = phase
      BY <2>5, EditedTodo DEF Create, First, TypeInv, Records
    <3> QED
      BY <3>1 DEF Edited
  <2>6. CASE CreateFails(s)
    BY <2>6, CreateFailsEdits DEF Edited
  <2>7. CASE Reclaim(s) \/ ReclaimFails(s)
    <3>1. /\ run'.heads = run.heads /\ run'.jobs = run.jobs /\ run'.publish = run.publish
          /\ run'.shipped = run.shipped /\ phase' = phase
      BY <2>7 DEF Reclaim, ReclaimFails, TypeInv, Records
    <3>2. UnderReview' \subseteq UnderReview
      BY <2>7 DEF Reclaim, ReclaimFails, WithoutBranch, TypeInv
    <3> QED
      BY <3>1, <3>2
  <2>8. CASE Close(s) \/ Merge(s)
    <3>1. run' = run /\ phase' = phase
      BY <2>8 DEF Close, Merge
    <3>2. UnderReview' \subseteq UnderReview
      BY <2>8 DEF Close, Merge, TypeInv
    <3> QED
      BY <3>1, <3>2
  <2>9. CASE CommitFails(s)
    BY <2>9 DEF CommitFails, NoRun
  <2>10. ~ Reopen(s)
    BY DEF Reopen
  <2> QED
    BY <1>1, <2>1, <2>2, <2>3, <2>4, <2>5, <2>6, <2>7, <2>8, <2>9, <2>10 DEF Of
<1>2. ASSUME OfRun
      PROVE  ShippedInv'
  <2>0. change' = change
    BY <1>2
    DEF OfRun, Begin, Decide, Plan, StartFixing, StartSettling, EndSettling, Announce, Note,
        NoteAborts, Cancel, Crash
  <2>1. ASSUME phase' = "idle", run' = NoRun PROVE ShippedInv'
    BY <2>1, NoRunTyped
  <2>2. ASSUME NEW publish \in BOOLEAN, NEW reach \in BOOLEAN, Begin(publish, reach)
        PROVE  ShippedInv'
    BY <2>0, <2>2 DEF Begin, NoRun
  <2>3. ASSUME NEW fixable \in SUBSET Subjects, Decide(fixable)
        PROVE  ShippedInv'
    BY <2>0, <2>3 DEF Decide, TypeInv, Records
  <2>4. CASE Plan
    <3>1. /\ run'.jobs = Foremost(Unclaimed, Room) /\ run'.heads = run.heads
          /\ run'.publish = run.publish /\ run'.shipped = run.shipped /\ phase' = "creating"
      BY <2>4 DEF Plan, TypeInv, Records
    <3>2. run'.jobs \cap run.heads = {}
      BY <3>1, ForemostChosen DEF Unclaimed
    <3> QED
      BY <2>0, <3>1, <3>2
  <2>5. CASE StartFixing \/ StartSettling
    BY <2>0, <2>5 DEF StartFixing, StartSettling, TypeInv, Records
  <2>6. CASE EndSettling
    BY <2>0, <2>1, <2>6 DEF EndSettling
  <2>7. CASE Announce
    <3>1. CASE phase' = "pushing" /\ run' = [run EXCEPT !.todo = Shipping]
      BY <2>0, <2>7, <3>1 DEF Announce, TypeInv, Records
    <3> QED
      BY <2>1, <2>7, <3>1 DEF Announce
  <2> QED
    BY <1>2, <2>1, <2>2, <2>3, <2>4, <2>5, <2>6, <2>7
    DEF OfRun, Note, NoteAborts, Cancel, Crash
<1> QED
  BY <1>1, <1>2, Steps

(* An issue told that no fix shipped has no change request open for it, as *)
(* long as every request gets its label and nobody reopens one             *)
(* (_note_unshipped, propose_fixes).                                       *)
THEOREM ToldAreUnshipped ==
  ASSUME "reopen" \notin People, "label" \notin Faults
  PROVE  Spec => ToldIsUnshipped
<1>1. Init => ShippedInv
  BY DEF Init, ShippedInv, NoRun
<1>2. TypeInv /\ ShippedInv /\ [Next]_vars => ShippedInv'
  <2>1. ShippedInv /\ UNCHANGED vars => ShippedInv'
    BY DEF ShippedInv, UnderReview, vars
  <2> QED
    BY <2>1, ShippedKept
<1>3. TypeInv /\ ShippedInv /\ [Next]_vars =>
        [phase = "pushing" /\ phase' = "idle" =>
           \A s \in run.jobs \ run.shipped : change[s] # "open"]_vars
  BY DEF ShippedInv, UnderReview, TypeInv, Records
<1> QED
  BY <1>1, <1>2, <1>3, TypesKept, PTL DEF Spec, ToldIsUnshipped
=============================================================================
