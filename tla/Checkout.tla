------------------------------ MODULE Checkout ------------------------------
(***************************************************************************)
(* The repository's own checkout, watched while sessions run: what a       *)
(* session writes there is copied away and put back when a session ends,   *)
(* and the attempt of a fixer that did it is refused.                      *)
(*                                                                         *)
(* A session writes at any time; the restore of another one runs in a      *)
(* thread, under a lock, one git command after another.  A path is put     *)
(* back to what git has staged for it, which a session may have changed.   *)
(***************************************************************************)
EXTENDS Naturals, FiniteSets

CONSTANTS
  Fixers, Analysts,  \* attempts of fix tasks and of analysis tasks
  Paths,             \* files of the checkout
  Uncommitted,       \* those a developer had changed when the run started
  Limits,            \* how many sessions a run may have at once
  MaxWrites,         \* bound on the stray writes of a run
  Faults             \* what may go wrong: a session fails; git cannot tell the
                     \*   status, or check a path out; a step of the restore raises

Sessions == Fixers \cup Analysts

ASSUME CheckoutAssumption ==
  /\ Fixers \cap Analysts = {}
  /\ Sessions \cap {"clean", "developer", "nobody"} = {}
  /\ Uncommitted \subseteq Paths
  /\ Limits \subseteq Nat \ {0} /\ MaxWrites \in Nat
  /\ Faults \subseteq {"session", "status", "git", "restore"}

VARIABLES
  parallel, \* how many sessions this run has at once
  content,  \* who wrote what a path holds
  index,    \* who wrote what is staged for it
  before,   \* the paths that were dirty when last looked at
  session,  \* how far each session is
  holder,   \* the session that holds the lock of the restore
  pending,  \* paths still to be put back
  copied,   \* the path that was copied and not put back yet
  kept,     \* whose writes are kept in the run record, by path
  writes    \* the paths each session wrote

vars == <<parallel, content, index, before, session, holder, pending, copied, kept, writes>>

States == {"waiting", "running", "ended", "restoring", "failed", "refused", "accepted"}

Staged == {p \in Paths : index[p] # "clean"}

Dirty == {p \in Paths : content[p] # "clean"} \cup Staged

(* A status that cannot be read reads as a clean checkout.                 *)
ReadDirty == {Dirty} \cup (IF "status" \in Faults THEN {{}} ELSE {})

Init ==
  /\ parallel \in Limits
  /\ content = [p \in Paths |-> IF p \in Uncommitted THEN "developer" ELSE "clean"]
  /\ \E added \in SUBSET Uncommitted :
       index = [p \in Paths |-> IF p \in added THEN "developer" ELSE "clean"]
  /\ before \in ReadDirty
  /\ session = [s \in Sessions |-> "waiting"]
  /\ holder = "nobody"
  /\ pending = {} /\ copied = {}
  /\ kept = [p \in Paths |-> {}]
  /\ writes = [s \in Sessions |-> {}]

Busy == {s \in Sessions : session[s] \in {"running", "ended", "restoring"}}

(* Fixing begins once the analysis is complete.                            *)
Begin(s) ==
  /\ session[s] = "waiting"
  /\ s \in Fixers => \A a \in Analysts : session[a] \in {"failed", "refused", "accepted"}
  /\ Cardinality(Busy) < parallel
  /\ session' = [session EXCEPT ![s] = "running"]
  /\ UNCHANGED <<parallel, content, index, before, holder, pending, copied, kept, writes>>

(* A backend whose file tools are not confined writes into the checkout,   *)
(* and may stage what it wrote.                                            *)
Write(s, p, staged) ==
  /\ session[s] = "running"
  /\ Cardinality({w \in Sessions \X Paths : w[2] \in writes[w[1]]}) < MaxWrites
  /\ content' = [content EXCEPT ![p] = s]
  /\ index' = IF staged THEN [index EXCEPT ![p] = s] ELSE index
  /\ writes' = [writes EXCEPT ![s] = @ \cup {p}]
  /\ UNCHANGED <<parallel, before, session, holder, pending, copied, kept>>

(* The checkout is not looked at after a session that failed.              *)
Fail(s) ==
  /\ "session" \in Faults
  /\ session[s] = "running"
  /\ session' = [session EXCEPT ![s] = "failed"]
  /\ UNCHANGED <<parallel, content, index, before, holder, pending, copied, kept, writes>>

End(s) ==
  /\ session[s] = "running"
  /\ session' = [session EXCEPT ![s] = "ended"]
  /\ UNCHANGED <<parallel, content, index, before, holder, pending, copied, kept, writes>>

-----------------------------------------------------------------------------
(* Mutant: what was dirty before is put back as well.                      *)
AppearedAtAll(dirty) == dirty

Appeared(dirty) == dirty \ before

List(s) ==
  /\ session[s] = "ended"
  /\ holder = "nobody"
  /\ \E dirty \in ReadDirty :
       IF Appeared(dirty) = {}
       THEN session' = [session EXCEPT ![s] = "accepted"] /\ UNCHANGED <<parallel, holder, pending>>
       ELSE /\ session' = [session EXCEPT ![s] = "restoring"]
            /\ holder' = s
            /\ pending' = Appeared(dirty)
  /\ UNCHANGED <<parallel, content, index, before, copied, kept, writes>>

Restoring(s) == session[s] = "restoring" /\ holder = s

(* Mutant: a path is put back before it is copied.                         *)
CopyNothing(s, p) ==
  /\ Restoring(s)
  /\ p \in pending /\ copied = {}
  /\ copied' = {p}
  /\ UNCHANGED <<parallel, content, index, before, session, holder, pending, kept, writes>>

Copy(s, p) ==
  /\ Restoring(s)
  /\ p \in pending /\ copied = {}
  /\ copied' = {p}
  /\ kept' = [kept EXCEPT ![p] = @ \cup {content[p]}]
  /\ UNCHANGED <<parallel, content, index, before, session, holder, pending, writes>>

(* Git restores what is staged, and nobody asks whether it did; a file it  *)
(* knows nothing of is removed.                                            *)
AsRestored(p) == {index[p]} \cup (IF "git" \in Faults THEN {content[p]} ELSE {})

PutBack(s, p) ==
  /\ Restoring(s)
  /\ p \in copied
  /\ \E restored \in AsRestored(p) : content' = [content EXCEPT ![p] = restored]
  /\ copied' = {}
  /\ pending' = pending \ {p}
  /\ UNCHANGED <<parallel, index, before, session, holder, kept, writes>>

(* A git command that takes too long, or a file that cannot be copied or   *)
(* removed, ends the run: no session goes on.                              *)
Raises(s) ==
  /\ "restore" \in Faults
  /\ Restoring(s)
  /\ session' = [t \in Sessions |->
       IF session[t] \in {"refused", "accepted"} THEN session[t] ELSE "failed"]
  /\ holder' = "nobody"
  /\ pending' = {} /\ copied' = {}
  /\ UNCHANGED <<parallel, content, index, before, kept, writes>>

(* Mutant: what was put back counts as looked at, as before it was.        *)
SnapshotOfStrays == {before \cup writes[holder]}

Snapshot == ReadDirty

(* Mutant: a fixer that wrote into the checkout is believed.               *)
RestoredBelieving(s) ==
  /\ Restoring(s)
  /\ pending = {}
  /\ before' \in Snapshot
  /\ holder' = "nobody"
  /\ session' = [session EXCEPT ![s] = "accepted"]
  /\ UNCHANGED <<parallel, content, index, pending, copied, kept, writes>>

(* An analyst's result is read all the same, a fixer's attempt is refused. *)
Restored(s) ==
  /\ Restoring(s)
  /\ pending = {}
  /\ before' \in Snapshot
  /\ holder' = "nobody"
  /\ session' = [session EXCEPT ![s] = IF s \in Fixers THEN "refused" ELSE "accepted"]
  /\ UNCHANGED <<parallel, content, index, pending, copied, kept, writes>>

Next ==
  \/ \E s \in Sessions : Begin(s) \/ Fail(s) \/ End(s) \/ List(s) \/ Restored(s) \/ Raises(s)
  \/ \E s \in Sessions, p \in Paths :
       (\E staged \in BOOLEAN : Write(s, p, staged)) \/ Copy(s, p) \/ PutBack(s, p)

Spec == Init /\ [][Next]_vars

-----------------------------------------------------------------------------
TypeOK ==
  /\ parallel \in Limits
  /\ content \in [Paths -> Sessions \cup {"clean", "developer"}]
  /\ index \in [Paths -> Sessions \cup {"clean", "developer"}]
  /\ before \subseteq Paths
  /\ session \in [Sessions -> States]
  /\ holder \in Sessions \cup {"nobody"}
  /\ \A s \in Sessions : session[s] = "restoring" <=> holder = s
  /\ pending \subseteq Paths /\ copied \subseteq pending
  /\ holder = "nobody" => pending = {}
  /\ kept \in [Paths -> SUBSET (Sessions \cup {"clean", "developer"})]
  /\ writes \in [Sessions -> SUBSET Paths]

(* What a developer had not committed when the run started is never put    *)
(* back by the agent, however sessions overlap (Checkout.restore).         *)
DeveloperWorkStays ==
  [][\A p \in Paths : content[p] = "developer" => content'[p] # "clean"]_vars

(* Where sessions take turns, nothing is only deleted: what is put back is  *)
(* in the run record (Checkout._put_back).                                 *)
StraysKept ==
  [][parallel = 1 => \A s \in Sessions, p \in Paths :
       PutBack(s, p) => content[p] \in kept[p]]_vars

(* Where sessions take turns and all of them end as they should, a checkout *)
(* with no session busy holds nothing that was not there when the run      *)
(* started, but for overwritten work and what is staged (Checkout.restore). *)
CheckoutPutBack ==
  parallel = 1 /\ Busy = {} /\ (\A s \in Sessions : session[s] # "failed") =>
    Dirty \subseteq Uncommitted \cup Staged

(* What other sessions wrote and left staged.                              *)
LeftBefore(s) == {p \in Staged : \E t \in Sessions \ {s} : p \in writes[t]}

(* Where sessions take turns, a fixer whose result is read wrote nothing   *)
(* into the checkout that was not a change there already (run_attempts).   *)
AcceptedIsClean ==
  parallel = 1 => \A s \in Fixers :
    session[s] = "accepted" => writes[s] \subseteq Uncommitted \cup LeftBefore(s)
=============================================================================
