----------------------------- MODULE ReviewQueue ----------------------------
(***************************************************************************)
(* What a team is promised about the agent's change requests, one subject  *)
(* at a time: the agent opens one where none is open, while the team has   *)
(* room for another, and only people ever take one off the queue.          *)
(***************************************************************************)
EXTENDS Naturals, FiniteSets

CONSTANTS
  Subjects,  \* what a fix is about: a pin, a file or a bundle, in one class
  MaxOpen    \* open fix requests the team allows at a time

VARIABLE change  \* the newest change request about each subject

UnderReview == {s \in Subjects : change[s] = "open"}

Init == change = [s \in Subjects |-> "none"]

Propose(s) ==
  /\ change[s] # "open"
  /\ Cardinality(UnderReview) < MaxOpen
  /\ change' = [change EXCEPT ![s] = "open"]

Answer(s) ==
  /\ change[s] = "open"
  /\ change' = [change EXCEPT ![s] = "closed"]

Next == \E s \in Subjects : Propose(s) \/ Answer(s)

Spec == Init /\ [][Next]_change
=============================================================================
