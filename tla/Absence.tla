------------------------------ MODULE Absence -------------------------------
(***************************************************************************)
(* How long a tracked finding has gone unreported and when that closes its *)
(* issue: the streak arithmetic of one run over the document the last runs *)
(* left.  A document's `absent` maps a finding key to the complete runs    *)
(* that did not list it, 0 when nothing is remembered; `bundles` holds the *)
(* bundle keys whose member pins are remembered.                           *)
(***************************************************************************)
EXTENDS Checks

CONSTANT Threshold  \* complete runs without a finding before its issue closes

ASSUME ThresholdAssumption == Threshold \in Nat \ {0}

(* Mutant: what a bundle holds is never looked up.                         *)
MembersForgotten(key, bundles) == {}

(* The member ecosystems a document remembers for a key.                   *)
Members(key, bundles) == IF key \in bundles THEN MembersOf[key] ELSE {}

(* The first two gates: the run knows something about the key's subject.   *)
Speaks(key, outcomes, short, bundles) ==
  /\ ~ Unproven(key, outcomes, Members(key, bundles))
  /\ ~ LookedAway(key, short, Members(key, bundles))

(* The issues one complete answer is enough to close.                      *)
SettlesAtOnce(key, asked) ==
  \/ key \in FailureKeys
  \/ key \in asked /\ key \notin QuarantineKeys

(* Whether the answer of this run, added to the streak, closes the issue.  *)
EnoughRuns(key, absent) == absent[key] + 1 >= Threshold

Closes(key, asked, absent) ==
  \/ SettlesAtOnce(key, asked)
  \/ key \in FindingKeys /\ EnoughRuns(key, absent)

(* Mutant: a run that could not look counts like one that could.           *)
CarriedBlindly(kept, key, absent, speaks) ==
  IF key \in FindingKeys THEN [kept EXCEPT ![key] = absent[key] + 1] ELSE kept

(* Mutant: a complete run without the finding is not counted.              *)
CarriedFlat(kept, key, absent, speaks) ==
  IF key \in FindingKeys THEN [kept EXCEPT ![key] = absent[key]] ELSE kept

(* The streak and the bundle members to carry for a key left open.         *)
Carried(kept, key, absent, speaks) ==
  IF key \in FindingKeys
  THEN [kept EXCEPT ![key] = IF speaks THEN absent[key] + 1 ELSE absent[key]]
  ELSE kept

CarriedBundles(keptBundles, key, bundles) == keptBundles \cup ({key} \cap bundles)

(* A reported key forgets its streak; a bundle's members are remembered.   *)
ReportedBundles(keptBundles, key) == keptBundles \cup ({key} \cap BundleKeys)

NoStreak == [k \in FindingKeys |-> 0]
=============================================================================
