------------------------------- MODULE Checks -------------------------------
(***************************************************************************)
(* The checks a run performs, the keys its findings are known by, and what *)
(* the outcome of the checks lets a run say about a key it no longer sees. *)
(*                                                                         *)
(* A key is a model value; the segments the code reads out of the key's    *)
(* text (capability, ecosystem, "bundle", "failure", "quarantine") are     *)
(* functions and sets over it.  The outcomes of a run are a function whose *)
(* domain is the set of tasks that ran.                                    *)
(***************************************************************************)
EXTENDS Integers

CONSTANTS
  Tasks,            \* analysis tasks of a full plan, one per check and ecosystem
  FindingKeys,      \* keys of findings
  FailureKeys,      \* keys `capability:failure:reason` of failing checks
  BundleKeys,       \* finding keys that stand for a coupled bundle
  QuarantineKeys,   \* finding keys that end in `quarantine`
  CapabilityOf,     \* capability of a task or of a key
  EcosystemOf,      \* ecosystem of a task or of a key, or NoEcosystem
  MembersOf,        \* ecosystems of the member pins of a bundle key
  ReasonOf,         \* reason of a failure key
  Failures,         \* reasons a check can fail for
  NoEcosystem

Keys == FindingKeys \cup FailureKeys

ASSUME ChecksAssumption ==
  /\ FindingKeys \cap FailureKeys = {}
  /\ BundleKeys \subseteq FindingKeys
  /\ QuarantineKeys \subseteq FindingKeys
  /\ \A b \in BundleKeys : MembersOf[b] # {} /\ EcosystemOf[b] = NoEcosystem
  /\ {"clean", "findings", "gap"} \cap Failures = {}
  /\ \A f \in FailureKeys : ReasonOf[f] \in Failures

(* How a task ended.  A failed task is named by its reason; "gap" is the   *)
(* outcome `unverified` for the documented reason `no-tooling`.            *)
Outcome == {"clean", "findings", "gap"} \cup Failures

Complete == {"clean", "findings"}

Failed(outcome) == outcome \in Failures

Outcomes == UNION {[ran -> Outcome] : ran \in SUBSET Tasks}

(* The tasks that answer for a capability, or for one of its ecosystems.   *)
Owning(capability, ecosystem, outcomes) ==
  {t \in DOMAIN outcomes :
     /\ CapabilityOf[t] = capability
     /\ ecosystem # NoEcosystem => EcosystemOf[t] = ecosystem}

UnprovenFor(capability, ecosystem, outcomes) ==
  \/ Owning(capability, ecosystem, outcomes) = {}
  \/ \E t \in Owning(capability, ecosystem, outcomes) : outcomes[t] \notin Complete

(* Whether the absence of a key proves nothing: a bundle whose members are *)
(* remembered needs every member's ecosystem, anything else the check that *)
(* the key itself names.                                                   *)
Unproven(key, outcomes, members) ==
  IF members # {}
  THEN \E e \in members : UnprovenFor(CapabilityOf[key], e, outcomes)
  ELSE UnprovenFor(CapabilityOf[key], EcosystemOf[key], outcomes)

(* Keys about a package, the only ones coverage can speak about.           *)
PackageKeys == BundleKeys \cup {k \in FindingKeys : EcosystemOf[k] # NoEcosystem}

(* `short` holds the package keys the run's evidence shows it did not get  *)
(* to.  A bundle whose members are forgotten cannot be asked about.        *)
LookedAway(key, short, members) ==
  /\ key \in short
  /\ key \in BundleKeys => members # {}

(* The tasks a finding may have come from.                                 *)
Reporters(key) ==
  {t \in Tasks :
     /\ CapabilityOf[t] = CapabilityOf[key]
     /\ \/ EcosystemOf[t] = NoEcosystem
        \/ EcosystemOf[t] = EcosystemOf[key]
        \/ key \in BundleKeys /\ EcosystemOf[t] \in MembersOf[key]}

(* What a set of task results may carry: a clean result lists nothing, a   *)
(* result with findings lists something, any other may list what it has.   *)
Reportable(found, outcomes) ==
  /\ \A k \in found : \E t \in Reporters(k) \cap DOMAIN outcomes : outcomes[t] # "clean"
  /\ \A t \in DOMAIN outcomes :
       outcomes[t] = "findings" => \E k \in found : t \in Reporters(k)

(* The tasks a woken run keeps of the plan for one key: the ecosystem of a *)
(* task has to be a segment of the key.                                    *)
Narrow(key) ==
  {t \in Tasks :
     /\ CapabilityOf[t] = CapabilityOf[key]
     /\ EcosystemOf[t] \in {NoEcosystem, EcosystemOf[key]}}
=============================================================================
