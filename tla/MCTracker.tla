----------------------------- MODULE MCTracker ------------------------------
(***************************************************************************)
(* Small trackers for TLC.  Keys are short names; a cfg picks the ones a   *)
(* question needs.                                                         *)
(*                                                                         *)
(*   pin, pin2  two packages of the python ecosystem                       *)
(*   hold       a finding of another kind on pin                           *)
(*   adv        the issue of one advisory on pin, which the issue about    *)
(*              the vulnerable pin replaces                                *)
(*   act        an action pin in quarantine, of the github ecosystem       *)
(*   pair       a bundle of a python and a github member                   *)
(*   code, name, alias   names of one code finding                         *)
(*   batch      a bundle of code findings, of which `code` is one          *)
(*   down       the dependency check failing for the reason `timeout`      *)
(***************************************************************************)
EXTENDS TrackerInvariants, TLC

MCCapabilityOf ==
  [x \in {"code", "name", "alias", "batch", "review"} |-> "review"] @@
  [x \in {"pin", "hold", "pin2", "adv", "act", "pair", "down", "deps-py", "deps-gh"} |-> "deps"]

MCEcosystemOf ==
  [x \in {"pin", "hold", "pin2", "adv", "deps-py"} |-> "py"] @@
  [x \in {"act", "deps-gh"} |-> "gh"] @@
  [x \in {"pair", "code", "name", "alias", "batch", "down", "review"} |-> "none"]

MCMembersOf == [x \in {"pair"} |-> {"py", "gh"}] @@ [x \in {"batch"} |-> {"none"}]

MCReasonOf == [x \in {"down"} |-> "timeout"]

(* Findings about one package count under one subject.                     *)
MCSubjectOf ==
  [x \in {"pin", "hold", "adv"} |-> "pin"] @@
  [x \in {"pin2", "act", "pair", "code", "name", "alias", "batch", "down"} |-> x]

MCFingerprintOf ==
  [x \in {"code", "name", "alias"} |-> "fn"] @@
  [x \in {"pin", "hold", "pin2", "adv", "act", "pair", "batch", "down"} |-> "no-fingerprint"]

(* Only where those keys occur.                                            *)
MCSupersedes ==
  [x \in Keys |-> FindingKeys \cap (IF x = "pin" THEN {"adv"}
                                    ELSE IF x = "pair" THEN {"act"}
                                    ELSE IF x = "batch" THEN {"code"} ELSE {})]

MCRank ==
  [down |-> 0, adv |-> 1, pin2 |-> 2, pin |-> 3, hold |-> 9, act |-> 4, pair |-> 5,
   code |-> 6, name |-> 7, alias |-> 8, batch |-> 10]

NothingInherited == << >>

AnAdvisory == <<[key |-> "adv", open |-> TRUE, stamp |-> FALSE]>>
=============================================================================
