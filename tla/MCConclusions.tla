--------------------------- MODULE MCConclusions ----------------------------
(***************************************************************************)
(* A dependency check and a code review, which may report under the other  *)
(* check's name: advisories and pins of two packages, one of them on a     *)
(* page, members of a bundle, paths in it, and code findings in two        *)
(* symbols of a file that cite nothing.                                    *)
(***************************************************************************)
EXTENDS Conclusions

Blank ==
  [capability |-> "none", class |-> "routine", severity |-> "low", subject |-> "none",
   kind |-> "none", slug |-> "none", symbol |-> "none", summary |-> "none", bundle |-> "none",
   evidence |-> {}, advisories |-> {}, forbidden |-> FALSE, unlock |-> FALSE, members |-> {}]

Advisory == [Blank EXCEPT !.subject = "a", !.kind = "vulnerable", !.class = "security",
  !.severity = "high", !.evidence = {"a@api"}, !.advisories = {"x"}]
Another == [Advisory EXCEPT !.capability = "deps", !.severity = "low", !.advisories = {"y"},
  !.evidence = {"b@page"}, !.unlock = TRUE]
Old == [Blank EXCEPT !.subject = "a", !.kind = "outdated", !.bundle = "set",
  !.evidence = {"a@api"}]
Older == [Old EXCEPT !.subject = "b", !.evidence = {"b@page"}]
Young == [Old EXCEPT !.kind = "quarantine", !.subject = "b", !.forbidden = TRUE]
Held == [Young EXCEPT !.class = "security", !.forbidden = FALSE, !.evidence = {"a@api"}]
Floating == [Old EXCEPT !.kind = "floating"]
Smell == [Blank EXCEPT !.subject = "file", !.slug = "leak", !.class = "security",
  !.severity = "critical"]
Elsewhere == [Smell EXCEPT !.symbol = "method"]
Generated == [Smell EXCEPT !.bundle = "set", !.summary = "generated file lags", !.evidence = {"a@api"}]
Lagging == [Generated EXCEPT !.summary = "plugin and crate differ", !.unlock = TRUE]
Nameless == [Advisory EXCEPT !.kind = "none"]

Listing(outcome, reason, items) == [outcome |-> outcome, reason |-> reason, listed |-> items]

MCFiles ==
  {Unwritten, Listing("clean", "none", << >>), Listing("unverified", "no-tooling", << >>),
   Listing("findings", "none", <<Advisory>>), Listing("findings", "none", <<Another>>),
   Listing("findings", "none", <<Another, Advisory>>),
   Listing("findings", "none", <<Old, Young, Smell, Elsewhere>>),
   Listing("findings", "none", <<Older, Old, Generated, Lagging>>), Listing("findings", "none", <<Held, Floating>>),
   Listing("exhausted", "none", <<Older>>)}

MCRows ==
  {[class |-> "security", severities |-> {"critical", "high"}, blocks |-> TRUE],
   [class |-> "security", severities |-> {"medium", "low"}, blocks |-> FALSE],
   [class |-> "routine", severities |-> {"critical"}, blocks |-> TRUE],
   [class |-> "routine", severities |-> {"high", "medium", "low"}, blocks |-> FALSE]}

MCOrder == <<"deps-py", "review">>

MCBucketOf == ("a@api" :> "deps:py") @@ ("b@page" :> "deps:py")

MCFailureKeys == {"deps:exhausted", "review:invalid"}

MCCapabilityOf ==
  [x \in {"deps-py", "deps:exhausted"} |-> "deps"] @@
  [x \in {"review", "review:invalid"} |-> "review"]

MCReasonOf == ("deps:exhausted" :> "exhausted") @@ ("review:invalid" :> "invalid-result")

MCEcosystemOf == ("deps-py" :> "py") @@ ("review" :> "none")

MCMembersOf == << >>
=============================================================================
