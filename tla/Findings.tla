------------------------------ MODULE Findings ------------------------------
(***************************************************************************)
(* What a run makes of the findings its checks report: which results are   *)
(* read at all, what identifies a finding, how reports of one problem and  *)
(* members of one bundle become one finding, and what it may then do.      *)
(*                                                                         *)
(* A finding keeps what the key, the merging and the verdict look at; its  *)
(* rationale, remediation, target, location and path through the           *)
(* dependency graph are wording here.  Names stand for themselves: a slug  *)
(* is normalised, as is the summary, which is one only where a key takes   *)
(* it; an ecosystem is part of its package.  "none" stands for a field     *)
(* that is left empty.                                                     *)
(***************************************************************************)
EXTENDS SequencesExt, TLC

CONSTANTS
  Packages,       \* subjects that are packages
  Paths,          \* subjects that are paths of the repository
  Sound,          \* records of evidence that are reproducible
  Rows,           \* the rows of the library's table: [class, severities, blocks]
  ForbiddenBlocks \* what its row of forbidden states says

Severities == {"low", "medium", "high", "critical"}
Classes == {"routine", "security"}
PackageKinds == {"quarantine", "unknown_age", "floating", "outdated", "bundle", "vulnerable"}

(* The results a session may state, and the reasons it may give.           *)
Results == {"findings", "clean", "unverified", "exhausted"}
Stateable == {"no-tooling", "unavailable", "unexpected-shape", "not-permitted"}

SeverityRank == [low |-> 0, medium |-> 1, high |-> 2, critical |-> 3]
ClassRank == [routine |-> 0, security |-> 1]
KindRank ==
  [none |-> 0, outdated |-> 1, quarantine |-> 2, unknown_age |-> 2, bundle |-> 3, floating |-> 4,
   vulnerable |-> 5]

(* The table has to state every combination exactly once, or no run starts. *)
ASSUME PolicyAssumption ==
  \A class \in Classes, severity \in Severities :
    \E row \in Rows :
      {r \in Rows : r.class = class /\ severity \in r.severities} = {row}

Blocking ==
  {pair \in Classes \X Severities :
     \E row \in Rows : row.blocks /\ row.class = pair[1] /\ pair[2] \in row.severities}

-----------------------------------------------------------------------------
(* A subject is a package or a path, and not both.                         *)
Subjected(item) == item.subject \in Packages \cup Paths

(* What the key will rest on has to be said in a word: the kind of what is *)
(* wrong with a package, the slug of what is wrong in a file.              *)
Kinded(item) ==
  /\ item.kind \in PackageKinds \cup {"none"}
  /\ item.subject \in Packages => item.kind # "none"

Slugged(item) == item.subject \in Paths => item.slug # "none"

(* A listed finding is read when it cites only records of the run.         *)
Readable(item, known) ==
  /\ item.evidence \subseteq known
  /\ item.class \in Classes /\ item.severity \in Severities
  /\ Subjected(item) /\ Kinded(item) /\ Slugged(item)

(* A result file that is not there or is no result is Unwritten.           *)
Unwritten == [outcome |-> "none", reason |-> "none", listed |-> << >>]

Valid(file, known) ==
  /\ file.outcome \in Results
  /\ file.reason \in Stateable \cup {"none"}
  /\ file.outcome = "unverified" => file.reason # "none"
  /\ \A item \in ToSet(file.listed) : Readable(item, known)
  /\ file.outcome = "clean" => file.listed = << >>
  /\ file.outcome = "findings" => file.listed # << >>

(* The finding that a listed item becomes in a task of this capability.    *)
Named(name, otherwise) == IF name # "none" THEN name ELSE otherwise

Read(item, capability) ==
  [item EXCEPT !.capability = Named(@, capability), !.advisories = @ \ {"none"}, !.members = {}]

-----------------------------------------------------------------------------
(* What tells two problems of one subject apart.  Every advisory against a *)
(* package is one problem.                                                 *)
Identity(f) ==
  IF f.kind = "vulnerable" THEN {"vulnerable"}
  ELSE IF f.advisories # {} THEN f.advisories
  ELSE {f.kind}

(* Where nothing of the kind was said, as of a path in a bundle, the       *)
(* summary has to tell.                                                    *)
Worded(f) == IF Identity(f) = {"none"} THEN f.summary ELSE "none"

(* A code finding is known by its slug and by the symbol it is in.         *)
Key(f) ==
  LET coded == f.bundle = "none" /\ f.subject \notin Packages
  IN [capability |-> f.capability, bundle |-> f.bundle,
      subject |-> IF f.bundle = "none" THEN f.subject ELSE "none",
      about |-> IF coded THEN {f.slug} ELSE Identity(f),
      word |-> IF coded THEN f.symbol ELSE Worded(f)]

Stronger(rank, a, b) == IF rank[a] >= rank[b] THEN a ELSE b

(* Mutant: the kind of neither is kept.                                    *)
StricterUnkinded(first, second) ==
  [first EXCEPT !.kind = "none", !.class = Stronger(ClassRank, @, second.class),
                !.severity = Stronger(SeverityRank, @, second.severity),
                !.evidence = @ \cup second.evidence, !.advisories = @ \cup second.advisories,
                !.forbidden = @ \/ second.forbidden, !.unlock = @ \/ second.unlock]

(* Mutant: only the judgement that prevails says whether a person is asked. *)
StricterAlone(first, second) ==
  LET class == Stronger(ClassRank, first.class, second.class)
      severity == Stronger(SeverityRank, first.severity, second.severity)
      winner == IF first.class = class /\ first.severity = severity THEN first ELSE second
  IN [winner EXCEPT !.class = class, !.severity = severity,
        !.evidence = first.evidence \cup second.evidence,
        !.advisories = first.advisories \cup second.advisories]

(* Two reports of one problem: the higher class and the higher severity,   *)
(* whichever of them said so, and all that either of them rests on.        *)
Stricter(first, second) ==
  LET class == Stronger(ClassRank, first.class, second.class)
      severity == Stronger(SeverityRank, first.severity, second.severity)
      winner == IF first.class = class /\ first.severity = severity THEN first ELSE second
  IN [winner EXCEPT
        !.class = class,
        !.severity = severity,
        !.evidence = first.evidence \cup second.evidence,
        !.advisories = first.advisories \cup second.advisories,
        !.slug = Named(@, Named(first.slug, second.slug)),
        !.symbol = Named(@, Named(first.symbol, second.symbol)),
        !.kind = Named(@, Named(first.kind, second.kind)),
        !.bundle = Named(@, Named(first.bundle, second.bundle)),
        !.forbidden = first.forbidden \/ second.forbidden,
        !.unlock = first.unlock \/ second.unlock,
        !.members = first.members \cup second.members]

(* One finding per key, in the order in which they were reported.          *)
File(book, f) ==
  [key \in DOMAIN book \cup {Key(f)} |->
     IF key # Key(f) THEN book[key]
     ELSE IF key \in DOMAIN book THEN Stricter(book[key], f)
     ELSE f]

Merge(reports) == Range(FoldLeft(File, << >>, reports))

-----------------------------------------------------------------------------
Highest(rank, values) == CHOOSE v \in values : \A w \in values : rank[w] <= rank[v]

(* The kind that ranks highest; of two that rank the same, the kind of the *)
(* finding that comes first: the higher class, then the higher severity,   *)
(* then by name.                                                           *)
Heavier(f, g) ==
  \/ ClassRank[f.class] > ClassRank[g.class]
  \/ f.class = g.class /\ SeverityRank[f.severity] > SeverityRank[g.severity]
  \/ f.class = g.class /\ f.severity = g.severity /\ f.kind = "quarantine"

CombinedKind(group) ==
  LET top == {f \in group : \A g \in group : KindRank[g.kind] <= KindRank[f.kind]}
  IN (CHOOSE f \in top : \A g \in top : g.kind = f.kind \/ Heavier(f, g)).kind

(* The strictest judgement over the members of a bundle.                   *)
Combine(group) ==
  [(CHOOSE f \in group : TRUE) EXCEPT
     !.class = Highest(ClassRank, {f.class : f \in group}),
     !.severity = Highest(SeverityRank, {f.severity : f \in group}),
     !.subject = CHOOSE s \in {f.subject : f \in group} : TRUE,
     !.evidence = UNION {f.evidence : f \in group},
     !.advisories = UNION {f.advisories : f \in group},
     !.kind = CombinedKind(group),
     !.forbidden = \E f \in group : f.forbidden,
     !.unlock = \E f \in group : f.unlock,
     !.members = {f.subject : f \in group}]

(* One finding per bundle of a capability; the others pass.                *)
Collapse(findings) ==
  LET bundled == {f \in findings : f.bundle # "none"}
      Group(f) == {g \in bundled : g.capability = f.capability /\ g.bundle = f.bundle}
  IN (findings \ bundled) \cup {Combine(group) : group \in {Group(f) : f \in bundled}}

-----------------------------------------------------------------------------
(* The least severity of a kind, whatever a session says.                  *)
Floor(kind) ==
  IF kind = "quarantine" THEN "high"
  ELSE IF kind \in {"floating", "unknown_age"} THEN "medium"
  ELSE "low"

Floored(f) == [f EXCEPT !.severity = Stronger(SeverityRank, @, Floor(f.kind))]

(* As demonstrated as the weakest record behind it; nothing behind it is   *)
(* no demonstration.                                                       *)
Demonstrated(f) == f.evidence # {} /\ f.evidence \subseteq Sound

Permitted(f) == (f.forbidden /\ ForbiddenBlocks) \/ <<f.class, f.severity>> \in Blocking

(* A finding blocks when policy permits it and its evidence supports it.   *)
Blocks(f) == Permitted(Floored(f)) /\ Demonstrated(f)
=============================================================================
