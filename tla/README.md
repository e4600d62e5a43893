# A verification project for the agent

TLA+ modules that model the agent of this repository (`src/agent/`), TLC
configurations that check them on small instances, and TLAPS proofs of what
holds for every instance. Line numbers are of the sources this project was
written against; `PROJECT.json` maps each definition to the lines it stands
for.

To check a run: `tlc -config X.cfg M`; to check proofs: `tlapm M.tla`.

## 1. The system

The agent runs as one process per CI job: on a weekly schedule, by hand, or
woken by a comment or a pull request. A maintenance run plans analysis tasks,
runs sessions of a language model for them, judges what they answer, prepares
fixes in git worktrees, tracks findings as issues, proposes fixes as change
requests, and stores a small memory document for the next run. Nothing else
survives a run: what one run knows of another it reads from the platform.

### Components

| Component | State | Operations | What makes it correct |
|---|---|---|---|
| Tracker (`issues.py`, `absence.py`, `reconcile.py`, `state.py`, `unlock.py`) | open and closed issues with a key and an unlock stamp; the memory document at `refs/agent/state` | list, update, take over a renamed finding's issue, reopen, raise, defer, close as replaced, keep open, close as gone, store the document | one conversation per finding; an issue closes on the answers the docs require; a permission is not lost; the limit on new issues |
| Failure escalation (`escalate.py`) | streaks by capability and reason, in the document | weigh, escalate | an escalation never overstates |
| Fix branches (`remediate.py`, `lifecycle.py`, `propose.py`, `repo.py`) | branches on the platform and in the checkout, worktrees, change requests | read what is open, reclaim, plan, create worktrees, run sessions, settle, push, propose, note | one open change request per subject, a bounded queue, nothing left behind, nothing blocked for ever, what issues are told is so |
| Sessions (`executor.py`, `budget.py`) | slots of a semaphore, attempts of each task, the ledger of tokens | take a slot, refuse, retry, record, release | spending is bounded, fixers are afforded, every task is answered for |
| Containment (`containment.py`) | the checkout, what was dirty when last looked at | list, copy away, put back, look again | uncommitted work stays; what a session wrote is put back and kept |
| Orchestrator (`orchestrator.py`) | what a run has read and concluded | the order of everything above | properties of the compositions |
| Wakes and intent (`wake.py`, `intent.py`) | the comment, who wrote it, the conversation it is in | admit, classify, choose a course, narrow the plan, grant | only people with authority are obeyed, where they spoke |
| Answers and patches (`answer.py`, `patch.py`) | a conversation, a scratch worktree | answer, prepare a change, reply | whoever asks is told; an offer replaces the lines it shows |
| Review publishing (`publish.py`) | review threads by key, the head reviewed | edit, reopen, resolve, publish once | one thread per finding; nothing retracted that is still there |
| Findings (`findings.py`, `bundles.py`, `results.py`, `verdict.py`, `policy.py`) | the findings of each task | read a result, merge, collapse coupled pins, judge, decide | one conclusion per problem, no weaker than any report of it; a pass is earned |
| Coverage (`coverage.py`) | packages examined, by check and ecosystem, in the document | collect, compare with the last run, merge into the document | absence proves only what was looked at; what is dropped is said |
| Evidence and facts (`evidence/`, `storage/cache.py`, `session.py`, `toolkit.py`) | facts known to a run, the memo of registry answers, the calls of each session, a cache directory | look up, ask, record, cite, count steps | a verified fact is never replaced; a page stays a page; outsiders seed nothing |
| Preparation and gates (`outdated_prep.py`, `vuln_prep.py`, `census.py`, `quarantine_gate.py`) | the pins a sweep has still to ask about | take a census, ask the registry per pin, scan, refuse an incomplete sweep | no declared version that waits is left out |
| Targets, pins, versions, dates (`tools/`) | none | parse, order, choose an upgrade, measure quarantine | the choice is the highest allowed one; boundaries of the window |
| Planning, overlay, posture | none | split by ecosystem, skip | every check runs or its skip has a reason |
| Platform, backends, tools, configuration, prompts, command line | external | adapters and parsing | modelled as calls that succeed or fail |

### How they interact

A run starts by listing open issues and their stamps (`orchestrator.run`,
336-466) and the open change requests. Those listings are used minutes or hours
later, after every session has ended. Only then are the memory document read
(`_recall`), issues written one call at a time (`track_findings`), fixes pushed
and proposed, and the document stored. Inside a run, tasks are coroutines of one
event loop that share a semaphore, a ledger and a checkout; restores of the
checkout run in a thread under a lock. Sweeps prepare their pins in threads of
their own, and share the run's evidence and its memo of registry answers with
the sessions that call tools; what a session may report rests on the facts in
that evidence. When the tasks have ended, their reports are merged, collapsed
and judged, and the outcomes feed the streaks and the coverage of the memory
document. The one other thing that outlives a run is the cache of immutable
facts. Between runs, people close, reopen, merge
and comment at any time.

### What is hard

* **Stale listings.** Issues, stamps and change requests listed at the start decide what is written at the end.
* **Two stores.** Issues and document are written one after the other; a run may be killed, or the push refused, in between.
* **Partial failure.** Each platform or git call may fail; what came before it stays.
* **Counts over many runs.** Absence streaks, failure streaks and bundle members are read from what earlier runs could store.
* **Shared resources of sessions.** The ledger is asked at the start of a task and told at its end; the checkout is looked at when a session ends while others write.
* **Shared facts.** Tasks of a run ask the same questions at once, on answers of different reliability, and the gates over one task read what others recorded.
* **Folds.** Reports of several tasks become one conclusion, in steps whose order matters.
* **Remains.** Branches and worktrees of killed runs meet the next run's plan.

`PROJECT.json` lists each hazard at its line with the properties that watch it.

## 2. The modules

| Module | Models | Uses |
|---|---|---|
| `Checks` | checks, keys, outcomes, what an outcome proves | |
| `Absence` | streak arithmetic of one run (`absence.py`) | `Checks` |
| `Escalate` | weighing of failing checks (`escalate.py`) | `Checks` |
| `Tracker` | maintenance runs, issues, the document | `Absence`, `Escalate` |
| `TrackerInvariants` | the inductive invariants behind the tracker's properties | `Tracker` |
| `FailureStreaks` | failure streaks over a sequence of runs (abstract) | `Escalate` |
| `Findings` | reading, merging, collapsing and judging findings, as operators | |
| `Conclusions` | runs from result files to verdict, coverage and streaks | `Findings`, `Escalate`, instance of `FailureStreaks` |
| `Facts` | evidence, memo, cache, preparation and gates of runs | |
| `FixBranches` | fix branches from run to run | instance of `ReviewQueue` |
| `ReviewQueue` | what a team is promised of the queue (abstract) | |
| `Sessions` | slots, attempts, the ledger | |
| `Checkout` | the watched checkout | |
| `ReviewThreads` | reviews of one change and the agent's threads on it | |
| `Conversation` | runs woken by comments: admission, courses, replies, permissions | |
| `MC*` | small constants for TLC | |
| `*Proofs` | theorems | the module they are about, `TLAPS` |

### `Tracker`

`issues` is the sequence of all issues by number: key, open or closed, stamp.
`memory` is the document. For each run, `phase` is how far it is, `view` what
it has read and concluded, `book` what it has written and what remains to be
written. `seen` observes: the complete answers without a finding since a run
that listed it got its document stored.

| Action | Code |
|---|---|
| `Begin` | `orchestrator.run`: the wake is read, open issues and stamps are listed |
| `Halt` | `_episode`: `narrow` keeps no task for the key |
| `Analyse` (`Conclude`) | the tasks have ended; `_recall` reads the document; `weigh`, `settled`'s gates |
| `StartTracking` | identity and listing of `track_findings`, `_keep_approvals`, closed issues of the needed keys |
| `Update`, `MigrateTwin`, `Reopen`, `Raise`, `Defer` | the loop of `_track` over findings, one iteration each |
| `CloseSuperseded` | `_migrate_member_issues`, `_migrate_advisory_issues`: an issue listed under an older key of a finding is closed once the finding has its own, whether this run reports the older key as well or not |
| `KeepOpen`, `CloseGone` | the loop of `_track` over what is left |
| `Remember`, `Forget` | `Memory.write`, accepted or refused |
| `ReopenCut`, `PlatformFails`, `IdentityFails`, `Crash` | a call is refused half way through a reopening, anywhere in the reconciliation, before it; the job is killed |
| `PersonCloses`, `PersonReopens` | people |

Titles, bodies, notes and dates are abstracted away: a body is its stamp. A key
is a name; the segments the code parses from it are the functions
`CapabilityOf`, `EcosystemOf`, `MembersOf`, `ReasonOf` and the sets `BundleKeys`
and `QuarantineKeys`. What a session reports is any set that `read_result`
accepts for the outcomes. A key may supersede one that is itself found
(`Supersedes`): a bundle and a pin that is reported beside it.

### `FailureStreaks`

One action is a whole run as far as failure streaks go, scheduled or started
otherwise, with a memory that may not be readable or not accept the document.
`streaks` is what the document says; `told` what the run escalates. `fails`
observes how often a check failed for a reason since a scheduled run whose
document was stored found it working and failing nowhere for that reason.
`Conclusions` implements it.

### `Findings` and `Conclusions`

`Findings` has one operator per function of `results.py`, `findings.py`,
`bundles.py`, `verdict.py` and `policy.py` that a conclusion depends on: `Valid`
and `Read` (`read_result`), `Key` and `Identity`, `Stricter` and `Merge`,
`Combine` and `Collapse`, `Floored` (`with_kind_severity`), `Demonstrated`,
`Permitted` and `Blocks` (`judge`). A finding keeps the fields that those look
at, its symbol and its summary, which tell findings of one path apart in a key
(`Worded`); the policy is a table `Rows` that has to state each combination
once.

`Conclusions` runs them: `known` is the evidence recorded so far, `ended` and
`found` how each task did, `tries` how many of its files were refused,
`verdict` what the run concluded, `covered` what the document remembers of the
packages examined, `short` what the run said it no longer looked at.

| Action | Code |
|---|---|
| `RecordFact` | a task puts a record into the evidence, for every task to cite |
| `Write` | a session leaves a result file: it is read, refused and asked for again, or refused for good (`run_attempts`, `read_result`) |
| `SessionFails` | it ended without one |
| `Conclude` | `_conclude`: `collapse(merge(...))`, `judge`, `decide`; `weigh`; `Coverage.shortfall`, `Coverage.document`; the document read or not, stored or not |
| `NextRun` | the next run plans any tasks |

`Conclude` contains `Memory!Run`, a whole run of `FailureStreaks`; every other
action leaves `streaks`, `told` and `fails` alone.

### `Facts`

`evidence` is the run's store, `targets` its memo of registry answers
(`pin_targets`), `lock` who holds `pin_lock`, `cache` the directory. For each
task, `at` says where it is, `pin` and `left` which pin it asks about and which
its preparation has still to ask about, `calls` how many calls its session made
and which kinds of source answered, `result` what became of a sweep's file.
`date` is the day on which a version came out, or `NoDate`; `run` has the day.
A step is what a thread does between two points where another may come in
between: the lock is taken, the registry answers, the answer is recorded past
the lock.

| Action | Code |
|---|---|
| `StartSweep`, `PrepareNext`, `Packed` | `prepare_outdated_pack`: the census, each pin in turn, the tools that the pack replaces are hidden |
| `StartScan` | `prepare_vuln_pack` |
| `StartUnprepared` | tasks without preparation, a census that cannot be taken, a scanner that fails |
| `AskTarget`, `Recall`, `TakeLock`, `RegistryAnswers`, `RegistryFails`, `NoteTarget` | `_one_pin` and `Toolkit._cleared_pin_target`, which share the memo; they differ in what a failure leaves behind |
| `ReadFiles`, `Compute`, `RunCommand`, `Fetch`, `PublishTime` | the tools of a session by the kind of source that answers, each successful or not |
| `KnownFact`, `RecordFact`, `RecordGap` | `known_fact`, `record_fact`, `record_gap` |
| `Finish` | the result of a sweep before `incomplete_pin_sweep` and `incomplete_current_quarantine`, with its one retry |
| `SessionEnds`, `NextRun` | other ends; the next run on the same or a later day, with a cache that may not have been restored whole |

A pin stands for a version (`ResolvedKeyOf`): a branch or a major tag for the
newest version on its line (`_pick`). `Quarantine` is the arithmetic of
`dates.py`, in days, with its margin for dates that are not exact. A member of
`Pins` is what the memo goes by: a package, its version as written and the kind
of the declaration. `Swept` is the census gate, which refuses a sweep of actions
that took a commit's date for a release (`CommitterClock`). What a fact says is
reduced to its status, value, origin and whether its recipe names the sweep;
`paged` and `guest` observe where it came from.

### `FixBranches` and `ReviewQueue`

A subject stands for its branch: the code derives a branch name from class and
subject (`branch_for`), so that two runs mean the same branch. `change` is the
newest change request of a subject, `remote`, `local` and `trees` the branches
and worktrees there are. A run goes through `Begin`, `Decide` (the findings are
judged), `Reclaim` per subject, `Plan`, `Create` per job, overlapping
`Session`s, `Settle` per job, `Announce` (who the run speaks for), `Push` and
`Propose` per fix, and `Note`, which puts down for each finding that is to be
told whether it was told: an issue may have no number, not be the agent's any
more, or refuse the comment; one that cannot be read ends the run
(`NoteAborts`). Each action has its failing variant. A push to a branch that is
on the platform is refused, unless the branch's change was merged into the head
it starts from. `QueueSpec` states
that all this implements `ReviewQueue`: per subject at most one open request,
opened only while there is room, and closed by people only.

### `Sessions`

One step is what a task does from one suspension to its next. A task takes a
slot, asks the ledger, runs up to `MaxAttempts` sessions, records all of them
once, and gives its slot back, a fix task only after its failed checks were run
on the base (`Proved`). `Reserve` is what the budget keeps for fixers.

### `Checkout`

A restore is modelled command by command (`List`, `Copy`, `PutBack`,
`Restored`) because other sessions write meanwhile. `content` says who wrote
what a path holds, `index` who wrote what is staged for it; `before` is the
code's set of paths that were dirty already. `PutBack` restores what is staged,
and with the fault `"git"` nothing; `Raises` is a step of the restore that takes
too long or fails, which ends the run.
The parallelism of a run is chosen once, among `Limits`.

### `ReviewThreads`

`problems` says, by commit, which findings are there to be found; `threads` is
the agent's threads in the order they were started, `stance` what its latest
review says, and `run` what each review run has read and concluded.

| Action | Code |
|---|---|
| `Start` | the run is started on the newest commit, with every check, or with the one `narrow` keeps for a comment in a thread |
| `Conclude` | the tasks have ended, `_conclude` |
| `Withhold`, `CheckHead` | `_publish` reads draft and head |
| `List` | `platform.threads`, and which threads and findings the two loops will write about |
| `Settle` | one thread is noted and resolved or unresolved |
| `Review` | the one call that carries text, stance and new threads |
| `GivesUp` | a call is refused, or the job is killed |
| `Push`, `TurnDraft`, `PersonResolves`, `PersonReopens` | people |

Bodies of threads and lines of the diff are abstracted: whether a finding has a
line of the change to attach to is chosen freely.

### `Conversation`

`comments` is everything said, the agent's replies included; `events` what
workflows have not started a run for yet; `stamps` the permissions written on
issues, and `state` whether an issue is open, closed or not raised yet
(`Later`). Several issues may be about one finding (`KeyOf`), and one that lost
its label is not listed (`Unlabelled`). An event is an account, the number of a
comment and a place, and the three need not belong together (`Mix`).

| Action | Code |
|---|---|
| `Say`, `Delete`, `CloseOrReopen`, `Redeliver`, `Mix`, `Lose` | people and the CI workflow |
| `Take` | CI starts the run; those on issues are maintenance, one at a time (`src/README.md:531-533`) |
| `Decline`, `Admit` | `admit` with everything it asks the platform |
| `Read` | `classify`: a failed session and an unsure reading are both `"unsure"` |
| `Ignore`, `WriteReply`, `Halt`, `Recheck` | the branches of `_episode` |
| `Record` | the reconciliation, or its failure: the permission of the finding (`Permissions`; `_release`, `_keep_approvals`) is written into the issue about it that the run listed, or else into the one it reopens (`_closed_by_key`) or raises |
| `Publish` | `publish_review`, which answers a comment in a thread |
| `Deliver` | `deliver` and `_report_back` |

What the re-check of an issue does to issues and branches is `Tracker`'s and
`FixBranches`'s subject, and what a review does to threads `ReviewThreads`'s.

## 3. The runs

| Run | Checks | Bounds, and why they are enough |
|---|---|---|
| `restarts` | the inductive invariant `StreakInv`, `TwoAnswers`, `CeilingHolds`, `SupersededIsReplaced`, with documents lost, calls refused and people who reopen | two packages and an inherited issue of an older key, which the runs may report as well; limit 1, so that the second package is deferred; threshold 2 is the smallest that counts; people who close issues are in `closure`, and together with those who reopen in the proof of `StreakInv` and `TwoAnswers` |
| `names` | `OneOpenIssue`, `ReportedIsTracked` for one code finding under three names, and a bundle that supersedes one of them | three names are needed for a run to meet two candidates; a bundle beside the finding it replaces and another name of it (`Stories`); every fault, killed runs among them; nobody else closes issues, or `ReportedIsTracked` could not be asked |
| `closure` | `GoneIsClosed` (liveness), `BundleLooked`, `UnlockIsStamped`, `ApprovalStays` | two ecosystems and a bundle of both, a quarantined pin, a failing check, runs of all three kinds |
| `conclusions` | `NeverOverstates` through the refinement of `FailureStreaks`, `ConcludedOnce`, `StrictestOfAll`, `PassIsEarned`, `DroppedIsSaid` | two checks, one required, on schedule and by hand, with documents not read or not stored; one task a check, split ones are in the theorem; ten result files with advisories and pins of two packages, members of a bundle, paths in a bundle, two symbols of one path, a finding that cites nothing, one that no reader accepts; a record of an interface and one of a page; threshold 2 |
| `facts` | `SettledOnce`, `PagesStayHeuristic`, `OutsidersDontSeed`, `AskedOnce`, `YoungIsReported` | a sweep, and a scan whose session stands for any that calls tools (three calls: ask, cite, record); one pin that stands for another version, one cacheable fact; two runs, so that the cache is read once; dates one day before the window ends or unknown; the cacheable fact, where known, is the date of a commit, as one of a release changes no gate |
| `review` | types, `QueueSpec` (refinement), `OnlyFixesRemain`, `UnshippedIsTold`, `ToldIsUnshipped` on fresh clones | three subjects and room for two; three faults or acts of people |
| `remains` | `TakenUp` (liveness) in one checkout | every fault, three of them, an issue that cannot be read among them; one standing subject and one that comes and goes |
| `sessions` | types with slots, `SpendBounded`, `FixersAfforded`, `Completes` | more checks than slots, a ceiling that one session reaches, a reserve equal to the overshoot |
| `checkout` | `DeveloperWorkStays`, `CheckoutPutBack`, `AcceptedIsClean`, `StraysKept` | one or two sessions at a time, two of each stage, three paths, three stray writes, staged or not; sessions that fail, restores that raise |
| `threads` | `OneThreadPerFinding`, `ResolvedIsGone`, `ThreadsAgree` | two findings of two checks, one of them blocking; three commits let a finding go and come back |
| `conversation` | `AnswersColleagues`, `GrantIsGiven`, `AskerIsTold` (liveness) | two runs at once, a colleague, a passer-by and an integration, two comments: enough for the account of one with the words of the other; three issues: one that lost its label, one that may be raised later about the same finding, one that waits for the clock |
| `laptop_run` | refuted: see 6 | the smallest that shows it |

The type invariants of all components are theorems (4). Only those of
`FixBranches` and `Sessions`, whose records and counters were the last to be
proved, are also checked by a run.

`facts` has no advisory keys: what a scan records are facts like those of a
sweep's preparation. Its one package makes the sets of reported packages small;
that a gate looks at packages of its own ecosystem only is in the proof.

Bounds that are not in the code: `MaxRuns` (runs of `Facts`), `MaxIssues` (issues ever raised: a run that
would raise another is stopped there), `Stories` (sets of findings that occur
together in one behaviour; `closure` uses it to keep a bundle and a pin apart,
the other runs allow all), `StreakCap` (a failure streak counts no further; it
is at least the threshold, beyond which the count is only text), the cap of
`seen` at the threshold, `MaxEvents` (faults and acts of people in a behaviour
of `FixBranches`; `remains` needs them to stop, or nothing could be promised),
`MaxWrites` (stray writes), `MaxUse` (what one session uses), `MaxHeads` and
`MaxActs` (commits pushed and threads touched by people), `MaxSaid` and
`MaxOdd` (comments of others than the agent; lost calls, deleted comments,
mixed and repeated events), `Sayings` (who may say what where: each combination
left out takes a course that one of those in it takes).

A run that never raises because of `MaxIssues` may deadlock only where nothing
else can happen; a weekly run can always start again, so deadlock is checked
everywhere but in `sessions` and `checkout`, whose run ends, in `facts`, whose
runs are counted, and in `conversation`, where nobody may have anything more to say.

### Fairness

`Tracker` and `FixBranches` assume strong fairness of the scheduled start: a
concurrency group queues runs one after another, so the schedule is enabled
only between runs that people start, again and again, and CI starts it in the
end. A run that has started goes on (weak fairness of its steps): it is a
process whose sessions have wall-clock limits. Faults, people and the runs they
start have no fairness. `Sessions` assumes that some task goes on while one can.
`Conversation` assumes that a waiting job is started in the end and that a
started one goes on: an event that CI drops is the action `Lose`.

`AskerIsTold` needs neither to be lucky: a session may fail and a reading be
unsure every time. `GoneIsClosed` assumes that from some time on every run that concludes has
looked at the key and does not list it; `TakenUp` that the subject stays
fixable.

## 4. What is proved

All theorems hold for any constants that meet the named assumptions of the
modules, and what the theorem itself assumes:

| Hypothesis | Says | Why the code justifies it |
|---|---|---|
| `Alone` | one run at a time | the workflow's concurrency group for maintenance; reviews of one change cancel one another |
| `"reopen" \notin People`, `"close" \notin People` | nobody does this by hand meanwhile | it does not: the property is about what the agent does by itself, and is false with them |
| `InheritedOnce` | the issues found at the start have one open issue a key | an installation starts without, or with what earlier runs left |
| `"status"`, `"git" \notin Faults` (`Checkout`) | `git status` answers, `git checkout` checks out | they do not: the one reads as clean, the other as done (6 and the hazards) |
| `"git"`, `"crash"`, `"label"`, `"issue" \notin Faults` (`FixBranches`) | this does not fail | it does: the clean-up is then left to the next run (`TakenUp`), a request counts as not proposed, or the notes stop (6) |
| `"unread" \notin Faults` | the listing of issues a run starts with answers | it does not: the run then rewrites issues without the permissions on them (6) |
| `EscalationsUnowned` | every check that escalates is performed by ecosystem, so that a comment on its issue starts nothing | true of the dependency checks; the issue of a check performed as one task loses its stamp at its next escalation |
| `NoTwins` | no finding is found again under another name | the agent takes such an issue over, with the permissions of the new name (6) |
| `InheritedUnstamped`, `InheritedUnbundled` | the issues found at the start carry no permission for a failing check, and no bundle is open among them | an installation starts without issues |
| `DocumentsKept` | no run is cut off while it writes; the document is read and stored | it does not always: a bundle whose members the document forgot is asked about as a whole |
| `Published` | runs publish, nobody reopens change requests | the schedule's do (`src/README.md`); `laptop_run` shows the others |
| `AdvisoriesAreNoKinds` | no advisory is named like a kind of problem | advisories have identifiers of their databases (`CVE-…`, `GHSA-…`); nothing checks it |
| `HigherBlocks` | what blocks at one class and severity blocks at every higher one | true of the library's table; `policy.py` checks only that every combination is stated once |
| `KnowsItself`, `ReadsRight` | the agent knows its account; no comment is surely misread | 6 says what happens otherwise |

### Tracker

* `TypeCorrect`: the types, one lemma per action.
* `StreaksAreBounded`, `TwoAnswersHold`: an issue that closes
  by the count had that many complete runs without its finding, none of them
  from before a listing that the document has taken in. `TwoAnswers` alone is
  not inductive: a run that closes decides by the document it read before.
  `StreakInv` bounds every count by `seen`, in the stored document
  (`MemoryBounded`), in what a run read (`KnownBounded`; strictly for a key this
  run's own answer was just added to), and in what it is about to store
  (`KeptBounded`). `ReadIsStored` says that the document did not change under a
  run, which is where `Alone` is needed. `ListedApart` and
  `NothingBooked` say that a listed finding is not among those that settle.
* `NamesAreRight`: every number a run holds is that of an issue with the key the
  run holds it under, until it takes the issue over for a new name
  (`ExistingCarry`, `NumbersCarry`), and what it has still to go through is what
  it listed or found open, each once (`TodoInv`). The next four rest on it. With
  two runs at once it is false: the other may rename an issue.
* `SupersededAreReplaced`: an issue of an older name is closed only when the
  finding has an issue under its new one, whether the run reports the older name
  as well or not.
* `OneConversation` (also `"reopen" \notin People`, `InheritedOnce`): no two open
  issues of one key. The invariant `OneRead` says that a key still to be
  reconciled has no open issue but the one the run read.
* `ReportedAreTracked` (also `"close" \notin People`): `OpenStill` keeps what was
  read open until the run is past it, `Reported` says that what it is past is
  open or deferred, or that another key the run reports replaced it
  (`Supplanted`; 6).
* `UnlocksAreStamped`: `StampedStill` keeps a stamp that was read on its issue,
  `UnlockedInv` puts the one that was given there. An issue that was taken over
  for a new name is not spoken of: it answers for the new name, and the
  permission was for the old one (6).
* `FindingsKeepApproval` (`"unread" \notin Faults`, `"reopen" \notin People`): no
  step takes a permission from the open issue of a finding that keeps its name.
  `ApprovedStill` says that the permission on an issue that is still to be
  rewritten is among those the run goes by, wherever it came from; that a
  reopened issue was not open is `OneRead`. `ApprovalsStay` is the property
  `ApprovalStays` as the run states it, for every issue. It also needs `NoTwins`
  and `EscalationsUnowned`: `EscalationsUnstamped` is inductive with
  `PermittedFindings`, because a run that was asked about a failing check never
  concludes.
* `BundlesAreLooked` (`DocumentsKept`, `"reopen" \notin People`):
  `OpenRemembered` says that the members of every bundle with an open issue are
  in the document, or will be in the one that is being written;
  `ListedRemembered` that a run which is about to settle a bundle read its
  members; `SpokenLooked` that it then asked about each.
* `CeilingIsKept` needs no hypothesis and holds for runs that overlap.
  `SubjectsCounted` relates the set of subjects of a run to the number of issues
  it raised, with the escalated ones, which the ceiling does not count, apart.

### Sessions

* `SessionsTyped`: slots are neither lost nor given twice, and every counter
  keeps its bound. A task is in one place: the counters are cardinalities of the
  sets of tasks in each state.
* `SpendIsBounded`: what sessions use stays within the ceiling and one round of
  the sessions that overlap. The invariant relates what is booked, the sum over
  the tasks that run, and the number of slots; the sum is a fold over a finite
  set, and its induction is written out as the choice of a smallest
  counterexample (`WFMin` with `FS_StrictSubsetOrderingWellFounded`).
* `FixersAreAfforded`: with a reserve that covers one round, no first fix is
  refused.

### FixBranches

* `BranchesTyped`: it ships only what it fixed and fixes only what it planned,
  and a worktree is on a branch that is there. `PhaseInv` says what a run can
  have done by each phase.
* `UnshippedAreTold` (`"crash"`, `"issue" \notin Faults`): in a run that ships,
  every fix is to be dealt with, shipped, or marked as not shipped (`ToldInv`);
  what did not ship is told, or put down as not noted.
* `OnlyFixesAreLeft` (`"git"`, `"crash" \notin Faults`): `RemainsInv` says phase by
  phase which subjects may hold a worktree or a branch.
* `ToldAreUnshipped` (`"label" \notin Faults`, `"reopen" \notin People`):
  what is open was open when the run began or was shipped by it (`ShippedInv`).
* `QueueKeepsItsPromise` and `NothingWithdrawn` (`Published`): `FixBranches`
  implements `ReviewQueue`, and no change request is withdrawn, whatever fails and
  wherever a run is killed. What is open is
  what the run saw when it began or has been through since, and the jobs fit the
  room that was left (`QueueInv`). That no more jobs are chosen than there is
  room for (`ForemostFew`) maps each to its place in the ship order. The run
  `review` checks the refinement under two faults on fresh clones, the theorem
  has every fault and checkouts that keep what was left. `laptop_run` refutes
  `NeverWithdraws` where `Published` fails.

### Checkout

* `CheckoutTyped`, `WorkStays`: the lock of the restore has
  one holder, and no uncommitted work of a developer is put back as long as
  `git status` answers. The invariant: work of a developer is in `before`, and
  never pending.
* `StraysAreKept`: a stray write that disappears has a copy, whatever fails.
* `CheckoutIsPutBack`, `AcceptedAreClean` (`"status"`, `"git" \notin Faults`):
  `TurnsInv` says that sessions that take turns are never two at once,
  `LookedInv` that what a session left is on the restore's list, put back, or
  staged. What stays staged is not put back, and the properties say so (6).

### Conclusions and failure streaks

* `StreaksTyped`, `NeverOverstated`: what is escalated happened, for the memory
  as such, without a hypothesis. `Bounded` says that no count of the document
  exceeds `fails`; a run that cannot store leaves both, and one by hand leaves
  the document, so that only a stored scheduled run may start `fails` over.
* `RunsAreRuns`, `StillNeverOverstated`, `DroppedSaid`:
  `Conclusions` implements `FailureStreaks` (initial states map to initial
  states, `Conclude` to `Run`, everything else to a stutter), so that
  `NeverOverstated` carries over to outcomes read from result files. The
  invariant it needs is that what ended is planned and has an outcome the
  memory knows (`EndedInv`). What falls out of the coverage is in the shortfall
  of the same step.
* `EachConcludedOnce`, `StrictestConcluded`, `PassesAreEarned`
  (`AdvisoriesAreNoKinds`): for any number of reports, tasks and bundles, in any
  order. `Merge` folds over the reports and `Reported` flattens lists. That both
  recursions have a solution, and what it holds after each step, is shown by the
  least number for which it would not (`LeastNumber`, `BooksExist`,
  `JoinedExist`, `FlattenTyped`). `BookHolds` says what a book holds after some
  reports: one entry per key, known by that key (`StricterKey`), which covers
  each report of it (`StricterCovers`) and takes its kind, its subject and each
  record from one of them. `CollapseMeans` carries this through the bundles and
  `Spoken` through the floors. `ReadInv` says that a concluded run was judged by
  what it found, and that a file refused twice ended its task as refused.
  `PassesAreEarned` also needs `HigherBlocks`.

### Facts

* `FactsTyped`, `Settled`, `PagesHeuristic`, `OutsidersSeedNothing`, `Once`,
  `YoungReported`. What a step may put under a key is said once
  (`FromStep`, `StoreStep`, `CacheStep`) and the theorems follow from it.
  `OriginInv` adds to the two properties of pages and outsiders that a fact of
  an outsider is in the store of its own run only. `MemoInv` says that a
  remembered answer is what the registry would say, given at most once, and
  that whoever asks found nothing, for which the types need the lock. For
  `YoungReported`, `AgesAreAsked` says that an age on record is the registry's
  or unknown, and `SweepInv` that a preparation has accounted for each pin it
  passed: the version it stands for is dated, or the pin is on record as
  undated. `ResolutionAssumption` is needed there: a version some pin stands
  for stands for itself. Without it, a failed lookup of a branch named like a
  version of another pin would find that version's age and record nothing.

### ReviewThreads and Conversation

* `ReviewsTyped`, `OneThread`, `NothingRetracted`, `ReviewsAgree`, for
  runs that do not overlap. The invariant adds to the types that no
  thread exists for a finding the run means to start one for (`FreshIsNew`) and
  that what the run's finished checks did not report is not there
  (`AllReported`). `Alone` is needed: two runs that list the threads before
  either reviews give one finding two threads. For `ReviewsAgree`, `AllAgree`
  says that while a run writes, what it has still to settle is known by its
  thread, and every other thread that no person touched agrees with what the run
  found. The plan starts it off because the listing knows every thread
  (`ListAgrees`, from `OneThreadPerFinding`), and no more than the settled thread
  changes (`SettleAgrees`).
* `ConversationsTyped`, `OnlyColleagues`, `PermissionsWereGiven`. A run past
  admission is in the conversation a colleague spoke in (`Hears`), what the agent
  wrote answers such a comment (`Answers`), and a run that takes a comment for a
  permission was given one (`ReadsWell`). A permission may move from issue to
  issue of one finding: `GrantInv` follows it by key.

### What is only model-checked

* The liveness properties (`GoneIsClosed`, `TakenUp`, `Completes`,
  `AskerIsTold`), which the prover cannot treat under fairness. `Facts` and
  `Conclusions` state none: whether a session ends is `Sessions`'s subject.

The invariants of `TrackerInvariants` and those in the `*Proofs` modules were
checked by TLC under the constants of the runs above before they were proved.

## 5. Plan

1. Done: `Tracker`, `FailureStreaks`, `FixBranches` with `ReviewQueue`, `Sessions`,
   `Checkout`, `ReviewThreads`, `Conversation`, `Findings` with `Conclusions`,
   `Facts`, their runs, and the proofs above.
2. Proofs: done for the types of every component, `FixBranches` with its
   refinement, `Sessions`, `Checkout`, the conversations of `Tracker`, the
   conclusions of runs and the threads of reviews: every safety property of the
   runs is stated by a theorem.
3. `Targets`: version order and the choice of an upgrade as functions against a reference.
4. `Patch`: what a fix offers in a thread, from the hunk git prints to the lines that are replaced.
5. Composition: a run of `Tracker` and `FixBranches` together, for what an issue says of its change request.

## 6. Where code and docs disagree

One is shown by a run of its own.

* `laptop_run` (`orchestrator.py:414`): a run without `--publish` does not read
  the open change requests but reclaims branches, and deletes the branch of an
  open one (`lifecycle.py:58-60`).

Others were met while modelling. Each is a behaviour of the modules under
constants or faults that the passing runs leave out, or of a statement stronger
than the property checked.

* A comment in a review thread that asks to look again makes the one check of
  that thread run, and a clean answer of it publishes an approving review,
  although a check that did not run would request changes
  (`orchestrator.py:1198` against `src/knowledge/CONTRACT.md:566`; in
  `ReviewThreads`, `Start` with one check, then `Review`).
* Two members of a bundle with one kind of problem share a key, so that `merge`
  folds them before `collapse` can name both (`orchestrator.py:1344` against
  `bundles.py:84`, "with every member named and cited"). `StrictestOfAll` states
  this exception.
* A blocking report merged with one of the same problem that nothing
  demonstrates no longer blocks: the union of their evidence is only as sound as
  its weakest record (`findings.py:321` against 297, "judged by the stricter of
  the two"), and so in a bundle (`bundles.py:83`). A bundle concluded as
  floating loses the floor that quarantine puts under its severity. Highest
  class and highest severity can come from different reports and make a pair
  that neither had. `PassIsEarned` states the exceptions.
* A memory document that could not be read is overwritten, coverage and all,
  and nothing is said of the packages that fall out (`coverage.py:162`):
  `DroppedIsSaid` speaks of runs that could read it.
* A scanner that fails without printing anything counts as one that found
  nothing, whatever its exit code, and the tools it replaces are hidden
  (`vuln_prep.py:5`: "When the scanner cannot run, tools stay visible").
* A sweep that says honestly that it is exhausted is refused by the census gate
  like any other (`census.py:22`; `Accepted`).
* The step limit refuses `record_fact` and `record_gap` too: what the last call
  found cannot be recorded (`toolkit.py`, `Toolkit.call`; `Working`).
* `check_quarantine` answers about a date its caller may have read on a page,
  and citing that call makes the fact look computed; `paged` does not see it.
* `known_fact` does not pass a recipe, so that a cached fact of an older recipe
  is answered (`toolkit.py:903` against `storage/cache.py:72`).
* The quarantine gate charges a sweep for every version of its ecosystem that
  anybody asked about, declared or not (`quarantine_gate.py:46`).
* A pin whose lookup failed in a preparation is on record as undated, and a
  later answer under the same key is not kept (`outdated_prep.py:213`).
* When a version with an inexact date clears, reports name the day without the
  margin (`tools/dates.py:43`).
* Comparing versions is promised to be exact (`tools/versions.py:3`), but pre-releases of PEP 440 compare as strings and
  epochs are ignored; where the current version is not known to have cleared,
  the version offered may be an older one (`tools/targets.py:226-228`).
* The limit on new issues is documented to count subjects (`issues.py:207`), but
  compares the number of issues (`issues.py:249`): a second issue about one
  subject takes the slot of the next subject.
* A run whose listing of issues fails at the start has no approvals, lists the
  issues again when it reconciles, and rewrites the bodies of listed findings
  without their stamps (`orchestrator.py:432` against `src/README.md:674`; add
  `"unread"` to `Faults` in `Closure.cfg` and check `ApprovalStays`).
* A document whose push is refused keeps a streak that a listing had ended, so
  two counted runs need not be consecutive (`absence.py:23-24`; `Forget`). This
  is why `seen` starts over only when a document is stored.
* A rephrased code finding takes over its issue without the stamp
  (`issues.py:222`; `MigrateTwin`), and so does a reopened issue
  (`issues.py:242` against `issues.py:10`; `Reopen`): `closure` has no renamed
  findings, and its `ApprovalStays` speaks of issues that stay open.
* A person who reopens an issue while a run is under way can leave a finding
  with two open issues (`issues.py:184` against `issues.py:8`; add `"reopen"` to
  `People` in `Names.cfg`).
* Two overlapping runs: the later document overwrites one its run never read
  (`state.py:85` against `state.py:15-17`; two `Runs`).
* A bundle whose members are not remembered closes on any completed task of its
  capability (`absence.py:129` against `reconcile.py:86-88`; add `"platform"` or
  `"memory_push"` to `Faults` in `Closure.cfg`).
* A permission on a bundle's issue or on the issue of a failing check of one
  ecosystem is lost when the run has no task for the key
  (`orchestrator.py:763` against `src/README.md:668-669`; `Halt`).
* A check that is split by ecosystem, with one task working and another failing,
  is counted on, and so is one that worked in a run started by hand or in one
  whose document was lost: that it "has not worked
  since the first of them" (`escalate.py:17-19` against `escalate.py:94`) need not
  hold. `NeverOverstates` says what does: the
  failures counted are later than any stored scheduled run in which the check
  worked and nowhere failed for that reason.
* A run that reports a bundle and one of its pins apart from it updates the pin's
  issue and then closes it as replaced, in favour of the bundle's, because the
  migration does not ask whether the older key is reported as well
  (`issues.py:353`, and 392-405 for advisories). The next such run reopens it,
  although keys are kept stable "so the next maintain does not thrash"
  (`bundles.py:41`). `ReportedIsTracked` states this exception (`Supplanted`).
* A change request that is reopened during the analysis loses its branch
  (`orchestrator.py:842`; add `"reopen"` to `People` and check
  `NeverWithdraws`).
* After a failed reclaim a fresh clone prepares the subject all the same, and
  the push is refused (`remediate.py:223` against `lifecycle.py:58-60`).
* A fix of several findings that is not pushed or proposed is told on the issue
  of its lead only (`orchestrator.py:1245` against 1233): `UnshippedIsTold`
  speaks of the lead.
* Noting a fix that did not ship may tell nobody: the finding has no tracked
  issue, the issue is no longer the agent's, or the comment is refused. The run
  puts each down as `not-noted` among its manifest's warnings, which nobody on the
  platform reads (`orchestrator.py:1252-1266`). `UnshippedIsTold` counts both.
* A refused label leaves a change request open while its issue is told that no
  fix shipped (`propose.py:89` against `orchestrator.py:1235`; fault `"label"`).
* Analysts can spend what is kept for fixers: the ledger is asked before a
  session and told after it (`budget.py:77` against `budget.py:28`).
  `SpendBounded` says by how much, `FixersAfforded` what reserve is enough.
* A fix task whose first attempt was refused and whose second session failed is
  recorded as a refused result (`remediate.py:547` against 540-541; `ReasonOf`).
* A stray write that its session has staged is put back to what it staged: `git
  checkout -- path` restores from the index, and nobody asks for its result
  (`containment.py:94-105`), so that the path stays dirty, as it does when the
  command fails. The second look takes it among what was dirty before
  (`containment.py:91`), it is never put back, and a later fixer that rewrites it
  is accepted, while the report says "Those writes have been undone"
  (`containment.py:126-127`). `CheckoutPutBack` and `AcceptedIsClean` except what
  is staged; add `"git"` to `Faults` in `Checkout.cfg` and they fail.
* A step of the restore that raises, a git command that takes too long or a file
  that cannot be removed, ends the run instead of refusing the attempt (`Raises`).
* With two sessions at once, the one that ends first answers for the other's
  write (`containment.py:77-85`), a write between listing and second look is
  never put back (`containment.py:91`), and one between copy and checkout is
  lost; a session that fails is not followed by a restore (`executor.py:282`).
  `CheckoutPutBack`, `AcceptedIsClean` and `StraysKept` speak of sessions that
  take turns.
* Two review runs that overlap give one finding two threads (`publish.py:120`;
  two `Runs` in `Threads.cfg`).
* A comment that is surely misread as a permission grants one, although
  `intent.py:8-9` and `src/README.md:592-593` say that a misreading grants
  nothing (add `"misread"` to `Faults` in `Conversation.cfg`).
* An agent that publishes as a person's account and cannot read its own identity
  answers itself (`wake.py:7-8` against `wake.py:124`; fault `"identity"`).
* Permissions are kept by finding (`orchestrator.py:795-798`), so that one given
  on an issue that is closed or no longer listed is written into the issue that
  is reopened, listed or raised about the same finding, which may by then be one
  that waits for the clock; if none is, or the reconciliation fails, it is written
  nowhere. The person is told each time that it is recorded on the issue that was
  commented on (`answer.py:216-221`; `Record`). `GrantIsGiven` therefore speaks of
  issues about the same finding.
* A re-check of something the plan does not contain gets no reply
  (`orchestrator.py:766` against `answer.py:197-199`; `Halt`), and neither does
  a comment in a thread whose review is withheld (`orchestrator.py:1283`;
  `Publish`).
* A comment whose author the platform does not name passes the comparison with
  the account of the event (`wake.py:196`).
* A thread about a code finding that was rephrased is resolved with a note that
  says it is gone, next to a new thread about it (`publish.py:155`).
* A patch offered in a thread leaves out added lines that begin with `++`
  (`patch.py:347`).
* A head that moves between the check and the writes is written about all the
  same (`publish.py:106-116`).
* An issue that cannot be read while failed fixes are noted stops the publishing
  of the run (`orchestrator.py:1257`, outside its `try`; fault `"issue"`,
  `NoteAborts`).
* A local maintenance run on any branch writes facts that later runs believe
  (`orchestrator.py:365-367`): `OutsidersDontSeed` keeps out runs that are not of
  maintenance, not other branches.
* A `git status` that fails when the run starts makes uncommitted work look like
  a stray write (`containment.py:112` against `src/README.md:215-216`; fault
  `"status"`).

## 7. Not modelled

The choice of the version to move to (`targets.py`), the comparison of versions
(`versions.py`), the parsing of manifests (`pins.py`), what the overlay and the
posture make of the plan, and the contents of an offered patch are pure
functions over strings; the first and the last are planned above. Left out for
good: parsing of command lines,
hosts, paths and configuration, prompts and the text of issues, threads and
reports, the SDK adapters, and manifests that no later step decides on; they
change no state that another step reads. A fix task that raises an exception
other than a cancellation (`remediate.py:448`) is not in `FixBranches` yet. A
session that commits in the checkout, which then looks clean, is not in
`Checkout`. `Conversation` has no findings that change their key between two
runs; what happens to their permissions is in `Tracker` (`MigrateTwin`). A run
woken on an issue writes no notes about its fixes but reports to the person who
asked (`_report_back`): `Note` is that of the other runs.
