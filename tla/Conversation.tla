---------------------------- MODULE Conversation ----------------------------
(***************************************************************************)
(* Runs that a comment woke: who is listened to, what a comment causes,    *)
(* and how the person who wrote it learns of it.                           *)
(*                                                                         *)
(* The event names an account, a comment and the issue or the change it    *)
(* was left on.  Events are delivered late, again, or not at all, and a    *)
(* workflow may put the account of one comment next to the number of       *)
(* another.  What the agent writes is a comment as well, and wakes a run.  *)
(***************************************************************************)
EXTENDS Integers, Sequences, FiniteSets

CONSTANTS
  Accounts,   \* who comments, the agent's own account among them
  Agent,      \* the account the agent publishes as
  Writers,    \* accounts with write access
  Machines,   \* accounts the platform calls bots
  Suffixed,   \* those of them that are named like one
  Issues,     \* issues
  Threads,    \* review threads of one change
  Change,     \* that change
  Foreign,    \* issues and threads without the agent's marker
  Unlabelled, \* the agent's issues that somebody took the label off
  KeyOf,      \* the finding a place is about; several issues may be about one
  Later,      \* issues that are not there yet, and may be raised
  Clock,      \* places about what waits for a quarantine window only
  Planned,    \* places whose check is part of the run's plan
  Patchable,  \* threads a change can be offered in
  Runs,       \* runs that may be under way at once
  Faults,     \* what may go wrong
  Sayings,    \* who may say what where, the agent's own comments apart
  MaxSaid,    \* bound on what others than the agent say
  MaxOdd      \* bound on what goes wrong or happens besides

Places == Issues \cup Threads

Intents == {"question", "fix", "recheck", "unlock", "unrelated"}

ASSUME ConversationAssumption ==
  /\ Agent \in Accounts /\ Writers \subseteq Accounts
  /\ Machines \subseteq Accounts /\ Suffixed \subseteq Machines
  /\ Issues \cap Threads = {} /\ Change \notin Places
  /\ Foreign \subseteq Places /\ Unlabelled \cup Later \subseteq Issues /\ Clock \subseteq Places
  /\ Planned \subseteq Places /\ Patchable \subseteq Threads
  /\ Faults \subseteq {"mixed", "lost", "identity", "session", "misread", "platform", "moved"}
  /\ Runs \subseteq Nat /\ MaxSaid \in Nat /\ MaxOdd \in Nat

ASSUME SayingsAssumption ==
  Sayings \subseteq [author : Accounts \ {Agent}, place : Places, asks : Intents \cup {"nothing"}]

VARIABLES
  comments,  \* everything said, by number
  events,    \* events no run has taken yet
  run,       \* what each run is doing
  stamps,    \* permissions written on issues: which comment gave them
  state,     \* of every issue: open, closed, or not raised
  odd,       \* counted against MaxOdd
  reviewed,  \* observed: comments that a review answered
  dropped    \* observed: comments an event, a call or a run was lost over

vars == <<comments, events, run, stamps, state, odd, reviewed, dropped>>

(* The issues that a listing returns, open or closed.                      *)
Tracked == Issues \ (Foreign \cup Unlabelled)

(* Where an event says a comment was left.                                 *)
Home(place) == IF place \in Issues THEN place ELSE Change

Event(account, n, where) == [actor |-> account, comment |-> n, where |-> where]

Idle == [at |-> "idle", event |-> Event(Agent, 0, Change), place |-> Change,
         reading |-> "unsure", listed |-> {}]

Init ==
  /\ comments = << >> /\ events = {}
  /\ run = [r \in Runs |-> Idle]
  /\ stamps = {} /\ odd = 0
  /\ state = [i \in Issues |-> IF i \in Later THEN "none" ELSE "open"]
  /\ reviewed = {} /\ dropped = {}

Asked(r) == comments[run[r].event.comment]

-----------------------------------------------------------------------------
(* What happens around the runs.                                           *)

Said == {n \in DOMAIN comments : comments[n].to = 0}

Post(account, place, asks, to) ==
  /\ comments' = Append(comments, [author |-> account, place |-> place, asks |-> asks,
                                   to |-> to, gone |-> FALSE])
  /\ events' = events \cup {Event(account, Len(comments) + 1, Home(place))}

Say(said) ==
  /\ Cardinality(Said) < MaxSaid
  /\ said.place \in Issues => state[said.place] # "none"
  /\ Post(said.author, said.place, said.asks, 0)
  /\ UNCHANGED <<run, stamps, state, odd, reviewed, dropped>>

Odd == odd < MaxOdd /\ odd' = odd + 1

Delete(n) ==
  /\ Odd
  /\ n \in Said /\ ~ comments[n].gone
  /\ comments' = [comments EXCEPT ![n].gone = TRUE]
  /\ UNCHANGED <<events, run, stamps, state, reviewed, dropped>>

CloseOrReopen(i) ==
  /\ Odd
  /\ state[i] # "none"
  /\ state' = [state EXCEPT ![i] = IF @ = "open" THEN "closed" ELSE "open"]
  /\ UNCHANGED <<comments, events, run, stamps, reviewed, dropped>>

(* A job is run again.                                                     *)
Redeliver(n) ==
  /\ Odd
  /\ events' = events \cup {Event(comments[n].author, n, Home(comments[n].place))}
  /\ UNCHANGED <<comments, run, stamps, state, reviewed, dropped>>

(* An event that does not belong together.                                 *)
Mix(account, n, where) ==
  /\ "mixed" \in Faults
  /\ Odd
  /\ events' = events \cup {Event(account, n, where)}
  /\ UNCHANGED <<comments, run, stamps, state, reviewed, dropped>>

Lose(e) ==
  /\ "lost" \in Faults
  /\ Odd
  /\ events' = events \ {e}
  /\ dropped' = dropped \cup {e.comment}
  /\ UNCHANGED <<comments, run, stamps, state, reviewed>>

-----------------------------------------------------------------------------
(* Admission.                                                              *)

Free == {r \in Runs : run[r].at = "idle"}

(* Runs on issues are maintenance, one at a time.                          *)
Take(r, e) ==
  /\ r \in Free /\ \A s \in Free : r <= s
  /\ e.where \in Issues => \A s \in Runs : run[s].event.where = Change
  /\ events' = events \ {e}
  /\ run' = [run EXCEPT ![r] = [Idle EXCEPT !.at = "woken", !.event = e]]
  /\ UNCHANGED <<comments, stamps, state, odd, reviewed, dropped>>

(* What the name in the event is judged by; the agent's own account is     *)
(* known unless the platform does not say.                                 *)
Heard(e, known) ==
  /\ e.actor \notin Suffixed
  /\ known => e.actor # Agent
  /\ e.actor \in Writers

(* Mutant: a comment is read wherever it was left.                         *)
BelongsAnywhere(e) == TRUE

Belongs(e) == Home(comments[e.comment].place) = e.where

(* Mutant: the account of the event is believed to have spoken.            *)
SpokenByEvent(e) == comments[e.comment].author \notin Machines

Spoken(e) == comments[e.comment].author \notin Machines /\ comments[e.comment].author = e.actor

(* The conversation: the issue of the event, or the thread of the comment. *)
Conversed(e) == IF e.where \in Issues THEN e.where ELSE comments[e.comment].place

Admitted(e, known) ==
  /\ Heard(e, known)
  /\ Conversed(e) \notin Foreign
  /\ ~ comments[e.comment].gone
  /\ Belongs(e) /\ Spoken(e)
  /\ comments[e.comment].asks # "nothing"

Decline(r, known) ==
  /\ run[r].at = "woken"
  /\ known \/ "identity" \in Faults
  /\ ~ Admitted(run[r].event, known)
  /\ run' = [run EXCEPT ![r] = Idle]
  /\ UNCHANGED <<comments, events, stamps, state, odd, reviewed, dropped>>

(* The conversation is read, whatever became of its issue, and the open    *)
(* issues are listed, by their label and their marker.                     *)
Admit(r, known) ==
  /\ run[r].at = "woken"
  /\ known \/ "identity" \in Faults
  /\ Admitted(run[r].event, known)
  /\ run' = [run EXCEPT ![r].at = "admitted", ![r].place = Conversed(run[r].event),
                         ![r].listed = {i \in Tracked : state[i] = "open"}]
  /\ UNCHANGED <<comments, events, stamps, state, odd, reviewed, dropped>>

-----------------------------------------------------------------------------
(* Courses.                                                                *)

(* Sessions that fail, and readings that are unsure, are all "unsure".     *)
Read(r, reading) ==
  /\ run[r].at = "admitted"
  /\ \/ reading = Asked(r).asks
     \/ reading = "unsure" /\ "session" \in Faults
     \/ reading \in Intents /\ "misread" \in Faults
  /\ run' = [run EXCEPT ![r].at = "read", ![r].reading = reading]
  /\ UNCHANGED <<comments, events, stamps, state, odd, reviewed, dropped>>

(* Mutant: a comment that was not understood is left alone.                *)
CourseIfSure(r) ==
  CASE run[r].reading = "question" \/ run[r].reading = "fix" -> "answer"
    [] run[r].reading \in {"recheck", "unlock"} -> "recheck"
    [] OTHER -> "ignore"

Course(r) ==
  CASE run[r].reading = "fix" /\ run[r].place \in Patchable -> "patch"
    [] run[r].reading \in {"question", "fix", "unsure"} -> "answer"
    [] run[r].reading \in {"recheck", "unlock"} -> "recheck"
    [] run[r].reading = "unrelated" -> "ignore"

Refused(r) == run[r].reading = "unlock" /\ run[r].place \in Clock

Ignore(r) ==
  /\ run[r].at = "read" /\ Course(r) = "ignore"
  /\ run' = [run EXCEPT ![r] = Idle]
  /\ UNCHANGED <<comments, events, stamps, state, odd, reviewed, dropped>>

(* A reply is written whatever becomes of the session: an answer, why      *)
(* there is none, a change to apply, or that the clock waits for nobody.   *)
WriteReply(r) ==
  /\ run[r].at = "read"
  /\ \/ Course(r) \in {"answer", "patch"}
     \/ Course(r) = "recheck" /\ Refused(r)
  /\ run' = [run EXCEPT ![r].at = "delivering"]
  /\ UNCHANGED <<comments, events, stamps, state, odd, reviewed, dropped>>

(* There is no task for the check: nothing is written, not even a reply.   *)
Halt(r) ==
  /\ run[r].at = "read" /\ Course(r) = "recheck" /\ ~ Refused(r)
  /\ run[r].place \notin Planned
  /\ run' = [run EXCEPT ![r] = Idle]
  /\ UNCHANGED <<comments, events, stamps, state, odd, reviewed, dropped>>

Recheck(r) ==
  /\ run[r].at = "read" /\ Course(r) = "recheck" /\ ~ Refused(r)
  /\ run[r].place \in Planned
  /\ run' = [run EXCEPT ![r].at = "checking"]
  /\ UNCHANGED <<comments, events, stamps, state, odd, reviewed, dropped>>

-----------------------------------------------------------------------------
(* What is written.                                                        *)

(* A hold is a thing an issue tracks.                                      *)
Releases(r) == run[r].reading = "unlock" /\ run[r].place \in Issues

Kin(r) == {i \in Tracked : KeyOf[i] = KeyOf[run[r].place]}

Listed(r) == Kin(r) \cap run[r].listed

(* A permission is kept by finding: the one the comment gives, or else     *)
(* what a listed issue about the finding carries.                          *)
Permissions(r) ==
  IF Releases(r)
  THEN {run[r].event.comment}
  ELSE {s.comment : s \in {u \in stamps : u.place \in Listed(r)}}

(* It is written into a listed issue about the finding, if there is one.   *)
(* If there is none and the finding is found, a closed one is reopened     *)
(* with it, or a new one is raised.                                        *)
Returning(r, found) ==
  LET absent == {i \in Kin(r) : found /\ Listed(r) = {} /\ state[i] # "open"}
      closed == {i \in absent : state[i] = "closed"}
  IN IF closed = {} THEN absent ELSE closed

(* The issue's text is replaced, permission included.                      *)
Stamped(i, given) ==
  {s \in stamps : s.place # i} \cup {[place |-> i, comment |-> n] : n \in given}

Rewrite(r, i) ==
  \/ Permissions(r) = {} /\ stamps' = Stamped(i, {})
  \/ \E n \in Permissions(r) : stamps' = Stamped(i, {n})

(* The check has run and the issues are reconciled, or not: the report     *)
(* follows either way.  An issue that is reopened may not be rewritten     *)
(* any more, and a new one may be left for another run.                    *)
Record(r, stored, found) ==
  /\ run[r].at = "checking" /\ run[r].place \in Issues
  /\ stored \/ "platform" \in Faults
  /\ \/ /\ Listed(r) # {} => ~ stored
        /\ UNCHANGED <<stamps, state>>
     \/ \E i \in Listed(r) : stored /\ Rewrite(r, i) /\ UNCHANGED state
     \/ \E i \in Returning(r, found) :
          /\ state' = [state EXCEPT ![i] = "open"]
          /\ IF stored THEN Rewrite(r, i) ELSE UNCHANGED stamps
  /\ run' = [run EXCEPT ![r].at = "reporting"]
  /\ UNCHANGED <<comments, events, odd, reviewed, dropped>>

(* A thread's commenter is answered by the review, or by none if the       *)
(* change is a draft or has moved.                                         *)
Publish(r, withheld) ==
  /\ run[r].at = "checking" /\ run[r].place \in Threads
  /\ withheld => "moved" \in Faults
  /\ IF withheld
     THEN dropped' = dropped \cup {run[r].event.comment} /\ UNCHANGED reviewed
     ELSE reviewed' = reviewed \cup {run[r].event.comment} /\ UNCHANGED dropped
  /\ run' = [run EXCEPT ![r] = Idle]
  /\ UNCHANGED <<comments, events, stamps, state, odd>>

(* The reply, or the report of a check, is posted in the conversation.     *)
Deliver(r) ==
  /\ run[r].at \in {"delivering", "reporting"}
  /\ Post(Agent, run[r].place, "reply", run[r].event.comment)
  /\ run' = [run EXCEPT ![r] = Idle]
  /\ UNCHANGED <<stamps, state, odd, reviewed, dropped>>

(* A call is refused, or the job is killed.                                *)
GivesUp(r) ==
  /\ "platform" \in Faults
  /\ run[r].at # "idle"
  /\ Odd
  /\ run' = [run EXCEPT ![r] = Idle]
  /\ dropped' = dropped \cup {run[r].event.comment}
  /\ UNCHANGED <<comments, events, stamps, state, reviewed>>

-----------------------------------------------------------------------------
Works(r) ==
  \/ \E known \in BOOLEAN : Decline(r, known) \/ Admit(r, known)
  \/ \E reading \in Intents \cup {"unsure"} : Read(r, reading)
  \/ Ignore(r) \/ WriteReply(r) \/ Halt(r) \/ Recheck(r)
  \/ \E stored, found \in BOOLEAN : Record(r, stored, found)
  \/ \E withheld \in BOOLEAN : Publish(r, withheld)
  \/ Deliver(r)

Takes == \E r \in Runs, e \in events : Take(r, e)

Around ==
  \/ \E said \in Sayings : Say(said)
  \/ \E i \in Issues : CloseOrReopen(i)
  \/ \E n \in DOMAIN comments :
       \/ Delete(n) \/ Redeliver(n)
       \/ \E a \in Accounts, w \in Issues \cup {Change} : Mix(a, n, w)
  \/ \E e \in events : Lose(e)

Next == Takes \/ (\E r \in Runs : Works(r) \/ GivesUp(r)) \/ Around

Spec == Init /\ [][Next]_vars

(* A job that waits is started, and one that runs goes on.                 *)
FairSpec == Spec /\ WF_vars(Takes) /\ \A r \in Runs : WF_vars(Works(r))

-----------------------------------------------------------------------------
(* Properties.                                                             *)

Comment ==
  [author : Accounts, place : Places, asks : Intents \cup {"nothing", "reply"},
   to : Nat, gone : BOOLEAN]

SomeEvent == [actor : Accounts, comment : Nat, where : Issues \cup {Change}]

Run ==
  [at : {"idle", "woken", "admitted", "read", "delivering", "checking", "reporting"},
   event : SomeEvent, place : Places \cup {Change},
   reading : Intents \cup {"unsure"}, listed : SUBSET Issues]

(* Every variable holds what the code's data can be; a permission is on an *)
(* issue, and there is one per issue.                                      *)
TypeOK ==
  /\ comments \in Seq(Comment)
  /\ events \subseteq SomeEvent /\ \A e \in events : e.comment \in DOMAIN comments
  /\ run \in [Runs -> Run]
  /\ \A r \in Runs :
       /\ run[r].at # "idle" => run[r].event.comment \in DOMAIN comments
       /\ run[r].at \notin {"idle", "woken"} => run[r].place \in Places
  /\ stamps \subseteq [place : Issues, comment : DOMAIN comments]
  /\ \A s, t \in stamps : s.place = t.place => s = t
  /\ state \in [Issues -> {"open", "closed", "none"}]
  /\ odd \in 0..MaxOdd
  /\ reviewed \subseteq DOMAIN comments /\ dropped \subseteq DOMAIN comments

(* Somebody with write access, and no machine, wrote this comment in a     *)
(* conversation of the agent's.                                            *)
FromColleague(n) ==
  /\ comments[n].author \in Writers \ (Machines \cup {Agent})
  /\ comments[n].place \notin Foreign

(* Whatever events are repeated or put together wrongly, the agent writes  *)
(* only to colleagues, where they wrote, and never answers itself.         *)
AnswersColleagues ==
  /\ \A n \in DOMAIN comments : comments[n].author = Agent =>
       /\ FromColleague(comments[n].to)
       /\ comments[n].place = comments[comments[n].to].place
  /\ \A n \in reviewed : FromColleague(n) /\ comments[n].place \in Threads

(* A permission on an issue was given by a colleague, in a comment on an   *)
(* issue about the same finding, and never on one that only waits for the  *)
(* clock: not on what is about another finding, and not in a review, to    *)
(* whichever issue it moves when issues are closed, reopened and raised    *)
(* again (_release, _keep_approvals, granted).                             *)
GrantIsGiven ==
  \A s \in stamps :
    /\ FromColleague(s.comment)
    /\ comments[s.comment].asks = "unlock"
    /\ comments[s.comment].place \in Issues \ Clock
    /\ KeyOf[comments[s.comment].place] = KeyOf[s.place]

(* What a colleague may expect an answer to: not what asks for nothing,    *)
(* nor a check that is not part of the plan any more.                      *)
Awaited(n) ==
  /\ n \in DOMAIN comments /\ FromColleague(n)
  /\ \/ comments[n].asks \in {"question", "fix"}
     \/ comments[n].asks = "recheck" /\ comments[n].place \in Planned
     \/ comments[n].asks = "unlock" /\ comments[n].place \in Planned \cup Clock

Told(n) == n \in reviewed \/ \E m \in DOMAIN comments : comments[m].to = n

Lost(n) == n \in dropped \/ (n \in DOMAIN comments /\ comments[n].gone)

(* Whoever asks is told what came of it, if sessions fail, readings are    *)
(* unsure and other comments wake other runs: silence is only what a lost  *)
(* event, a refused call or a deleted comment leaves.                      *)
AskerIsTold == \A n \in 1..MaxSaid : Awaited(n) ~> Told(n) \/ Lost(n)
=============================================================================
