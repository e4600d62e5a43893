------------------------- MODULE ConversationProofs -------------------------
(***************************************************************************)
(* Who is answered and whose permission counts, for any accounts, comments *)
(* and events, and any number of runs.                                     *)
(***************************************************************************)
EXTENDS Conversation, TLAPS

(* The platform says whose account the agent is.                           *)
KnowsItself == "identity" \notin Faults

(* No reading of a comment is sure and wrong.                              *)
ReadsRight == "misread" \notin Faults

(* A run past admission is in the conversation a colleague spoke in.       *)
Hears(r) ==
  run[r].at \notin {"idle", "woken"} =>
    /\ FromColleague(run[r].event.comment)
    /\ run[r].place = comments[run[r].event.comment].place

HearsColleague == \A r \in Runs : Hears(r)

(* What the agent wrote answers a comment that is there.                   *)
AnswersColleague(n) ==
  comments[n].author = Agent =>
    /\ comments[n].to \in DOMAIN comments
    /\ FromColleague(comments[n].to)
    /\ comments[n].place = comments[comments[n].to].place

ReviewsColleague(n) == FromColleague(n) /\ comments[n].place \in Threads

Answers ==
  /\ \A n \in DOMAIN comments : AnswersColleague(n)
  /\ \A n \in reviewed : ReviewsColleague(n)

ConversationInv == TypeOK /\ HearsColleague /\ Answers

(* What is known of a comment does not change: it may only be deleted.     *)
Stand ==
  /\ DOMAIN comments \subseteq DOMAIN comments'
  /\ \A n \in DOMAIN comments :
       /\ comments'[n].author = comments[n].author
       /\ comments'[n].place = comments[n].place
       /\ comments'[n].asks = comments[n].asks
       /\ comments'[n].to = comments[n].to

-----------------------------------------------------------------------------
LEMMA IdleIsRun == Idle \in Run
BY ConversationAssumption DEF Idle, Run, Event, SomeEvent, Intents

LEMMA HomeTyped ==
  ASSUME NEW place \in Places PROVE Home(place) \in Issues \cup {Change}
BY DEF Home, Places

(* One more comment, and the event that tells of it.                       *)
LEMMA PostGrows ==
  ASSUME TypeOK, NEW account \in Accounts, NEW place \in Places,
         NEW asks \in Intents \cup {"nothing", "reply"}, NEW to \in Nat,
         Post(account, place, asks, to)
  PROVE  /\ comments' \in Seq(Comment)
         /\ DOMAIN comments' = DOMAIN comments \cup {Len(comments) + 1}
         /\ comments'[Len(comments) + 1].author = account
         /\ comments'[Len(comments) + 1].place = place
         /\ comments'[Len(comments) + 1].to = to
         /\ Stand
         /\ events' \subseteq SomeEvent
         /\ \A e \in events' : e.comment \in DOMAIN comments'
<1> DEFINE new == [author |-> account, place |-> place, asks |-> asks, to |-> to, gone |-> FALSE]
           told == Event(account, Len(comments) + 1, Home(place))
<1>1. new \in Comment
  BY DEF Comment
<1>2. /\ new.author = account /\ new.place = place /\ new.to = to
  OBVIOUS
<1>3. comments \in Seq(Comment) /\ events \subseteq SomeEvent
      /\ \A e \in events : e.comment \in DOMAIN comments
  BY DEF TypeOK
<1>4. comments' = Append(comments, new) /\ events' = events \cup {told}
  BY DEF Post
<1>5. told \in SomeEvent /\ told.comment = Len(comments) + 1
  BY <1>3, HomeTyped DEF Event, SomeEvent
<1> HIDE DEF new, told
<1>6. /\ comments' \in Seq(Comment)
      /\ DOMAIN comments' = DOMAIN comments \cup {Len(comments) + 1}
      /\ comments'[Len(comments) + 1] = new
      /\ \A n \in DOMAIN comments : comments'[n] = comments[n]
  BY <1>1, <1>3, <1>4
<1> QED
  BY <1>2, <1>3, <1>4, <1>5, <1>6 DEF Stand

(* What the record of one run has to be for the types to stay.             *)
LEMMA RunTyped ==
  ASSUME TypeOK, NEW r \in Runs, NEW rec \in Run, run' = [run EXCEPT ![r] = rec],
         rec.at # "idle" => rec.event.comment \in DOMAIN comments',
         rec.at \notin {"idle", "woken"} => rec.place \in Places,
         DOMAIN comments \subseteq DOMAIN comments'
  PROVE  /\ run' \in [Runs -> Run]
         /\ \A s \in Runs :
              /\ run'[s].at # "idle" => run'[s].event.comment \in DOMAIN comments'
              /\ run'[s].at \notin {"idle", "woken"} => run'[s].place \in Places
<1>1. run \in [Runs -> Run]
      /\ \A s \in Runs :
           /\ run[s].at # "idle" => run[s].event.comment \in DOMAIN comments
           /\ run[s].at \notin {"idle", "woken"} => run[s].place \in Places
  BY DEF TypeOK
<1> QED
  BY <1>1

-----------------------------------------------------------------------------
(* Types, action by action.                                                *)

LEMMA SayTyped ==
  ASSUME TypeOK, NEW said \in Sayings, Say(said) PROVE TypeOK' /\ Stand
<1>1. /\ said.author \in Accounts /\ said.place \in Places
      /\ said.asks \in Intents \cup {"nothing", "reply"}
  BY SayingsAssumption
<1>2. Post(said.author, said.place, said.asks, 0)
      /\ UNCHANGED <<run, stamps, state, odd, reviewed, dropped>>
  BY DEF Say
<1> QED
  BY <1>1, <1>2, PostGrows DEF TypeOK, Stand

(* People, the workflow and machines.                                      *)
LEMMA AroundTyped ==
  ASSUME TypeOK, Around PROVE TypeOK' /\ Stand
<1>1. ASSUME NEW said \in Sayings, Say(said) PROVE TypeOK' /\ Stand
  BY <1>1, SayTyped
<1>2. ASSUME NEW i \in Issues, CloseOrReopen(i) PROVE TypeOK' /\ Stand
  BY <1>2, ConversationAssumption DEF CloseOrReopen, Odd, TypeOK, Stand
<1>3. ASSUME NEW n \in DOMAIN comments, Delete(n) PROVE TypeOK' /\ Stand
  <2>1. comments \in Seq(Comment) /\ comments[n] \in Comment
    BY DEF TypeOK
  <2> DEFINE rec == [comments[n] EXCEPT !.gone = TRUE]
  <2>2. rec \in Comment /\ rec.author = comments[n].author /\ rec.place = comments[n].place
        /\ rec.asks = comments[n].asks /\ rec.to = comments[n].to
    BY <2>1 DEF Comment
  <2>3. comments' = [comments EXCEPT ![n] = rec]
    BY <1>3 DEF Delete
  <2> HIDE DEF rec
  <2>4. comments' \in Seq(Comment) /\ DOMAIN comments' = DOMAIN comments /\ Stand
    BY <2>1, <2>2, <2>3 DEF Stand
  <2> QED
    BY <1>3, <2>4, ConversationAssumption DEF Delete, Odd, TypeOK
<1>4. ASSUME NEW n \in DOMAIN comments, Redeliver(n) PROVE TypeOK' /\ Stand
  <2>1. comments[n].author \in Accounts /\ Home(comments[n].place) \in Issues \cup {Change}
        /\ n \in Nat
    <3>1. comments \in Seq(Comment) /\ comments[n] \in Comment
      BY DEF TypeOK
    <3>2. comments[n].author \in Accounts /\ comments[n].place \in Places
      BY <3>1 DEF Comment
    <3> QED
      BY <3>1, <3>2, HomeTyped
  <2> QED
    BY <1>4, <2>1, ConversationAssumption
    DEF Redeliver, Odd, TypeOK, Stand, Event, SomeEvent
<1>5. ASSUME NEW n \in DOMAIN comments, NEW a \in Accounts, NEW w \in Issues \cup {Change},
             Mix(a, n, w)
      PROVE  TypeOK' /\ Stand
  <2>1. n \in Nat
    BY DEF TypeOK
  <2> QED
    BY <1>5, <2>1, ConversationAssumption DEF Mix, Odd, TypeOK, Stand, Event, SomeEvent
<1>6. ASSUME NEW e \in events, Lose(e) PROVE TypeOK' /\ Stand
  BY <1>6, ConversationAssumption DEF Lose, Odd, TypeOK, Stand
<1> QED
  BY <1>1, <1>2, <1>3, <1>4, <1>5, <1>6 DEF Around

LEMMA TakeTyped ==
  ASSUME TypeOK, NEW r \in Runs, NEW e \in events, Take(r, e) PROVE TypeOK' /\ Stand
<1> DEFINE rec == [Idle EXCEPT !.at = "woken", !.event = e]
<1>1. e \in SomeEvent /\ e.comment \in DOMAIN comments
  BY DEF TypeOK
<1>2. rec \in Run /\ rec.event = e /\ rec.at = "woken"
  BY <1>1, ConversationAssumption DEF Idle, Run, Intents
<1>3. run' = [run EXCEPT ![r] = rec]
  BY DEF Take
<1>4. comments' = comments
  BY DEF Take
<1> HIDE DEF rec
<1>5. /\ run' \in [Runs -> Run]
      /\ \A s \in Runs :
           /\ run'[s].at # "idle" => run'[s].event.comment \in DOMAIN comments'
           /\ run'[s].at \notin {"idle", "woken"} => run'[s].place \in Places
  BY <1>1, <1>2, <1>3, <1>4, RunTyped
<1> QED
  BY <1>4, <1>5 DEF Take, TypeOK, Stand

(* A record that changes how far a run is, and what it read.               *)
LEMMA RecordTyped ==
  ASSUME TypeOK, NEW r \in Runs
  PROVE  /\ run[r] \in Run
         /\ \A a \in {"read", "delivering", "checking", "reporting"} :
              [run[r] EXCEPT !.at = a] \in Run
         /\ \A reading \in Intents \cup {"unsure"} :
              [run[r] EXCEPT !.at = "read", !.reading = reading] \in Run
         /\ \A place \in Places, listed \in SUBSET Issues :
              [run[r] EXCEPT !.at = "admitted", !.place = place, !.listed = listed] \in Run
<1>1. run[r] \in Run
  BY DEF TypeOK
<1>2. \A a \in {"read", "delivering", "checking", "reporting"} : [run[r] EXCEPT !.at = a] \in Run
  BY <1>1 DEF Run
<1>3. \A reading \in Intents \cup {"unsure"} :
        [run[r] EXCEPT !.at = "read", !.reading = reading] \in Run
  BY <1>1 DEF Run
<1>4. \A place \in Places, listed \in SUBSET Issues :
        [run[r] EXCEPT !.at = "admitted", !.place = place, !.listed = listed] \in Run
  BY <1>1 DEF Run
<1> QED
  BY <1>1, <1>2, <1>3, <1>4

(* The steps of one run that change nothing but its record and, at most,   *)
(* permissions and what is observed.                                       *)
LEMMA StepTyped ==
  ASSUME TypeOK, NEW r \in Runs, NEW rec \in Run, run' = [run EXCEPT ![r] = rec],
         rec.at # "idle" => rec.event.comment \in DOMAIN comments,
         rec.at \notin {"idle", "woken"} => rec.place \in Places,
         UNCHANGED <<comments, events>>,
         state' \in [Issues -> {"open", "closed", "none"}],
         odd' \in 0..MaxOdd,
         stamps' \subseteq [place : Issues, comment : DOMAIN comments],
         \A s, t \in stamps' : s.place = t.place => s = t,
         reviewed' \subseteq DOMAIN comments, dropped' \subseteq DOMAIN comments
  PROVE  TypeOK' /\ Stand
<1>1. /\ run' \in [Runs -> Run]
      /\ \A s \in Runs :
           /\ run'[s].at # "idle" => run'[s].event.comment \in DOMAIN comments'
           /\ run'[s].at \notin {"idle", "woken"} => run'[s].place \in Places
  BY RunTyped
<1> QED
  BY <1>1 DEF TypeOK, Stand

(* What a run writes a permission on, and which.                           *)
LEMMA PermissionsTyped ==
  ASSUME TypeOK, NEW r \in Runs, run[r].at # "idle"
  PROVE  Permissions(r) \subseteq DOMAIN comments
<1>1. run[r].event.comment \in DOMAIN comments
  BY DEF TypeOK
<1>2. \A s \in stamps : s.comment \in DOMAIN comments
  BY DEF TypeOK
<1> QED
  BY <1>1, <1>2 DEF Permissions

LEMMA StampedTyped ==
  ASSUME TypeOK, NEW i \in Issues, NEW given, given \subseteq DOMAIN comments,
         \A m, n \in given : m = n
  PROVE  /\ Stamped(i, given) \subseteq [place : Issues, comment : DOMAIN comments]
         /\ \A s, t \in Stamped(i, given) : s.place = t.place => s = t
<1>1. /\ stamps \subseteq [place : Issues, comment : DOMAIN comments]
      /\ \A s, t \in stamps : s.place = t.place => s = t
  BY DEF TypeOK
<1> QED
  BY <1>1 DEF Stamped

LEMMA RewriteTyped ==
  ASSUME TypeOK, NEW r \in Runs, run[r].at # "idle", NEW i \in Issues, Rewrite(r, i)
  PROVE  /\ stamps' \subseteq [place : Issues, comment : DOMAIN comments]
         /\ \A s, t \in stamps' : s.place = t.place => s = t
<1>1. PICK given : /\ given \subseteq DOMAIN comments
                   /\ \A m, n \in given : m = n
                   /\ stamps' = Stamped(i, given)
  <2>1. CASE stamps' = Stamped(i, {})
    BY <2>1
  <2>2. ASSUME NEW n \in Permissions(r), stamps' = Stamped(i, {n})
        PROVE  \E given : /\ given \subseteq DOMAIN comments
                          /\ \A k, m \in given : k = m
                          /\ stamps' = Stamped(i, given)
    <3>1. {n} \subseteq DOMAIN comments
      BY PermissionsTyped
    <3> QED
      BY <2>2, <3>1
  <2> QED
    BY <2>1, <2>2 DEF Rewrite
<1> QED
  BY <1>1, StampedTyped

LEMMA RecordStamps ==
  ASSUME TypeOK, NEW r \in Runs, NEW stored \in BOOLEAN, NEW found \in BOOLEAN,
         Record(r, stored, found)
  PROVE  /\ stamps' \subseteq [place : Issues, comment : DOMAIN comments]
         /\ \A s, t \in stamps' : s.place = t.place => s = t
         /\ state' \in [Issues -> {"open", "closed", "none"}]
<1>1. run[r].at # "idle" /\ Listed(r) \subseteq Issues /\ Returning(r, found) \subseteq Issues
  BY DEF Record, Listed, Returning, Kin, Tracked
<1>2. CASE UNCHANGED <<stamps, state>>
  BY <1>2 DEF TypeOK
<1>3. ASSUME NEW i \in Issues, Rewrite(r, i) \/ UNCHANGED stamps,
             state' = state \/ state' = [state EXCEPT ![i] = "open"]
      PROVE  /\ stamps' \subseteq [place : Issues, comment : DOMAIN comments]
             /\ \A s, t \in stamps' : s.place = t.place => s = t
             /\ state' \in [Issues -> {"open", "closed", "none"}]
  <2>1. state' \in [Issues -> {"open", "closed", "none"}]
    BY <1>3 DEF TypeOK
  <2>2. CASE Rewrite(r, i)
    BY <1>1, <2>1, <2>2, RewriteTyped
  <2>3. CASE UNCHANGED stamps
    BY <2>1, <2>3 DEF TypeOK
  <2> QED
    BY <1>3, <2>2, <2>3
<1>4. ASSUME NEW i \in Listed(r), stored, Rewrite(r, i), UNCHANGED state
      PROVE  \E j \in Issues : /\ Rewrite(r, j) \/ UNCHANGED stamps
                               /\ state' = state \/ state' = [state EXCEPT ![j] = "open"]
  BY <1>1, <1>4
<1>5. ASSUME NEW i \in Returning(r, found), state' = [state EXCEPT ![i] = "open"],
             IF stored THEN Rewrite(r, i) ELSE UNCHANGED stamps
      PROVE  \E j \in Issues : /\ Rewrite(r, j) \/ UNCHANGED stamps
                               /\ state' = state \/ state' = [state EXCEPT ![j] = "open"]
  BY <1>1, <1>5
<1> QED
  BY <1>2, <1>3, <1>4, <1>5 DEF Record

LEMMA WorksTyped ==
  ASSUME TypeOK, NEW r \in Runs, Works(r) \/ GivesUp(r) PROVE TypeOK' /\ Stand
<1>1. /\ run[r] \in Run /\ odd \in 0..MaxOdd
      /\ run[r].at # "idle" => run[r].event.comment \in DOMAIN comments
      /\ run[r].at \notin {"idle", "woken"} => run[r].place \in Places
      /\ stamps \subseteq [place : Issues, comment : DOMAIN comments]
      /\ \A s, t \in stamps : s.place = t.place => s = t
      /\ reviewed \subseteq DOMAIN comments /\ dropped \subseteq DOMAIN comments
      /\ state \in [Issues -> {"open", "closed", "none"}]
  BY DEF TypeOK
<1>2. Idle.at = "idle"
  BY DEF Idle
<1>3. ASSUME run' = [run EXCEPT ![r] = Idle],
             UNCHANGED <<comments, events, stamps, state, odd, reviewed, dropped>>
      PROVE  TypeOK' /\ Stand
  BY <1>1, <1>2, <1>3, IdleIsRun, StepTyped
<1>4. ASSUME NEW known \in BOOLEAN, Decline(r, known) PROVE TypeOK' /\ Stand
  BY <1>3, <1>4 DEF Decline
<1>5. ASSUME NEW known \in BOOLEAN, Admit(r, known) PROVE TypeOK' /\ Stand
  <2> DEFINE place == Conversed(run[r].event)
             listed == {i \in Tracked : state[i] = "open"}
             rec == [run[r] EXCEPT !.at = "admitted", !.place = place, !.listed = listed]
  <2>1. run[r].at = "woken" /\ run' = [run EXCEPT ![r] = rec]
        /\ UNCHANGED <<comments, events, stamps, state, odd, reviewed, dropped>>
    BY <1>5 DEF Admit
  <2>2. place \in Places
    <3>1. comments \in Seq(Comment) /\ run[r].event.comment \in DOMAIN comments
      BY <1>1, <2>1 DEF TypeOK
    <3>2. comments[run[r].event.comment] \in Comment
      BY <3>1
    <3>3. comments[run[r].event.comment].place \in Places
      BY <3>2 DEF Comment
    <3> QED
      BY <3>3 DEF Conversed, Places
  <2>3. listed \in SUBSET Issues
    BY DEF Tracked
  <2>4. rec \in Run
    BY <2>2, <2>3, RecordTyped
  <2>5. rec.event = run[r].event /\ rec.place = place
    BY <1>1 DEF Run
  <2> HIDE DEF rec
  <2> QED
    BY <1>1, <2>1, <2>2, <2>4, <2>5, StepTyped
<1>6. ASSUME NEW reading \in Intents \cup {"unsure"}, Read(r, reading) PROVE TypeOK' /\ Stand
  <2> DEFINE rec == [run[r] EXCEPT !.at = "read", !.reading = reading]
  <2>1. rec \in Run
    BY RecordTyped
  <2>2. rec.event = run[r].event /\ rec.place = run[r].place
    BY <1>1 DEF Run
  <2>3. run[r].at = "admitted" /\ run' = [run EXCEPT ![r] = rec]
    BY <1>6 DEF Read
  <2> HIDE DEF rec
  <2> QED
    BY <1>1, <1>6, <2>2, <2>1, <2>3, StepTyped DEF Read
<1>7. ASSUME Ignore(r) PROVE TypeOK' /\ Stand
  BY <1>3, <1>7 DEF Ignore
<1>8. ASSUME NEW a \in {"read", "delivering", "checking", "reporting"},
             run[r].at \notin {"idle", "woken"}, run' = [run EXCEPT ![r] = [run[r] EXCEPT !.at = a]],
             UNCHANGED <<comments, events, odd, reviewed, dropped>>,
             state' \in [Issues -> {"open", "closed", "none"}],
             stamps' \subseteq [place : Issues, comment : DOMAIN comments],
             \A s, t \in stamps' : s.place = t.place => s = t
      PROVE  TypeOK' /\ Stand
  <2> DEFINE rec == [run[r] EXCEPT !.at = a]
  <2>1. rec \in Run
    BY RecordTyped
  <2>2. rec.event = run[r].event /\ rec.place = run[r].place
    BY <1>1 DEF Run
  <2>3. run' = [run EXCEPT ![r] = rec]
    BY <1>8
  <2> HIDE DEF rec
  <2> QED
    BY <1>1, <1>8, <2>2, <2>1, <2>3, StepTyped
<1>9. ASSUME WriteReply(r) PROVE TypeOK' /\ Stand
  BY <1>1, <1>8, <1>9 DEF WriteReply
<1>10. ASSUME Halt(r) PROVE TypeOK' /\ Stand
  BY <1>3, <1>10 DEF Halt
<1>11. ASSUME Recheck(r) PROVE TypeOK' /\ Stand
  BY <1>1, <1>8, <1>11 DEF Recheck
<1>12. ASSUME NEW stored \in BOOLEAN, NEW found \in BOOLEAN, Record(r, stored, found)
       PROVE  TypeOK' /\ Stand
  <2>1. /\ run[r].at = "checking"
        /\ run' = [run EXCEPT ![r] = [run[r] EXCEPT !.at = "reporting"]]
        /\ UNCHANGED <<comments, events, odd, reviewed, dropped>>
    BY <1>12 DEF Record
  <2> QED
    BY <1>8, <1>12, <2>1, RecordStamps
<1>13. ASSUME NEW withheld \in BOOLEAN, Publish(r, withheld) PROVE TypeOK' /\ Stand
  BY <1>1, <1>2, <1>13, IdleIsRun, StepTyped DEF Publish
<1>14. ASSUME Deliver(r) PROVE TypeOK' /\ Stand
  <2>1. /\ run[r].at \in {"delivering", "reporting"}
        /\ Post(Agent, run[r].place, "reply", run[r].event.comment)
        /\ run' = [run EXCEPT ![r] = Idle]
        /\ UNCHANGED <<stamps, state, odd, reviewed, dropped>>
    BY <1>14 DEF Deliver
  <2>2. run[r].event.comment \in DOMAIN comments /\ run[r].place \in Places
        /\ run[r].event.comment \in Nat
    BY <1>1, <2>1 DEF TypeOK
  <2>3. /\ comments' \in Seq(Comment) /\ Stand
        /\ events' \subseteq SomeEvent /\ \A e \in events' : e.comment \in DOMAIN comments'
    BY <2>1, <2>2, PostGrows, ConversationAssumption
  <2>4. /\ run' \in [Runs -> Run]
        /\ \A s \in Runs :
             /\ run'[s].at # "idle" => run'[s].event.comment \in DOMAIN comments'
             /\ run'[s].at \notin {"idle", "woken"} => run'[s].place \in Places
    BY <1>2, <2>1, <2>3, IdleIsRun, RunTyped DEF Stand
  <2> QED
    BY <1>1, <2>1, <2>3, <2>4 DEF TypeOK, Stand
<1>15. ASSUME GivesUp(r) PROVE TypeOK' /\ Stand
  <2>1. /\ run' = [run EXCEPT ![r] = Idle] /\ run[r].at # "idle"
        /\ dropped' = dropped \cup {run[r].event.comment}
        /\ UNCHANGED <<comments, events, stamps, state, reviewed>>
    BY <1>15 DEF GivesUp
  <2>2. odd' \in 0..MaxOdd
    BY <1>1, <1>15, ConversationAssumption DEF GivesUp, Odd
  <2> QED
    BY <1>1, <1>2, <2>1, <2>2, IdleIsRun, StepTyped
<1> QED
  BY <1>4, <1>5, <1>6, <1>7, <1>9, <1>10, <1>11, <1>12, <1>13, <1>14, <1>15 DEF Works

LEMMA StepKeepsTypes == ASSUME TypeOK, [Next]_vars PROVE TypeOK' /\ Stand
<1>1. CASE Takes
  BY <1>1, TakeTyped DEF Takes
<1>2. ASSUME NEW r \in Runs, Works(r) \/ GivesUp(r) PROVE TypeOK' /\ Stand
  BY <1>2, WorksTyped
<1>3. CASE Around
  BY <1>3, AroundTyped
<1>4. CASE UNCHANGED vars
  BY <1>4 DEF vars, TypeOK, Stand
<1> QED
  BY <1>1, <1>2, <1>3, <1>4 DEF Next

LEMMA InitTyped == Init => TypeOK
BY IdleIsRun, ConversationAssumption DEF Init, TypeOK, Idle

-----------------------------------------------------------------------------
(* Who is heard.                                                           *)

LEMMA ColleaguesStand ==
  ASSUME TypeOK, Stand, NEW n \in DOMAIN comments, FromColleague(n)
  PROVE  FromColleague(n)'
BY DEF Stand, FromColleague

LEMMA HearsKept ==
  ASSUME TypeOK, HearsColleague, Stand, NEW s \in Runs, run'[s] = run[s]
  PROVE  Hears(s)'
<1>1. CASE run[s].at \in {"idle", "woken"}
  BY <1>1 DEF Hears
<1>2. CASE run[s].at \notin {"idle", "woken"}
  <2>1. PICK n \in DOMAIN comments : n = run[s].event.comment
    BY <1>2 DEF TypeOK
  <2>2. FromColleague(n) /\ run'[s].place = comments[n].place /\ run'[s].event.comment = n
    BY <1>2, <2>1 DEF HearsColleague, Hears
  <2>3. FromColleague(n)' /\ comments'[n].place = comments[n].place
    BY <2>2, ColleaguesStand DEF Stand
  <2> QED
    BY <2>2, <2>3 DEF Hears
<1> QED
  BY <1>1, <1>2

(* Admission: the account that may write is the one that spoke, here.      *)
LEMMA AdmittedIsColleague ==
  ASSUME TypeOK, NEW e \in SomeEvent, e.comment \in DOMAIN comments, Admitted(e, TRUE)
  PROVE  FromColleague(e.comment) /\ Conversed(e) = comments[e.comment].place
<1>1. comments \in Seq(Comment) /\ comments[e.comment] \in Comment
  BY DEF TypeOK
<1>2. comments[e.comment].place \in Places
  BY <1>1 DEF Comment
<1>3. Conversed(e) = comments[e.comment].place
  BY <1>2, ConversationAssumption DEF Admitted, Belongs, Home, Conversed, Places
<1> QED
  BY <1>3 DEF Admitted, Heard, Spoken, FromColleague

(* What a step of one run leaves of its conversation.                      *)
LEMMA WorksHear ==
  ASSUME KnowsItself, TypeOK, HearsColleague, TypeOK', Stand,
         NEW r \in Runs, Works(r) \/ GivesUp(r)
  PROVE  HearsColleague'
<1>1. run \in [Runs -> Run] /\ run' \in [Runs -> Run]
  BY DEF TypeOK
<1>2. /\ run[r].at # "idle" => run[r].event.comment \in DOMAIN comments
      /\ run[r].event \in SomeEvent
  BY <1>1 DEF TypeOK, Run
<1>3. \A s \in Runs \ {r} : run'[s] = run[s]
  BY <1>1 DEF Works, GivesUp, Decline, Admit, Read, Ignore, WriteReply, Halt, Recheck, Record,
              Publish, Deliver
<1>4. \/ run'[r].at = "idle"
      \/ /\ run'[r].event = run[r].event
         /\ run'[r].place = run[r].place
         /\ run[r].at \notin {"idle", "woken"}
      \/ /\ run'[r].event = run[r].event
         /\ run'[r].place = Conversed(run[r].event)
         /\ Admitted(run[r].event, TRUE) /\ run[r].at = "woken"
  <2>1. run[r] \in Run
    BY <1>1
  <2>2. ASSUME run' = [run EXCEPT ![r] = Idle] PROVE run'[r].at = "idle"
    BY <1>1, <2>2 DEF Idle
  <2>3. ASSUME NEW a \in STRING, run' = [run EXCEPT ![r].at = a]
        PROVE  run'[r].event = run[r].event /\ run'[r].place = run[r].place
    BY <1>1, <2>1, <2>3 DEF Run
  <2>4. ASSUME NEW known \in BOOLEAN, Admit(r, known)
        PROVE  /\ run'[r].event = run[r].event /\ run'[r].place = Conversed(run[r].event)
               /\ Admitted(run[r].event, TRUE) /\ run[r].at = "woken"
    <3>1. known = TRUE
      BY <2>4 DEF Admit, KnowsItself
    <3> QED
      BY <1>1, <2>1, <2>4, <3>1 DEF Admit, Run
  <2>5. ASSUME NEW reading \in Intents \cup {"unsure"}, Read(r, reading)
        PROVE  /\ run'[r].event = run[r].event /\ run'[r].place = run[r].place
               /\ run[r].at = "admitted"
    BY <1>1, <2>1, <2>5 DEF Read, Run
  <2>6. ASSUME \/ WriteReply(r) \/ Recheck(r)
               \/ \E stored, found \in BOOLEAN : Record(r, stored, found)
        PROVE  /\ run'[r].event = run[r].event /\ run'[r].place = run[r].place
               /\ run[r].at \notin {"idle", "woken"}
    <3>1. /\ \E a \in {"delivering", "checking", "reporting"} : run' = [run EXCEPT ![r].at = a]
          /\ run[r].at \in {"read", "checking"}
      BY <2>6 DEF WriteReply, Recheck, Record
    <3> QED
      BY <2>3, <3>1
  <2> QED
    BY <2>2, <2>4, <2>5, <2>6 DEF Works, GivesUp, Decline, Ignore, Halt, Publish, Deliver
<1>5. Hears(r)'
  <2>1. CASE run'[r].at = "idle"
    BY <2>1 DEF Hears
  <2>2. CASE run'[r].at # "idle"
    <3>1. run[r].at # "idle"
      BY <1>4, <2>2
    <3>2. PICK n \in DOMAIN comments : n = run[r].event.comment
      BY <1>2, <3>1
    <3>3. FromColleague(n) /\ run'[r].place = comments[n].place /\ run'[r].event.comment = n
      BY <1>2, <1>4, <2>2, <3>2, AdmittedIsColleague DEF HearsColleague, Hears
    <3>4. FromColleague(n)' /\ comments'[n].place = comments[n].place
      BY <3>3, ColleaguesStand DEF Stand
    <3> QED
      BY <3>3, <3>4 DEF Hears
  <2> QED
    BY <2>1, <2>2
<1>6. ASSUME NEW s \in Runs \ {r} PROVE Hears(s)'
  BY <1>3, <1>6, HearsKept
<1> QED
  BY <1>5, <1>6 DEF HearsColleague

LEMMA StepKeepsHears ==
  ASSUME KnowsItself, TypeOK, HearsColleague, [Next]_vars
  PROVE  HearsColleague'
<1>1. TypeOK' /\ Stand
  BY StepKeepsTypes
<1>2. ASSUME NEW r \in Runs, NEW e \in events, Take(r, e) PROVE HearsColleague'
  <2>1. run' = [run EXCEPT ![r] = [Idle EXCEPT !.at = "woken", !.event = e]]
        /\ run \in [Runs -> Run]
    BY <1>2 DEF Take, TypeOK
  <2>2. run'[r].at = "woken" /\ \A s \in Runs \ {r} : run'[s] = run[s]
    BY <2>1 DEF Idle
  <2> QED
    BY <1>1, <2>2, HearsKept DEF HearsColleague, Hears
<1>3. ASSUME NEW r \in Runs, Works(r) \/ GivesUp(r) PROVE HearsColleague'
  BY <1>1, <1>3, WorksHear
<1>4. CASE Around \/ UNCHANGED vars
  <2>1. run' = run
    BY <1>4 DEF Around, vars, Say, CloseOrReopen, Delete, Redeliver, Mix, Lose
  <2> QED
    BY <1>1, <2>1, HearsKept DEF HearsColleague
<1> QED
  BY <1>2, <1>3, <1>4 DEF Next, Takes

-----------------------------------------------------------------------------
(* Who is answered.                                                        *)

(* Comments that are there stay answers to colleagues.                     *)
LEMMA AnswersKept ==
  ASSUME ConversationInv, Stand, NEW n \in DOMAIN comments
  PROVE  AnswersColleague(n)'
<1>1. CASE comments[n].author # Agent
  BY <1>1 DEF Stand, AnswersColleague
<1>2. CASE comments[n].author = Agent
  <2>1. PICK m \in DOMAIN comments : m = comments[n].to
    BY <1>2 DEF ConversationInv, Answers, AnswersColleague
  <2>2. FromColleague(m) /\ comments[n].place = comments[m].place
    BY <1>2, <2>1 DEF ConversationInv, Answers, AnswersColleague
  <2>3. FromColleague(m)'
    BY <2>2, ColleaguesStand DEF ConversationInv
  <2>4. comments'[n].to = m /\ comments'[n].place = comments'[m].place /\ m \in DOMAIN comments'
    BY <2>1, <2>2 DEF Stand
  <2> QED
    BY <2>3, <2>4 DEF AnswersColleague
<1> QED
  BY <1>1, <1>2

LEMMA ReviewedKept ==
  ASSUME ConversationInv, Stand, NEW n \in DOMAIN comments, ReviewsColleague(n)
  PROVE  ReviewsColleague(n)'
BY ColleaguesStand DEF ConversationInv, ReviewsColleague, Stand

(* A step that neither says nor reviews anything.                          *)
LEMMA NothingSaid ==
  ASSUME ConversationInv, Stand, DOMAIN comments' = DOMAIN comments, reviewed' = reviewed
  PROVE  Answers'
<1>1. ASSUME NEW n \in DOMAIN comments PROVE AnswersColleague(n)'
  BY AnswersKept
<1>2. ASSUME NEW n \in reviewed PROVE ReviewsColleague(n)'
  BY ReviewedKept DEF ConversationInv, TypeOK, Answers
<1> QED
  BY <1>1, <1>2 DEF Answers

LEMMA OneMoreSaid ==
  ASSUME ConversationInv, Stand, reviewed' = reviewed,
         NEW new, DOMAIN comments' = DOMAIN comments \cup {new}, AnswersColleague(new)'
  PROVE  Answers'
<1>1. ASSUME NEW n \in DOMAIN comments PROVE AnswersColleague(n)'
  BY AnswersKept
<1>2. ASSUME NEW n \in reviewed PROVE ReviewsColleague(n)'
  BY ReviewedKept DEF ConversationInv, TypeOK, Answers
<1> QED
  BY <1>1, <1>2 DEF Answers

LEMMA DeliverAnswers ==
  ASSUME ConversationInv, NEW r \in Runs, Deliver(r), Stand PROVE Answers'
<1>1. /\ run[r].at \in {"delivering", "reporting"}
      /\ Post(Agent, run[r].place, "reply", run[r].event.comment)
      /\ reviewed' = reviewed
  BY DEF Deliver
<1>2. TypeOK /\ run[r].place \in Places
  BY <1>1 DEF ConversationInv, TypeOK
<1>3. PICK m \in DOMAIN comments : m = run[r].event.comment
  BY <1>1 DEF ConversationInv, TypeOK
<1>4. FromColleague(m) /\ run[r].place = comments[m].place
  BY <1>1, <1>3 DEF ConversationInv, HearsColleague, Hears
<1>5. PICK new \in Nat : new = Len(comments) + 1
  BY DEF ConversationInv, TypeOK
<1>6. m \in Nat
  BY <1>2 DEF TypeOK
<1>7. /\ DOMAIN comments' = DOMAIN comments \cup {new}
      /\ comments'[new].place = run[r].place
      /\ comments'[new].to = m
  BY <1>1, <1>2, <1>3, <1>5, <1>6, PostGrows, ConversationAssumption
<1>8. FromColleague(m)'
  BY <1>2, <1>4, ColleaguesStand
<1>9. comments'[m].place = comments[m].place /\ m \in DOMAIN comments'
  BY DEF Stand
<1>10. AnswersColleague(new)'
  BY <1>4, <1>7, <1>8, <1>9 DEF AnswersColleague
<1> QED
  BY <1>1, <1>7, <1>10, OneMoreSaid

LEMMA SayAnswers ==
  ASSUME ConversationInv, NEW said \in Sayings, Say(said), Stand PROVE Answers'
<1>1. /\ said.author \in Accounts \ {Agent} /\ said.place \in Places
      /\ said.asks \in Intents \cup {"nothing", "reply"}
  BY SayingsAssumption
<1>2. Post(said.author, said.place, said.asks, 0) /\ reviewed' = reviewed /\ TypeOK
  BY DEF Say, ConversationInv
<1>3. PICK new \in Nat : new = Len(comments) + 1
  BY DEF ConversationInv, TypeOK
<1>4. DOMAIN comments' = DOMAIN comments \cup {new} /\ comments'[new].author = said.author
  BY <1>1, <1>2, <1>3, PostGrows
<1>5. AnswersColleague(new)'
  BY <1>1, <1>4 DEF AnswersColleague
<1> QED
  BY <1>2, <1>4, <1>5, OneMoreSaid

LEMMA PublishAnswers ==
  ASSUME ConversationInv, NEW r \in Runs, NEW withheld \in BOOLEAN, Publish(r, withheld), Stand
  PROVE  Answers'
<1>1. /\ run[r].at = "checking" /\ run[r].place \in Threads /\ comments' = comments
      /\ reviewed' = reviewed \/ reviewed' = reviewed \cup {run[r].event.comment}
  BY DEF Publish
<1>2. PICK m \in DOMAIN comments : m = run[r].event.comment
  BY <1>1 DEF ConversationInv, TypeOK
<1>3. ReviewsColleague(m)
  BY <1>1, <1>2 DEF ConversationInv, HearsColleague, Hears, ReviewsColleague
<1>4. ASSUME NEW n \in DOMAIN comments PROVE AnswersColleague(n)'
  BY AnswersKept
<1>5. ASSUME NEW n \in reviewed' PROVE ReviewsColleague(n)'
  BY <1>1, <1>2, <1>3, ReviewedKept DEF ConversationInv, TypeOK, Answers
<1> QED
  BY <1>1, <1>4, <1>5 DEF Answers

LEMMA StepKeepsAnswers ==
  ASSUME KnowsItself, ConversationInv, [Next]_vars PROVE ConversationInv'
<1>1. TypeOK' /\ Stand
  BY StepKeepsTypes DEF ConversationInv
<1>2. HearsColleague'
  BY StepKeepsHears DEF ConversationInv
<1>3. ASSUME DOMAIN comments' = DOMAIN comments, reviewed' = reviewed PROVE Answers'
  BY <1>1, <1>3, NothingSaid
<1>4. ASSUME Takes \/ UNCHANGED vars PROVE Answers'
  <2>1. comments' = comments /\ reviewed' = reviewed
    BY <1>4 DEF Takes, Take, vars
  <2> QED
    BY <1>3, <2>1
<1>5. ASSUME NEW r \in Runs, Works(r) \/ GivesUp(r) PROVE Answers'
  <2>1. CASE Deliver(r)
    BY <1>1, <2>1, DeliverAnswers
  <2>2. CASE \E withheld \in BOOLEAN : Publish(r, withheld)
    BY <1>1, <2>2, PublishAnswers
  <2>3. CASE ~ Deliver(r) /\ ~ \E withheld \in BOOLEAN : Publish(r, withheld)
    <3>1. comments' = comments /\ reviewed' = reviewed
      BY <1>5, <2>3 DEF Works, GivesUp, Decline, Admit, Read, Ignore, WriteReply, Halt, Recheck,
                        Record
    <3> QED
      BY <1>3, <3>1
  <2> QED
    BY <2>1, <2>2, <2>3
<1>6. ASSUME Around PROVE Answers'
  <2>1. CASE \E said \in Sayings : Say(said)
    BY <1>1, <2>1, SayAnswers
  <2>2. CASE \E n \in DOMAIN comments : Delete(n)
    <3>1. DOMAIN comments' = DOMAIN comments /\ reviewed' = reviewed
      BY <2>2 DEF Delete
    <3> QED
      BY <1>3, <3>1
  <2>3. CASE ~ (\E said \in Sayings : Say(said)) /\ ~ \E n \in DOMAIN comments : Delete(n)
    <3>1. comments' = comments /\ reviewed' = reviewed
      BY <1>6, <2>3 DEF Around, CloseOrReopen, Redeliver, Mix, Lose
    <3> QED
      BY <1>3, <3>1
  <2> QED
    BY <2>1, <2>2, <2>3
<1> QED
  BY <1>1, <1>2, <1>4, <1>5, <1>6 DEF Next, ConversationInv

LEMMA InitAnswers == Init => ConversationInv
BY InitTyped DEF Init, ConversationInv, HearsColleague, Hears, Answers, Idle

(* The types hold for any accounts and events.                             *)
THEOREM ConversationsTyped == Spec => []TypeOK
<1>1. TypeOK /\ [Next]_vars => TypeOK'
  BY StepKeepsTypes
<1> QED
  BY InitTyped, <1>1, PTL DEF Spec

(* Whatever account an event names and whatever is delivered again: the    *)
(* agent answers people who may write, where they wrote, and not itself,   *)
(* as long as it can tell whose account it publishes as.                   *)
THEOREM OnlyColleagues == ASSUME KnowsItself PROVE Spec => []AnswersColleagues
<1>1. ConversationInv /\ [Next]_vars => ConversationInv'
  BY StepKeepsAnswers
<1>2. ConversationInv => AnswersColleagues
  BY DEF ConversationInv, Answers, AnswersColleague, ReviewsColleague, AnswersColleagues
<1> QED
  BY InitAnswers, <1>1, <1>2, PTL DEF Spec

-----------------------------------------------------------------------------
(* Whose permission counts.                                                *)

(* A run reads a permission out of a comment that gives one, and acts on   *)
(* it only where a person may give it.                                     *)
ReadsWell(r) ==
  run[r].reading = "unlock" =>
    /\ run[r].at \notin {"idle", "woken"}
    /\ comments[run[r].event.comment].asks = "unlock"
    /\ run[r].at = "checking" => run[r].place \notin Clock

GivenFor(n, i) ==
  /\ FromColleague(n)
  /\ comments[n].asks = "unlock"
  /\ comments[n].place \in Issues \ Clock
  /\ KeyOf[comments[n].place] = KeyOf[i]

Given(s) == GivenFor(s.comment, s.place)

GrantInv ==
  /\ ConversationInv
  /\ \A r \in Runs : ReadsWell(r)
  /\ \A s \in stamps : Given(s)

LEMMA ReadingKept ==
  ASSUME GrantInv, Stand, NEW r \in Runs,
         run'[r].reading = "unlock" =>
           /\ run[r].reading = "unlock"
           /\ run'[r].event = run[r].event /\ run'[r].at \notin {"idle", "woken"}
           /\ run'[r].at = "checking" => run'[r].place \notin Clock
  PROVE  ReadsWell(r)'
<1>1. CASE run'[r].reading # "unlock"
  BY <1>1 DEF ReadsWell
<1>2. CASE run'[r].reading = "unlock"
  <2>1. run[r].event.comment \in DOMAIN comments /\ comments[run[r].event.comment].asks = "unlock"
    BY <1>2 DEF GrantInv, ConversationInv, TypeOK, ReadsWell
  <2> QED
    BY <1>2, <2>1 DEF ReadsWell, Stand
<1> QED
  BY <1>1, <1>2

(* A run that starts, stops or goes on reads nothing it was not told.      *)
LEMMA StepReadsWell ==
  ASSUME ReadsRight, GrantInv, TypeOK', Stand, [Next]_vars, NEW r \in Runs
  PROVE  ReadsWell(r)'
<1>1. run \in [Runs -> Run] /\ run' \in [Runs -> Run] /\ run[r] \in Run
  BY DEF GrantInv, ConversationInv, TypeOK
<1>2. ASSUME run'[r] = run[r] PROVE ReadsWell(r)'
  BY <1>2, ReadingKept DEF GrantInv, ReadsWell
<1>3. ASSUME run'[r].reading # "unlock" PROVE ReadsWell(r)'
  BY <1>3 DEF ReadsWell
<1>4. Idle.reading = "unsure" /\ \A e \in events : [Idle EXCEPT !.at = "woken", !.event = e].reading = "unsure"
  BY DEF Idle
<1>5. ASSUME NEW s \in Runs, Works(s) \/ GivesUp(s), s # r PROVE run'[r] = run[r]
  BY <1>1, <1>5 DEF Works, GivesUp, Decline, Admit, Read, Ignore, WriteReply, Halt, Recheck,
                    Record, Publish, Deliver
<1>6. ASSUME NEW s \in Runs, NEW e \in events, Take(s, e) PROVE ReadsWell(r)'
  <2>1. run' = [run EXCEPT ![s] = [Idle EXCEPT !.at = "woken", !.event = e]]
    BY <1>6 DEF Take
  <2>2. CASE s = r
    BY <1>1, <1>3, <1>4, <2>1, <2>2
  <2>3. CASE s # r
    BY <1>1, <1>2, <2>1, <2>3
  <2> QED
    BY <2>2, <2>3
<1>7. ASSUME Works(r) \/ GivesUp(r) PROVE ReadsWell(r)'
  <2>1. CASE run' = [run EXCEPT ![r] = Idle]
    BY <1>1, <1>3, <1>4, <2>1
  <2>2. ASSUME NEW known \in BOOLEAN, Admit(r, known) PROVE ReadsWell(r)'
    <3>1. run[r].at = "woken" /\ run'[r].reading = run[r].reading
      BY <1>1, <2>2 DEF Admit, Run
    <3> QED
      BY <1>3, <3>1 DEF GrantInv, ReadsWell
  <2>3. ASSUME NEW reading \in Intents \cup {"unsure"}, Read(r, reading) PROVE ReadsWell(r)'
    <3>1. /\ run' = [run EXCEPT ![r].at = "read", ![r].reading = reading]
          /\ run[r].at = "admitted"
          /\ reading = "unlock" => Asked(r).asks = "unlock"
      BY <2>3 DEF Read, ReadsRight
    <3>2. run'[r].reading = reading /\ run'[r].at = "read" /\ run'[r].event = run[r].event
      BY <1>1, <3>1 DEF Run
    <3>3. run[r].event.comment \in DOMAIN comments
      BY <3>1 DEF GrantInv, ConversationInv, TypeOK
    <3> QED
      BY <3>1, <3>2, <3>3 DEF ReadsWell, Asked, Stand
  <2>4. ASSUME NEW a \in {"delivering", "checking", "reporting"}, run' = [run EXCEPT ![r].at = a],
               a = "checking" /\ run[r].reading = "unlock" => run[r].place \notin Clock
        PROVE  ReadsWell(r)'
    <3>1. run'[r].reading = run[r].reading /\ run'[r].event = run[r].event
          /\ run'[r].place = run[r].place /\ run'[r].at = a
      BY <1>1, <2>4 DEF Run
    <3> QED
      BY <2>4, <3>1, ReadingKept
  <2>5. CASE WriteReply(r)
    BY <2>4, <2>5 DEF WriteReply
  <2>6. CASE Recheck(r)
    BY <2>4, <2>6 DEF Recheck, Refused
  <2>7. CASE \E stored, found \in BOOLEAN : Record(r, stored, found)
    BY <2>4, <2>7 DEF Record
  <2> QED
    BY <1>7, <2>1, <2>2, <2>3, <2>5, <2>6, <2>7
    DEF Works, GivesUp, Decline, Ignore, Halt, Publish, Deliver
<1>8. ASSUME Around \/ UNCHANGED vars PROVE run'[r] = run[r]
  BY <1>8 DEF Around, vars, Say, CloseOrReopen, Delete, Redeliver, Mix, Lose
<1> QED
  BY <1>2, <1>5, <1>6, <1>7, <1>8 DEF Next, Takes

LEMMA GivenStays ==
  ASSUME TypeOK, Stand, NEW n \in DOMAIN comments, NEW i, GivenFor(n, i)
  PROVE  GivenFor(n, i)'
BY ColleaguesStand DEF GivenFor, Stand

LEMMA GivenKept ==
  ASSUME GrantInv, Stand, NEW s \in stamps PROVE Given(s)'
<1>1. s.comment \in DOMAIN comments /\ GivenFor(s.comment, s.place) /\ TypeOK
  BY DEF GrantInv, ConversationInv, TypeOK, Given
<1>2. PICK n \in DOMAIN comments : n = s.comment
  BY <1>1
<1>3. PICK i : i = s.place
  OBVIOUS
<1>4. GivenFor(n, i)'
  BY <1>1, <1>2, <1>3, GivenStays
<1> QED
  BY <1>2, <1>3, <1>4 DEF Given

(* What a run writes on an issue was given for the issue's finding.        *)
LEMMA RewriteGives ==
  ASSUME GrantInv, NEW r \in Runs, run[r].at = "checking", run[r].place \in Issues,
         NEW i \in Kin(r), Rewrite(r, i), NEW s \in stamps', s \notin stamps
  PROVE  s.comment \in DOMAIN comments /\ GivenFor(s.comment, s.place)
<1>1. PICK n \in Permissions(r) : s = [place |-> i, comment |-> n]
  BY DEF Rewrite, Stamped
<1>2. KeyOf[i] = KeyOf[run[r].place] /\ s.comment = n /\ s.place = i
  BY <1>1 DEF Kin
<1>3. CASE Releases(r)
  <2>1. n = run[r].event.comment /\ run[r].reading = "unlock"
    BY <1>1, <1>3 DEF Permissions, Releases
  <2>2. /\ n \in DOMAIN comments /\ FromColleague(n) /\ comments[n].place = run[r].place
        /\ comments[n].asks = "unlock" /\ run[r].place \notin Clock
    BY <2>1 DEF GrantInv, ConversationInv, TypeOK, HearsColleague, Hears, ReadsWell
  <2> QED
    BY <1>2, <2>2 DEF GivenFor
<1>4. CASE ~ Releases(r)
  <2>1. PICK u \in stamps : u.place \in Listed(r) /\ u.comment = n
    BY <1>1, <1>4 DEF Permissions
  <2>2. KeyOf[u.place] = KeyOf[run[r].place]
    BY <2>1 DEF Listed, Kin
  <2>3. GivenFor(u.comment, u.place) /\ u.comment \in DOMAIN comments
    BY <2>1 DEF GrantInv, ConversationInv, TypeOK, Given
  <2> QED
    BY <1>2, <2>1, <2>2, <2>3 DEF GivenFor
<1> QED
  BY <1>3, <1>4

LEMMA RecordGives ==
  ASSUME GrantInv, NEW r \in Runs, NEW stored \in BOOLEAN, NEW found \in BOOLEAN,
         Record(r, stored, found), NEW s \in stamps', s \notin stamps
  PROVE  s.comment \in DOMAIN comments /\ GivenFor(s.comment, s.place)
<1>1. run[r].at = "checking" /\ run[r].place \in Issues
  BY DEF Record
<1>2. PICK i \in Listed(r) \cup Returning(r, found) : Rewrite(r, i)
  BY DEF Record
<1>3. i \in Kin(r)
  BY <1>2 DEF Listed, Returning
<1> QED
  BY <1>1, <1>2, <1>3, RewriteGives

LEMMA StepKeepsGrants ==
  ASSUME KnowsItself, ReadsRight, GrantInv, [Next]_vars PROVE GrantInv'
<1>1. TypeOK' /\ Stand
  BY StepKeepsTypes DEF GrantInv, ConversationInv
<1>2. ConversationInv'
  BY StepKeepsAnswers DEF GrantInv
<1>3. \A r \in Runs : ReadsWell(r)'
  BY <1>1, StepReadsWell
<1>4. ASSUME NEW r \in Runs, NEW stored \in BOOLEAN, NEW found \in BOOLEAN,
             Record(r, stored, found), NEW s \in stamps'
      PROVE  Given(s)'
  <2>1. CASE s \in stamps
    BY <1>1, <2>1, GivenKept
  <2>2. CASE s \notin stamps
    <3>1. s.comment \in DOMAIN comments /\ GivenFor(s.comment, s.place) /\ TypeOK
      BY <1>4, <2>2, RecordGives DEF GrantInv, ConversationInv
    <3>2. PICK n \in DOMAIN comments : n = s.comment
      BY <3>1
    <3>3. PICK i : i = s.place
      OBVIOUS
    <3>4. GivenFor(n, i)'
      BY <1>1, <3>1, <3>2, <3>3, GivenStays
    <3> QED
      BY <3>2, <3>3, <3>4 DEF Given
  <2> QED
    BY <2>1, <2>2
<1>5. ASSUME stamps' = stamps PROVE \A s \in stamps' : Given(s)'
  BY <1>1, <1>5, GivenKept
<1>6. CASE \E r \in Runs, stored, found \in BOOLEAN : Record(r, stored, found)
  BY <1>2, <1>3, <1>4, <1>6 DEF GrantInv
<1>7. CASE ~ \E r \in Runs, stored, found \in BOOLEAN : Record(r, stored, found)
  <2>1. stamps' = stamps
    BY <1>7 DEF Next, Takes, Take, Around, vars, Say, CloseOrReopen, Delete, Redeliver, Mix, Lose,
                Works, GivesUp, Decline, Admit, Read, Ignore, WriteReply, Halt, Recheck, Publish,
                Deliver
  <2> QED
    BY <1>2, <1>3, <1>5, <2>1 DEF GrantInv
<1> QED
  BY <1>6, <1>7

(* A permission on an issue was given by a colleague, in a comment on an   *)
(* issue about the same finding and never on one that only waits for the   *)
(* clock, wherever the permission is moved to when issues are closed,      *)
(* reopened and raised again, as long as the agent knows its own account   *)
(* and no comment is surely misread (_release, _keep_approvals, granted).  *)
THEOREM PermissionsWereGiven == ASSUME KnowsItself, ReadsRight PROVE Spec => []GrantIsGiven
<1>1. Init => GrantInv
  BY InitAnswers DEF Init, GrantInv, ReadsWell, Idle
<1>2. GrantInv /\ [Next]_vars => GrantInv'
  BY StepKeepsGrants
<1>3. GrantInv => GrantIsGiven
  BY DEF GrantInv, Given, GivenFor, GrantIsGiven
<1> QED
  BY <1>1, <1>2, <1>3, PTL DEF Spec
=============================================================================
