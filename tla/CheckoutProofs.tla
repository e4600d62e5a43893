--------------------------- MODULE CheckoutProofs ---------------------------
(***************************************************************************)
(* What holds of the watched checkout for any sessions and files.          *)
(***************************************************************************)
EXTENDS Checkout, FiniteSetTheorems, TLAPS

(* The records of the restore stay well-formed, and at most one session is *)
(* in it at a time: the lock is real (Checkout.lock).                      *)
THEOREM CheckoutTyped == Spec => []TypeOK
<1>1. Init => TypeOK
  BY CheckoutAssumption DEF Init, TypeOK, States, ReadDirty, Dirty, Staged, Sessions
<1>2. TypeOK /\ [Next]_vars => TypeOK'
  <2> SUFFICES ASSUME TypeOK, [Next]_vars PROVE TypeOK'
    OBVIOUS
  <2>0. "nobody" \notin Sessions
    BY CheckoutAssumption
  <2> USE <2>0 DEF TypeOK, States
  <2>1. ASSUME NEW s \in Sessions, Begin(s) PROVE TypeOK'
    BY <2>1 DEF Begin
  <2>2. ASSUME NEW s \in Sessions, Fail(s) PROVE TypeOK'
    BY <2>2 DEF Fail
  <2>3. ASSUME NEW s \in Sessions, End(s) PROVE TypeOK'
    BY <2>3 DEF End
  <2>4. ASSUME NEW s \in Sessions, List(s) PROVE TypeOK'
    <3>1. PICK dirty \in ReadDirty :
            IF Appeared(dirty) = {}
            THEN session' = [session EXCEPT ![s] = "accepted"] /\ UNCHANGED <<holder, pending>>
            ELSE /\ session' = [session EXCEPT ![s] = "restoring"]
                 /\ holder' = s
                 /\ pending' = Appeared(dirty)
      BY <2>4 DEF List
    <3>2. Appeared(dirty) \subseteq Paths
      BY DEF ReadDirty, Dirty, Staged, Appeared
    <3>3. session[s] = "ended" /\ holder = "nobody" /\ UNCHANGED <<parallel, content, index, before, copied, kept, writes>>
      BY <2>4 DEF List
    <3>4. CASE Appeared(dirty) = {}
      BY <3>1, <3>3, <3>4
    <3>5. CASE Appeared(dirty) # {}
      BY <3>1, <3>2, <3>3, <3>5
    <3> QED
      BY <3>4, <3>5
  <2>5. ASSUME NEW s \in Sessions, Restored(s) PROVE TypeOK'
    BY <2>5 DEF Restored, Restoring, Snapshot, ReadDirty, Dirty, Staged
  <2>6. ASSUME NEW s \in Sessions, NEW p \in Paths, NEW staged \in BOOLEAN, Write(s, p, staged)
        PROVE  TypeOK'
    <3>1. index' \in [Paths -> Sessions \cup {"clean", "developer"}]
      BY <2>6 DEF Write
    <3> QED
      BY <2>6, <3>1 DEF Write
  <2>7. ASSUME NEW s \in Sessions, NEW p \in Paths, Copy(s, p) PROVE TypeOK'
    BY <2>7 DEF Copy, Restoring
  <2>8. ASSUME NEW s \in Sessions, NEW p \in Paths, PutBack(s, p) PROVE TypeOK'
    <3>1. AsRestored(p) \subseteq Sessions \cup {"clean", "developer"}
      BY DEF AsRestored
    <3>2. content' \in [Paths -> Sessions \cup {"clean", "developer"}]
      BY <2>8, <3>1 DEF PutBack
    <3> QED
      BY <2>8, <3>2 DEF PutBack, Restoring
  <2>9. ASSUME NEW s \in Sessions, Raises(s) PROVE TypeOK'
    BY <2>9 DEF Raises, Restoring
  <2>10. CASE UNCHANGED vars
    BY <2>10 DEF vars
  <2> QED
    BY <2>1, <2>2, <2>3, <2>4, <2>5, <2>6, <2>7, <2>8, <2>9, <2>10 DEF Next
<1> QED
  BY <1>1, <1>2, PTL DEF Spec

-----------------------------------------------------------------------------
(* Where a developer's work is, in the files or staged.                    *)
Developers == {p \in Paths : content[p] = "developer" \/ index[p] = "developer"}

(* A developer's work is among what was dirty before, so that no restore   *)
(* lists it.                                                               *)
WorkInv ==
  /\ TypeOK
  /\ Developers \subseteq before
  /\ Developers \cap pending = {}

(* Only a session's own write takes developer's work away.                 *)
LEMMA WorkShrinks ==
  ASSUME TypeOK, [Next]_vars PROVE Developers' \subseteq Developers
<1> USE DEF TypeOK, Developers
<1>0. "developer" \notin Sessions
  BY CheckoutAssumption
<1>1. ASSUME NEW s \in Sessions, NEW p \in Paths, NEW staged \in BOOLEAN, Write(s, p, staged)
      PROVE  Developers' \subseteq Developers
  BY <1>0, <1>1 DEF Write
<1>2. ASSUME NEW s \in Sessions, NEW p \in Paths, PutBack(s, p)
      PROVE  Developers' \subseteq Developers
  <2>1. PICK restored \in {index[p], content[p]} : content' = [content EXCEPT ![p] = restored]
    BY <1>2 DEF PutBack, AsRestored
  <2>2. index' = index
    BY <1>2 DEF PutBack
  <2> QED
    BY <2>1, <2>2
<1>3. CASE UNCHANGED <<content, index>>
  BY <1>3
<1> QED
  BY <1>1, <1>2, <1>3 DEF Next, Begin, Fail, End, List, Restored, Raises, Copy, vars

(* While the status can be read, the agent puts no uncommitted work of a   *)
(* developer back, whatever sessions do and however they overlap           *)
(* (Checkout.of, Checkout.restore).                                        *)
THEOREM WorkStays ==
  ASSUME "status" \notin Faults PROVE Spec => DeveloperWorkStays
<1>0. ReadDirty = {Dirty} /\ ReadDirty' = {Dirty'}
  BY DEF ReadDirty
<1>1. Init => WorkInv
  <2> SUFFICES ASSUME Init PROVE WorkInv
    OBVIOUS
  <2>1. TypeOK
    BY CheckoutAssumption DEF Init, TypeOK, States, ReadDirty, Dirty, Staged, Sessions
  <2>2. before = Dirty /\ pending = {}
    BY <1>0 DEF Init
  <2> QED
    BY <2>1, <2>2 DEF WorkInv, Developers, Dirty, Staged
<1>2. TypeOK' /\ WorkInv /\ [Next]_vars => WorkInv'
  <2> SUFFICES ASSUME TypeOK', WorkInv, [Next]_vars PROVE WorkInv'
    OBVIOUS
  <2>1. Developers' \subseteq Developers
    BY WorkShrinks DEF WorkInv
  <2>2. Developers' \subseteq before'
    <3>1. ASSUME NEW s \in Sessions, Restored(s) PROVE Developers' \subseteq before'
      BY <1>0, <3>1 DEF Restored, Snapshot, Developers, Dirty, Staged
    <3>2. CASE UNCHANGED before
      BY <2>1, <3>2 DEF WorkInv
    <3> QED
      BY <3>1, <3>2 DEF Next, Begin, Fail, End, List, Raises, Write, Copy, PutBack, vars
  <2>3. Developers' \cap pending' = {}
    <3>1. ASSUME NEW s \in Sessions, List(s) PROVE Developers' \cap pending' = {}
      <4>1. pending' = pending \/ pending' \cap before = {}
        BY <3>1 DEF List, Appeared
      <4> QED
        BY <2>1, <4>1 DEF WorkInv
    <3>2. CASE pending' \subseteq pending
      BY <2>1, <3>2 DEF WorkInv
    <3> QED
      BY <3>1, <3>2 DEF Next, Begin, Fail, End, Restored, Raises, Write, Copy, PutBack, vars
  <2> QED
    BY <2>2, <2>3 DEF WorkInv
<1>3. WorkInv /\ [Next]_vars =>
        [\A p \in Paths : content[p] = "developer" => content'[p] # "clean"]_vars
  <2> SUFFICES ASSUME WorkInv, Next, NEW p \in Paths, content[p] = "developer"
               PROVE  content'[p] # "clean"
    BY DEF vars
  <2>1. p \notin pending
    BY DEF WorkInv, Developers
  <2>2. ASSUME NEW s \in Sessions, NEW q \in Paths, NEW staged \in BOOLEAN, Write(s, q, staged)
        PROVE  content'[p] # "clean"
    <3>1. s # "clean"
      BY CheckoutAssumption
    <3> QED
      BY <2>2, <3>1 DEF Write, WorkInv, TypeOK
  <2>3. ASSUME NEW s \in Sessions, NEW q \in Paths, PutBack(s, q) PROVE content'[p] # "clean"
    BY <2>1, <2>3 DEF PutBack, WorkInv, TypeOK
  <2>4. CASE UNCHANGED content
    BY <2>4
  <2> QED
    BY <2>2, <2>3, <2>4 DEF Next, Begin, Fail, End, List, Restored, Raises, Copy
<1> QED
  BY <1>1, <1>2, <1>3, CheckoutTyped, PTL DEF Spec, DeveloperWorkStays

-----------------------------------------------------------------------------
(* Where sessions take turns.                                              *)

(* Only one session is busy, and what it copied away is still what it is   *)
(* about to put back.                                                      *)
TurnsInv ==
  /\ IsFiniteSet(Busy)
  /\ parallel = 1 =>
       /\ \A s, t \in Busy : s = t
       /\ \A p \in copied : content[p] \in kept[p]

(* What was dirty when last looked at was dirty when the run started, or   *)
(* is staged, by other sessions than one that is still to be looked at; a  *)
(* restore has everything else on its list; and what a session wrote is    *)
(* there to be seen until it is looked at.                                 *)
LookedInv ==
  parallel = 1 =>
    /\ before \subseteq Uncommitted \cup Staged
    /\ \A p \in Staged : p \in Uncommitted \/ \E s \in Sessions : p \in writes[s]
    /\ holder # "nobody" => Dirty \subseteq before \cup pending \cup Staged
    /\ (\A s \in Sessions : session[s] \in {"waiting", "refused", "accepted"}) =>
         Dirty \subseteq before
    /\ \A s \in Sessions :
         /\ session[s] = "waiting" => writes[s] = {}
         /\ session[s] \in {"running", "ended"} => writes[s] \subseteq Dirty
         /\ session[s] \in {"waiting", "running", "ended"} =>
              before \subseteq Uncommitted \cup LeftBefore(s)
    /\ \A s \in Fixers :
         session[s] = "accepted" => writes[s] \subseteq Uncommitted \cup LeftBefore(s)

LEMMA BusyIs ==
  ASSUME NEW s \in Sessions
  PROVE  s \in Busy <=> session[s] \in {"running", "ended", "restoring"}
BY DEF Busy

(* Who restores is busy.                                                   *)
LEMMA HolderIsBusy ==
  ASSUME TypeOK PROVE holder # "nobody" => holder \in Busy /\ session[holder] = "restoring"
BY DEF TypeOK, Busy

(* A session that is about to begin finds no other one busy.               *)
LEMMA TurnIsFree ==
  ASSUME TypeOK, TurnsInv, parallel = 1, Cardinality(Busy) < parallel
  PROVE  Busy = {}
<1>1. Cardinality(Busy) \in Nat
  BY FS_CardinalityType DEF TurnsInv
<1>2. Cardinality(Busy) = 0
  BY <1>1
<1> QED
  BY <1>2, FS_EmptySet DEF TurnsInv

LEMMA TurnsStep == TypeOK /\ TurnsInv /\ [Next]_vars => TurnsInv'
<1> SUFFICES ASSUME TypeOK, TurnsInv, [Next]_vars PROVE TurnsInv'
  OBVIOUS
<1>1. ASSUME NEW s \in Sessions, Begin(s) PROVE TurnsInv'
  <2>1. Busy' = Busy \cup {s}
    BY <1>1 DEF Begin, Busy, TypeOK
  <2>2. IsFiniteSet(Busy')
    BY <2>1, FS_AddElement DEF TurnsInv
  <2>3. parallel = 1 => Busy = {}
    BY <1>1, TurnIsFree DEF Begin
  <2>4. UNCHANGED <<parallel, content, copied, kept>>
    BY <1>1 DEF Begin
  <2> QED
    BY <2>1, <2>2, <2>3, <2>4 DEF TurnsInv
<1>2. ASSUME Busy' \subseteq Busy, UNCHANGED <<parallel, content, copied, kept>> PROVE TurnsInv'
  <2>1. IsFiniteSet(Busy')
    BY <1>2, FS_Subset DEF TurnsInv
  <2> QED
    BY <1>2, <2>1 DEF TurnsInv
<1>3. ASSUME NEW s \in Sessions, Fail(s) \/ End(s) \/ List(s) \/ Restored(s) PROVE TurnsInv'
  <2>1. UNCHANGED <<parallel, content, copied, kept>>
    BY <1>3 DEF Fail, End, List, Restored
  <2>2. s \in Busy
    BY <1>3 DEF Fail, End, List, Restored, Restoring, Busy
  <2>3. \A t \in Sessions \ {s} : session'[t] = session[t]
    BY <1>3 DEF Fail, End, List, Restored, TypeOK
  <2>4. Busy' \subseteq Busy
    BY <2>2, <2>3 DEF Busy
  <2> QED
    BY <1>2, <2>1, <2>4
<1>4. ASSUME NEW s \in Sessions, NEW p \in Paths, NEW staged \in BOOLEAN, Write(s, p, staged)
      PROVE  TurnsInv'
  <2>1. Busy' = Busy /\ UNCHANGED <<parallel, copied>>
    BY <1>4 DEF Write, Busy
  <2>2. parallel = 1 => copied = {}
    <3> SUFFICES ASSUME parallel = 1, copied # {} PROVE FALSE
      OBVIOUS
    <3>1. holder # "nobody"
      BY DEF TypeOK
    <3>2. s \in Busy /\ session[s] = "running"
      BY <1>4 DEF Write, Busy
    <3> QED
      BY <3>1, <3>2, HolderIsBusy DEF TurnsInv
  <2> QED
    BY <2>1, <2>2 DEF TurnsInv
<1>5. ASSUME NEW s \in Sessions, NEW p \in Paths, Copy(s, p) PROVE TurnsInv'
  <2>1. Busy' = Busy /\ UNCHANGED <<parallel, content>> /\ copied' = {p} /\ content[p] \in kept'[p]
    BY <1>5 DEF Copy, Busy, TypeOK
  <2> QED
    BY <2>1 DEF TurnsInv
<1>6. ASSUME NEW s \in Sessions, NEW p \in Paths, PutBack(s, p) PROVE TurnsInv'
  <2>1. Busy' = Busy /\ UNCHANGED parallel /\ copied' = {}
    BY <1>6 DEF PutBack, Busy
  <2> QED
    BY <2>1 DEF TurnsInv
<1>7. ASSUME NEW s \in Sessions, Raises(s) PROVE TurnsInv'
  <2>1. Busy' = {} /\ UNCHANGED parallel /\ copied' = {}
    BY <1>7 DEF Raises, Busy
  <2> QED
    BY <2>1, FS_EmptySet DEF TurnsInv
<1>8. CASE UNCHANGED vars
  BY <1>2, <1>8 DEF vars, Busy
<1> QED
  BY <1>1, <1>3, <1>4, <1>5, <1>6, <1>7, <1>8 DEF Next

LEMMA TurnsInit == Init => TurnsInv
<1> SUFFICES ASSUME Init PROVE TurnsInv
  OBVIOUS
<1>1. Busy = {}
  BY DEF Init, Busy
<1>2. copied = {}
  BY DEF Init
<1> QED
  BY <1>1, <1>2, FS_EmptySet DEF TurnsInv

(* Where sessions take turns, nothing is only deleted: what is put back is *)
(* in the run record, also when the status cannot be read                  *)
(* (Checkout._put_back).                                                   *)
THEOREM StraysAreKept == Spec => StraysKept
<1>1. TurnsInv /\ [Next]_vars =>
        [parallel = 1 => \A s \in Sessions, p \in Paths :
           PutBack(s, p) => content[p] \in kept[p]]_vars
  BY DEF TurnsInv, PutBack
<1> QED
  BY <1>1, TurnsInit, TurnsStep, CheckoutTyped, PTL DEF Spec, StraysKept

-----------------------------------------------------------------------------
(* What is staged stays staged, and what was written stays written.        *)
LEMMA LeftStays ==
  ASSUME Staged \subseteq Staged', \A s \in Sessions : writes[s] \subseteq writes'[s]
  PROVE  \A s \in Sessions : LeftBefore(s) \subseteq LeftBefore(s)'
BY DEF LeftBefore

LEMMA LookedInit == "status" \notin Faults /\ Init => LookedInv
<1> SUFFICES ASSUME "status" \notin Faults, Init PROVE LookedInv
  OBVIOUS
<1>1. before = Dirty
  BY DEF Init, ReadDirty
<1>2. Dirty \subseteq Uncommitted /\ Staged \subseteq Uncommitted
  BY DEF Init, Dirty, Staged
<1>3. /\ \A s \in Sessions : session[s] = "waiting" /\ writes[s] = {}
      /\ holder = "nobody"
  BY DEF Init
<1>4. Fixers \subseteq Sessions
  BY DEF Sessions
<1> QED
  BY <1>1, <1>2, <1>3, <1>4 DEF LookedInv

LEMMA LookedStep ==
  /\ "status" \notin Faults /\ "git" \notin Faults
  /\ TypeOK /\ TurnsInv /\ LookedInv /\ [Next]_vars
  => LookedInv'
<1> SUFFICES ASSUME "status" \notin Faults, "git" \notin Faults,
                    TypeOK, TurnsInv, LookedInv, [Next]_vars, parallel' = 1
             PROVE  LookedInv'
  BY DEF LookedInv
<1>0. parallel = 1
  BY DEF Next, Begin, Fail, End, List, Restored, Raises, Write, Copy, PutBack, vars
<1>a. /\ before \subseteq Uncommitted \cup Staged
      /\ \A p \in Staged : p \in Uncommitted \/ \E s \in Sessions : p \in writes[s]
      /\ holder # "nobody" => Dirty \subseteq before \cup pending \cup Staged
      /\ (\A s \in Sessions : session[s] \in {"waiting", "refused", "accepted"}) =>
           Dirty \subseteq before
      /\ \A s \in Sessions :
           /\ session[s] = "waiting" => writes[s] = {}
           /\ session[s] \in {"running", "ended"} => writes[s] \subseteq Dirty
           /\ session[s] \in {"waiting", "running", "ended"} =>
                before \subseteq Uncommitted \cup LeftBefore(s)
      /\ \A s \in Fixers :
           session[s] = "accepted" => writes[s] \subseteq Uncommitted \cup LeftBefore(s)
      /\ \A s, t \in Busy : s = t
  BY <1>0 DEF LookedInv, TurnsInv
<1>b. Fixers \subseteq Sessions
  BY DEF Sessions
<1>c. ReadDirty = {Dirty}
  BY DEF ReadDirty
<1>d. UNCHANGED <<content, index, writes>> =>
        /\ Dirty' = Dirty /\ Staged' = Staged
        /\ \A s \in Sessions : LeftBefore(s)' = LeftBefore(s)
  BY DEF Dirty, Staged, LeftBefore
(* A session that moves on without a look at the checkout.                 *)
<1>1. ASSUME NEW s \in Sessions, Begin(s) \/ Fail(s) \/ End(s) PROVE LookedInv'
  <2>1. UNCHANGED <<content, index, before, holder, pending, writes>>
    BY <1>1 DEF Begin, Fail, End
  <2>2. /\ \A t \in Sessions \ {s} : session'[t] = session[t]
        /\ session'[s] \in {"running", "failed", "ended"}
        /\ session[s] \in {"waiting", "running"}
    BY <1>1 DEF Begin, Fail, End, TypeOK
  <2>3. writes[s] \subseteq Dirty /\ before \subseteq Uncommitted \cup LeftBefore(s)
    BY <1>a, <2>2
  <2> QED
    BY <1>a, <1>b, <1>d, <2>1, <2>2, <2>3 DEF LookedInv
<1>2. ASSUME NEW s \in Sessions, List(s) PROVE LookedInv'
  <2>1. UNCHANGED <<content, index, before, writes>> /\ session[s] = "ended" /\ holder = "nobody"
    BY <1>2 DEF List
  <2>2. \A t \in Sessions \ {s} : session'[t] = session[t]
    BY <1>2 DEF List, TypeOK
  <2>3. CASE Appeared(Dirty) = {}
    <3>1. session'[s] = "accepted" /\ UNCHANGED <<holder, pending>>
      BY <1>2, <1>c, <2>3 DEF List, TypeOK
    <3>2. Dirty \subseteq before
      BY <2>3 DEF Appeared
    <3>3. writes[s] \subseteq Uncommitted \cup LeftBefore(s)
      BY <1>a, <2>1, <3>2
    <3> QED
      BY <1>a, <1>b, <1>d, <2>1, <2>2, <3>1, <3>2, <3>3 DEF LookedInv
  <2>4. CASE Appeared(Dirty) # {}
    <3>1. session'[s] = "restoring" /\ pending' = Dirty \ before
      BY <1>2, <1>c, <2>4 DEF List, Appeared, TypeOK
    <3> QED
      BY <1>a, <1>b, <1>d, <2>1, <2>2, <3>1 DEF LookedInv
  <2> QED
    BY <2>3, <2>4
(* What is dirty still is staged, and not by a session that has its turn   *)
(* to come.                                                                *)
<1>3. ASSUME NEW s \in Sessions, Restored(s) PROVE LookedInv'
  <2>1. /\ UNCHANGED <<content, index, writes, pending>>
        /\ holder = s /\ holder' = "nobody" /\ pending = {} /\ before' = Dirty
        /\ session[s] = "restoring" /\ s \in Busy
    BY <1>3, <1>c DEF Restored, Restoring, Snapshot, Busy
  <2>2. /\ \A t \in Sessions \ {s} : session'[t] = session[t]
        /\ session'[s] \in {"refused", "accepted"} /\ (s \in Fixers => session'[s] = "refused")
    BY <1>3 DEF Restored, TypeOK
  <2>3. holder # "nobody"
    BY <2>1, CheckoutAssumption
  <2>4. Dirty \subseteq before \cup Staged
    BY <1>a, <2>1, <2>3
  <2>5. ASSUME NEW t \in Sessions, session'[t] \in {"waiting", "running", "ended"}
        PROVE  session'[t] = "waiting" /\ Dirty \subseteq Uncommitted \cup LeftBefore(t)
    <3>1. t # s /\ session[t] = session'[t]
      BY <2>2, <2>5
    <3>2. session[t] = "waiting"
      BY <1>a, <2>1, <2>5, <3>1, BusyIs
    <3>3. writes[t] = {} /\ before \subseteq Uncommitted \cup LeftBefore(t)
      BY <1>a, <3>2
    <3>4. Staged \subseteq Uncommitted \cup LeftBefore(t)
      BY <1>a, <3>3 DEF LeftBefore
    <3> QED
      BY <2>4, <3>1, <3>2, <3>3, <3>4
  <2>6. Dirty \subseteq Uncommitted \cup Staged
    BY <1>a, <2>4
  <2>7. \A t \in Sessions : session'[t] = "waiting" => writes[t] = {}
    BY <1>a, <2>2
  <2>8. \A t \in Fixers : session'[t] = "accepted" => writes[t] \subseteq Uncommitted \cup LeftBefore(t)
    BY <1>a, <1>b, <2>2
  <2> QED
    BY <1>a, <1>b, <1>d, <2>1, <2>5, <2>6, <2>7, <2>8 DEF LookedInv
(* Only the session whose turn it is writes, and nothing is put back then. *)
<1>4. ASSUME NEW s \in Sessions, NEW p \in Paths, NEW staged \in BOOLEAN, Write(s, p, staged)
      PROVE  LookedInv'
  <2>1. /\ UNCHANGED <<before, session, holder, pending>> /\ session[s] = "running" /\ s \in Busy
        /\ writes' = [writes EXCEPT ![s] = @ \cup {p}]
    BY <1>4 DEF Write, Busy
  <2>2. Dirty' = Dirty \cup {p} /\ Staged \subseteq Staged' /\ Staged' \subseteq Staged \cup {p}
    <3>1. s # "clean"
      BY CheckoutAssumption
    <3>2. /\ content' = [content EXCEPT ![p] = s]
          /\ index' = [index EXCEPT ![p] = s] \/ index' = index
      BY <1>4 DEF Write
    <3>3. Staged \subseteq Staged' /\ Staged' \subseteq Staged \cup {p}
      BY <3>1, <3>2 DEF Staged, TypeOK
    <3>4. {q \in Paths : content'[q] # "clean"} = {q \in Paths : content[q] # "clean"} \cup {p}
      BY <3>1, <3>2 DEF TypeOK
    <3> QED
      BY <3>3, <3>4 DEF Dirty
  <2>3. holder = "nobody"
    BY <1>a, <2>1, HolderIsBusy
  <2>4. \A t \in Sessions : writes'[t] = IF t = s THEN writes[t] \cup {p} ELSE writes[t]
    BY <2>1 DEF TypeOK
  <2>5. \A t \in Sessions : LeftBefore(t) \subseteq LeftBefore(t)'
    BY <2>2, <2>4, LeftStays
  <2>6. \A q \in Staged' : q \in Uncommitted \/ \E t \in Sessions : q \in writes'[t]
    BY <1>a, <2>2, <2>4
  <2>7. \A t \in Sessions :
          /\ session[t] = "waiting" => writes'[t] = {}
          /\ session[t] \in {"running", "ended"} => writes'[t] \subseteq Dirty'
          /\ session[t] \in {"waiting", "running", "ended"} =>
               before \subseteq Uncommitted \cup LeftBefore(t)'
    BY <1>a, <2>1, <2>2, <2>4, <2>5
  <2>8. \A t \in Fixers : session[t] = "accepted" => writes'[t] \subseteq Uncommitted \cup LeftBefore(t)'
    BY <1>a, <1>b, <2>1, <2>4, <2>5
  <2>9. before \subseteq Uncommitted \cup Staged'
    BY <1>a, <2>2
  <2> QED
    BY <2>1, <2>3, <2>6, <2>7, <2>8, <2>9 DEF LookedInv
<1>5. ASSUME NEW s \in Sessions, NEW p \in Paths, Copy(s, p) PROVE LookedInv'
  <2>1. UNCHANGED <<content, index, before, session, holder, pending, writes>>
    BY <1>5 DEF Copy
  <2> QED
    BY <1>a, <1>b, <1>d, <2>1 DEF LookedInv
(* What is put back is dirty only as far as it is staged.                  *)
<1>6. ASSUME NEW s \in Sessions, NEW p \in Paths, PutBack(s, p) PROVE LookedInv'
  <2>1. /\ UNCHANGED <<index, before, session, holder, writes>> /\ session[s] = "restoring"
        /\ pending' = pending \ {p} /\ s \in Busy /\ holder = s
    BY <1>6 DEF PutBack, Restoring, Busy
  <2>2. Staged' = Staged /\ \A t \in Sessions : LeftBefore(t)' = LeftBefore(t)
    BY <2>1 DEF Staged, LeftBefore
  <2>3. Dirty' \subseteq (Dirty \ {p}) \cup Staged
    <3>1. content' = [content EXCEPT ![p] = index[p]]
      BY <1>6 DEF PutBack, AsRestored
    <3> QED
      BY <2>2, <3>1 DEF Dirty, Staged, TypeOK
  <2>4. \A t \in Sessions : session[t] \notin {"running", "ended"}
    BY <1>a, <2>1, BusyIs
  <2>5. Dirty' \subseteq before \cup (pending \ {p}) \cup Staged
    <3>1. holder # "nobody"
      BY <2>1, CheckoutAssumption
    <3> QED
      BY <1>a, <2>3, <3>1
  <2>6. ~ \A t \in Sessions : session[t] \in {"waiting", "refused", "accepted"}
    BY <2>1
  <2> QED
    BY <1>a, <1>b, <2>1, <2>2, <2>4, <2>5, <2>6 DEF LookedInv
<1>7. ASSUME NEW s \in Sessions, Raises(s) PROVE LookedInv'
  <2>1. UNCHANGED <<content, index, before, writes>> /\ holder' = "nobody" /\ session[s] = "restoring"
    BY <1>7 DEF Raises, Restoring
  <2>2. \A t \in Sessions :
          /\ session'[t] \in {"refused", "accepted", "failed"}
          /\ session'[t] = "accepted" => session[t] = "accepted"
    BY <1>7 DEF Raises
  <2>3. session'[s] = "failed"
    BY <1>7, <2>1 DEF Raises
  <2> QED
    BY <1>a, <1>b, <1>d, <2>1, <2>2, <2>3 DEF LookedInv
<1>8. CASE UNCHANGED vars
  <2>1. UNCHANGED <<content, index, before, session, holder, pending, writes>>
    BY <1>8 DEF vars
  <2> QED
    BY <1>a, <1>b, <1>d, <2>1 DEF LookedInv
<1> QED
  BY <1>1, <1>2, <1>3, <1>4, <1>5, <1>6, <1>7, <1>8 DEF Next

(* As long as sessions take turns and git answers, the restore has on its  *)
(* list all that a session left and that was not there before.             *)
THEOREM LookedIsRight ==
  ASSUME "status" \notin Faults, "git" \notin Faults PROVE Spec => []LookedInv
<1>1. Init => LookedInv
  BY LookedInit
<1>2. TypeOK /\ TurnsInv /\ LookedInv /\ [Next]_vars => LookedInv'
  BY LookedStep
<1> QED
  BY <1>1, <1>2, TurnsInit, TurnsStep, CheckoutTyped, PTL DEF Spec

(* Where sessions take turns, all end as they should and git answers, a    *)
(* checkout with no session busy holds nothing that was not there when the *)
(* run started, but for overwritten work and what sessions staged          *)
(* (Checkout.restore).                                                     *)
THEOREM CheckoutIsPutBack ==
  ASSUME "status" \notin Faults, "git" \notin Faults PROVE Spec => []CheckoutPutBack
<1>1. TypeOK /\ LookedInv => CheckoutPutBack
  <2> SUFFICES ASSUME TypeOK, LookedInv, parallel = 1, Busy = {}, \A s \in Sessions : session[s] # "failed"
               PROVE  Dirty \subseteq Uncommitted \cup Staged
    BY DEF CheckoutPutBack
  <2>1. \A s \in Sessions : session[s] \in {"waiting", "refused", "accepted"}
    BY BusyIs DEF TypeOK, States
  <2> QED
    BY <2>1 DEF LookedInv
<1> QED
  BY <1>1, LookedIsRight, CheckoutTyped, PTL

(* Where sessions take turns and git answers, a fixer whose result is read *)
(* wrote nothing into the checkout that was not a change there already     *)
(* (run_attempts).                                                         *)
THEOREM AcceptedAreClean ==
  ASSUME "status" \notin Faults, "git" \notin Faults PROVE Spec => []AcceptedIsClean
<1>1. LookedInv => AcceptedIsClean
  BY DEF LookedInv, AcceptedIsClean
<1> QED
  BY <1>1, LookedIsRight, PTL
=============================================================================
