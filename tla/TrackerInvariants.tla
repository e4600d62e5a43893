------------------------- MODULE TrackerInvariants --------------------------
(***************************************************************************)
(* The inductive invariants behind the tracker's properties, for runs that *)
(* follow one another.                                                     *)
(***************************************************************************)
EXTENDS Tracker

(* Runs do not overlap: the platform's concurrency group.                  *)
Alone == \A r, s \in Runs : r = s

Concluded(r) == phase[r] \in {"concluded", "tracking", "remember"}

-----------------------------------------------------------------------------
(* Behind TwoAnswers: every count the tracker keeps, in the stored         *)
(* document, in what a run read and in what it is to store, is at most the *)
(* number of complete answers actually given.                              *)

(* Nothing is booked before reconciling starts.                            *)
NothingBooked ==
  \A r \in Runs : phase[r] \in {"idle", "analysing", "concluded"} => book[r] = NoBook

(* A listed finding is never asked to settle and never carries a streak.   *)
ListedApart ==
  \A r \in Runs :
    /\ book[r].left \cap Wanted(r) = {}
    /\ \A k \in view[r].found : book[r].kept[k] = 0

(* What a run read is still what is stored.                                *)
ReadIsStored ==
  \A r \in Runs : Concluded(r) /\ view[r].recalled => view[r].known = memory

MemoryBounded == \A k \in FindingKeys : memory.absent[k] <= seen[k]

KnownBounded ==
  \A r \in Runs : Concluded(r) =>
    \A k \in FindingKeys :
      /\ view[r].known.absent[k] <= seen[k]
      /\ k \in view[r].speaks \ view[r].found =>
           view[r].known.absent[k] < seen[k] \/ seen[k] = Threshold

KeptBounded == \A r \in Runs, k \in FindingKeys : book[r].kept[k] <= seen[k]

StreakInv ==
  /\ NothingBooked
  /\ ListedApart
  /\ ReadIsStored
  /\ MemoryBounded
  /\ KnownBounded
  /\ KeptBounded

-----------------------------------------------------------------------------
(* Behind CeilingHolds: a run counts every issue it raises, also those     *)
(* that bring no subject of their own.                                     *)
SubjectsCounted ==
  \A r \in Runs :
    LET charged == book[r].subjects \ {SubjectOf[k] : k \in view[r].escalated}
    IN /\ IsFiniteSet(book[r].subjects)
       /\ Cardinality(charged) <= book[r].raised
       /\ Cardinality(charged) <= Limit

CeilingInv == NothingBooked /\ SubjectsCounted

-----------------------------------------------------------------------------
(* Behind the properties of conversations: the numbers a run holds are     *)
(* those of issues with the keys it holds them under.                      *)
Carries(n, key) == n \in DOMAIN issues /\ issues[n].key = key

(* Until an old name is taken over, its issue carries it.                  *)
ExistingCarry ==
  \A r \in Runs, k \in Keys :
    view[r].existing[k] # 0 /\ k \notin book[r].absorbed => Carries(view[r].existing[k], k)

NumbersCarry ==
  \A r \in Runs, k \in Keys :
    /\ book[r].number[k] # 0 => k \in Wanted(r) /\ Carries(book[r].number[k], k)
    /\ book[r].closed[k] # 0 => k \in Wanted(r) /\ Carries(book[r].closed[k], k)

(* The keys a run has still to go through are the ones it listed, and the  *)
(* other ones it found open: none of them was taken over.                  *)
TodoInv ==
  \A r \in Runs :
    /\ book[r].todo \subseteq Wanted(r)
    /\ book[r].absorbed \cap Wanted(r) = {}
    /\ book[r].left \cap (Wanted(r) \cup book[r].absorbed) = {}
    /\ \A k \in book[r].left : view[r].existing[k] # 0
    /\ book[r].todo # {} =>
         \A k \in Keys :
           view[r].existing[k] # 0 => k \in Wanted(r) \cup book[r].absorbed \cup book[r].left

NamesInv == NothingBooked /\ TodoInv /\ ExistingCarry /\ NumbersCarry

(* The issue of an old name that was taken over carries the key that took  *)
(* it, which names the same code.                                          *)
AbsorbedCarry ==
  \A r \in Runs, old \in Keys :
    /\ phase[r] = "tracking"
    /\ old \in book[r].absorbed
    /\ view[r].existing[old] # 0
    => /\ view[r].existing[old] \in DOMAIN issues
       /\ issues[view[r].existing[old]].key \in Wanted(r)
       /\ FingerprintOf[issues[view[r].existing[old]].key] = FingerprintOf[old]

(* What a run read about the open issues, while it still goes by it.       *)
Listed(r) == phase[r] \in {"analysing", "concluded"} /\ view[r].read

Pending(r, k) == Listed(r) \/ (phase[r] = "tracking" /\ k \in book[r].todo)

(* A key that is still to be reconciled has no open issue but the one the  *)
(* run read.                                                               *)
OneRead == \A r \in Runs, k \in Keys : Pending(r, k) => OpenOf(k) \subseteq {view[r].existing[k]}

OneInv == OneRead /\ OneOpenIssue

(* What was open when it was read is open until the run is past it, and    *)
(* what the run is past is open or deferred.                               *)
OpenStill ==
  \A r \in Runs, k \in Keys :
    /\ view[r].existing[k] # 0
    /\ Pending(r, k) \/ (phase[r] = "tracking" /\ k \in book[r].left)
    => issues[view[r].existing[k]].open

Reported ==
  \A r \in Runs : phase[r] = "tracking" =>
    \A k \in Wanted(r) \ book[r].todo :
      \/ k \in book[r].deferred
      \/ /\ book[r].number[k] # 0
         /\ issues[book[r].number[k]].open \/ Supplanted(r, k)

ReportedInv == OpenStill /\ Reported

(* A permission that was read is on its issue until the issue is rewritten, *)
(* and one that was given is on it from then on.                           *)
StampedStill ==
  \A r \in Runs, k \in Keys :
    view[r].existing[k] # 0 /\ k \in view[r].stamped /\ Pending(r, k)
      => issues[view[r].existing[k]].stamp

UnlockedInv ==
  \A r \in Runs :
    /\ view[r].unlocked \subseteq view[r].approvals
    /\ view[r].unlocked # {} => view[r].escalated = {}
    /\ view[r].unlocked # {} => view[r].kind = "woken"
    /\ phase[r] = "tracking" =>
         \A k \in view[r].unlocked \ (book[r].todo \cup book[r].absorbed) :
           view[r].existing[k] # 0 => issues[view[r].existing[k]].stamp

StampsInv == StampedStill /\ UnlockedInv

-----------------------------------------------------------------------------
(* Behind ApprovalStays: the permission on an issue a run is going to      *)
(* rewrite is among those the run goes by.                                 *)

(* The listing at the start does not fail.                                 *)
AllRead == \A r \in Runs : view[r].read

ApprovedStill ==
  \A r \in Runs, k \in FindingKeys :
    Pending(r, k) /\ view[r].existing[k] # 0 /\ issues[view[r].existing[k]].stamp
      => k \in view[r].approvals

ApprovedInv == AllRead /\ ApprovedStill

(* No permission gets onto an issue about a failing check.                 *)
EscalationsUnstamped ==
  \A n \in DOMAIN issues : issues[n].key \in FailureKeys => ~ issues[n].stamp

PermittedFindings ==
  \A r \in Runs :
    /\ phase[r] = "analysing" =>
         \A f \in view[r].approvals \cap FailureKeys :
           view[r].kind = "woken" /\ view[r].asked = {f}
    /\ phase[r] \in {"concluded", "tracking"} => view[r].approvals \cap FailureKeys = {}

EscalationsInv == EscalationsUnstamped /\ PermittedFindings

-----------------------------------------------------------------------------
(* Behind BundleLooked: as long as no document is lost, the members of     *)
(* every bundle with an open issue are remembered.                         *)

(* What is open is in the document, or in the one that is being written.   *)
OpenRemembered ==
  \A r \in Runs, b \in BundleKeys : OpenOf(b) # {} =>
    /\ phase[r] \in {"idle", "analysing", "concluded"} => b \in memory.bundles
    /\ phase[r] = "tracking" => b \in book[r].bundles \cup book[r].todo \cup book[r].left

(* What was found open is in the document the run goes by.                 *)
ListedRemembered ==
  \A r \in Runs, b \in BundleKeys :
    /\ Listed(r) /\ view[r].existing[b] # 0 => b \in memory.bundles
    /\ phase[r] = "tracking" /\ b \in book[r].left =>
         /\ b \in view[r].known.bundles
         /\ OpenOf(b) \subseteq {view[r].existing[b]}

(* A run that remembers the members speaks only if it looked at them all.  *)
SpokenLooked ==
  \A r \in Runs :
    /\ phase[r] # "remember"
    /\ view[r].recalled
    /\ phase[r] \in {"concluded", "tracking"} =>
         \A b \in BundleKeys :
           b \in view[r].speaks \cap view[r].known.bundles => b \in view[r].looked

BundleInv == OpenRemembered /\ ListedRemembered /\ SpokenLooked
=============================================================================
