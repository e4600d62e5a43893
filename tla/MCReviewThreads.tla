-------------------------- MODULE MCReviewThreads ---------------------------
(***************************************************************************)
(* Two findings of two checks, one of them blocking.                       *)
(***************************************************************************)
EXTENDS ReviewThreads

MCCheckOf == [k \in Keys |-> IF k = "bug" THEN "code" ELSE "deps"]
=============================================================================
