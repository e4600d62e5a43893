----------------------------- MODULE MCSessions ------------------------------
(***************************************************************************)
(* A plan of up to three checks and a queue of up to two fixes.            *)
(***************************************************************************)
EXTENDS Sessions, TLC

MCOrder ==
  [t \in Tasks |-> CASE t = "deps-py" -> 1 [] t = "deps-gh" -> 2 [] t = "review" -> 3
                     [] t = "fix-pin" -> 4 [] t = "fix-file" -> 5]
=============================================================================
