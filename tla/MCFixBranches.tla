--------------------------- MODULE MCFixBranches ---------------------------
(***************************************************************************)
(* Three subjects in ship order: two advisories on one pin, another pin,   *)
(* and a file.                                                             *)
(***************************************************************************)
EXTENDS FixBranches, TLC

MCRank == ("pin" :> 1) @@ ("pin2" :> 2) @@ ("file" :> 3)

MCFindingsOf == ("pin" :> {"cve1", "cve2"}) @@ ("pin2" :> {"cve3"}) @@ ("file" :> {"smell"})

MCLeadOf == ("pin" :> "cve1") @@ ("pin2" :> "cve3") @@ ("file" :> "smell")
=============================================================================
