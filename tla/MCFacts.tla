------------------------------ MODULE MCFacts -------------------------------
(***************************************************************************)
(* A sweep and a scan of the actions that workflows use.  A workflow names *)
(* a major tag, `open`, that stands for the version `new`; `born` asks     *)
(* when a version was published, and the answer is the date of a commit.   *)
(* The session of the sweep only writes its result; the scan's stands for  *)
(* any session that calls tools.                                           *)
(***************************************************************************)
EXTENDS Facts, TLC

MCStepLimit == ("sweep" :> 0) @@ ("scan" :> 3)

MCEcosystemOf ==
  ("pkg" :> "actions") @@ ("sweep" :> "actions") @@ ("scan" :> "actions")

MCPackageOf == [k \in Keys |-> "pkg"]

MCPinKeyOf == [p \in Pins |-> "declared"]

MCCurrentKeyOf == [p \in Pins |-> "open"]

MCResolvedKeyOf == [p \in Pins |-> "new"]
=============================================================================
