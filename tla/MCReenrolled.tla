----------------------------- MODULE MCReenrolled -----------------------------
(***************************************************************************)
(* The pair of MCOperations with the host of prod enrolled a second time,  *)
(* as prod2: while both are enrolled, and after prod is revoked.           *)
(***************************************************************************)
EXTENDS MCOperations

CONSTANT prod2

ReenrolledHostOf   == MCHostOf @@ (prod2 :> hostP)
ReenrolledDiskDir  == MCDiskDir @@ (prod2 :> [v \in {web, webCaps, copy} |-> {}])
ReenrolledSchedule == (prod :> {Outward}) @@ (prod2 :> {Outward}) @@ (dr :> {})
==============================================================================
