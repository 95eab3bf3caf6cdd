------------------------------ MODULE MCSessions ------------------------------
(***************************************************************************)
(* An instance of Sessions for TLC: two people share a browser, and the    *)
(* configuration may be changed at a restart.                              *)
(***************************************************************************)
EXTENDS Sessions, TLC

CONSTANTS ann, bob

MCNames == {ann, bob}

MCConfigs ==
  {(ann :> "admin" @@ bob :> "admin"), (ann :> "readonly")}

Symmetry == Permutations(Tokens) \cup Permutations(Requests)
==============================================================================
