---------------------------- MODULE MCOperations -----------------------------
(***************************************************************************)
(* Instances of Operations for TLC: one pair of hosts, prod and dr, whose  *)
(* two ends carry different domain names.                                  *)
(***************************************************************************)
EXTENDS Operations, TLC

CONSTANTS prod, dr, web, webCaps, copy, hostP, hostD, dirP, dirD

MCHostOf == (prod :> hostP) @@ (dr :> hostD)

(* web and WEB are one name to EqualFold.                                  *)
MCFold(v) == IF v = webCaps THEN web ELSE v

(* prod's report names one directory for web; dr's names none.             *)
MCDiskDir ==
  [a \in {prod, dr} |-> [v \in {web, webCaps, copy} |->
     IF a = prod /\ v = web THEN {dirP} ELSE {}]]

Outward == [vm |-> web, enabled |-> TRUE, target |-> hostD, dir |-> dirD]
Back    == [vm |-> copy, enabled |-> TRUE, target |-> hostP, dir |-> dirD]

MCSchedule == (prod :> {Outward}) @@ (dr :> {})

(* A pair whose ends carry one name: both hosts are asked to work on it.   *)
PromoteWeb ==
  [agent |-> dr, vm |-> web, kind |-> "promote", peerHost |-> hostP, peerVM |-> NoVM]
InvertWebCaps ==
  [agent |-> prod, vm |-> webCaps, kind |-> "invert", peerHost |-> hostD, peerVM |-> web]
ProtocolRequests == {PromoteWeb, InvertWebCaps}

(* A pair whose ends carry different names, with something to follow       *)
(* through on each side.                                                   *)
PromoteCopy ==
  [agent |-> dr, vm |-> copy, kind |-> "promote", peerHost |-> hostP, peerVM |-> web]
InvertWeb ==
  [agent |-> prod, vm |-> web, kind |-> "invert", peerHost |-> hostD, peerVM |-> copy]
ReinitWeb ==
  [agent |-> prod, vm |-> web, kind |-> "reinit", peerHost |-> NoHost, peerVM |-> NoVM]

ConsequenceRequests == {PromoteCopy, InvertWeb, ReinitWeb}
ConsequenceSaves    == {<<dr, Back>>}
OperatorSaves       == {<<prod, Outward>>}

LiveRequests        == {PromoteCopy, InvertWeb}
PromoteOnly         == {PromoteCopy}

EmptySchedule == [a \in {prod, dr} |-> {}]
NoSaves       == {}
NoFailures    == {}

Symmetry == Permutations(Ops)
==============================================================================
