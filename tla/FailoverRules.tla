---------------------------- MODULE FailoverRules ----------------------------
(***************************************************************************)
(* What a row of the failover page permits (internal/web/failover.go): the *)
(* fleet's reports joined end to end, and the predicates that the page     *)
(* draws its buttons from and refuseIneligible asks again.                 *)
(*                                                                         *)
(* As in the other modules, a definition that varies the one following it  *)
(* in a single point is a mistake the properties must notice.              *)
(***************************************************************************)
EXTENDS Fleet

(* The zero ReportDomain: what is read of a peer nobody reports.           *)
Unreported == [role |-> "none", active |-> FALSE, served |-> FALSE, source |-> NoRef,
               targets |-> <<>>, fence |-> "none", points |-> {}]

(* byRef: an enrolled agent reports the domain, and the last one counts.   *)
Known(fleet, ref) == Reporting(fleet, ref) \ fleet.revoked # {}

Speaker(fleet, ref) == LastOf(fleet, Reporting(fleet, ref) \ fleet.revoked)

Said(fleet, ref) ==
  IF Known(fleet, ref) THEN fleet.said[Speaker(fleet, ref)][ref[2]] ELSE Unreported

----------------------------------------------------------------------------
FirstIn(targets, S) == targets[Min({i \in DOMAIN targets : targets[i] \in S})]

PickFirst(fleet, targets) == targets[1]

PickPromotedOrFirst(fleet, targets) ==
  LET listed   == {targets[i] : i \in DOMAIN targets}
      promoted == {t \in listed : Said(fleet, t).role = "promoted"}
  IN  IF promoted # {} THEN FirstIn(targets, promoted) ELSE targets[1]

(* pickPromotedTarget, its three tiers.                                    *)
PickPromotedTarget(fleet, targets) ==
  LET listed   == {targets[i] : i \in DOMAIN targets}
      promoted == {t \in listed : Said(fleet, t).role = "promoted"}
      served   == {t \in listed : Said(fleet, t).served /\ Said(fleet, t).role # "source"}
  IN  IF promoted # {} THEN FirstIn(targets, promoted)
      ELSE IF served # {} THEN FirstIn(targets, served)
      ELSE targets[1]

(* Every enrolled agent that reports a domain has a row for it, unless the *)
(* domain is of no pair.                                                   *)
HasRow(fleet, a, v) ==
  /\ a \notin fleet.revoked /\ Lists(fleet.said[a], v)
  /\ fleet.said[a][v].source # NoRef \/ fleet.said[a][v].targets # <<>>

PeerRef(fleet, self) ==
  IF self.source # NoRef THEN self.source ELSE PickPromotedTarget(fleet, self.targets)

(* BuildFailoverView's row: what an agent says of its domain, and what the *)
(* peer's host says of the peer.                                           *)
Row(fleet, a, v) ==
  LET self == fleet.said[a][v]
      peer == PeerRef(fleet, self)
  IN  [self |-> self, peer |-> Said(fleet, peer), peerSeen |-> Known(fleet, peer),
       peerOld |-> Known(fleet, peer) /\ Speaker(fleet, peer) \in fleet.old]

IsReplica(row)      == row.self.source # NoRef
IsSource(row)       == row.self.targets # <<>>
IsLivePromoted(row) == row.self.role = "promoted" /\ row.self.active

CanPromote(row) ==
  /\ IsReplica(row)
  /\ row.self.role # "source"
  /\ row.self.role = "promoted" => ~row.self.active

CanShutdown(row) == row.self.active

CanInvertPromoted(row) ==
  IsSource(row) /\ row.peerSeen /\ row.peer.role = "promoted"

CanInvertDemoted(row) ==
  IsSource(row) /\ row.peerSeen /\ row.peer.role \in {"promoted", "paused", "fenced", "target"}

CanInvert(row) ==
  /\ IsSource(row) /\ row.peerSeen
  /\ \/ row.peer.role = "promoted"
     \/ row.peer.served /\ row.peer.role \in {"paused", "fenced", "target"}

CanSetRoleTo(row, role) ==
  /\ ~(role = "target" /\ row.self.served)
  /\ IsLivePromoted(row) => role = "source"

CanRestoreByRole(row) ==
  /\ ~row.self.active /\ row.self.points # {}
  /\ row.self.role \notin {"source", "promoted", "fenced"}

CanRestore(row) ==
  /\ ~row.self.active /\ row.self.points # {}
  /\ ~row.self.served
  /\ row.self.role \notin {"source", "promoted", "fenced"}

CanReinit(row) ==
  /\ IsSource(row)
  /\ row.peer.role # "promoted" /\ ~row.peer.served

CanForceClean(row) == CanReinit(row)

----------------------------------------------------------------------------
(* A promoted copy runs beside this one, as far as anybody knows.          *)
SplitBrainShape(row) ==
  row.self.active /\ row.peerSeen /\ row.peer.role = "promoted" /\ row.peer.active

PeerFreshIfSeen(row) == row.peerSeen

PeerFresh(row) == row.peerSeen /\ ~row.peerOld

RowSplitBrain(row)         == SplitBrainShape(row) /\ PeerFresh(row)
RowSplitBrainPossible(row) == SplitBrainShape(row) /\ ~PeerFresh(row)

FenceFailed(row) ==
  row.self.active /\ (row.self.role = "fenced" \/ row.self.fence = "failed")

PeerPromoted(row) == row.peerSeen /\ row.peer.role = "promoted"

NeedsDecision(row) ==
  \/ RowSplitBrain(row) \/ RowSplitBrainPossible(row) \/ FenceFailed(row)
  \/ row.self.role \in {"promoted", "paused"}
  \/ PeerPromoted(row)

(* rankRow.                                                                *)
Rank(row) ==
  IF SplitBrainShape(row) \/ FenceFailed(row) THEN 0
  ELSE IF row.self.role = "promoted" THEN 1
  ELSE IF PeerPromoted(row) THEN 2
  ELSE IF row.self.role = "paused" THEN 3
  ELSE 4
==============================================================================
