---------------------------- MODULE DashboardRules ----------------------------
(***************************************************************************)
(* What the dashboard makes of the fleet (internal/web/view.go): one row   *)
(* for each replica, drawn from the replica's report and from what is      *)
(* known of its source, and the references no report answers.  Revoked     *)
(* agents stay on it: their reports are last known, never current.         *)
(***************************************************************************)
EXTENDS Fleet

(* byRef: the last enrolled agent that reports a domain, or the last       *)
(* revoked one where no enrolled one does.                                 *)
WitnessLast(fleet, ref) == LastOf(fleet, Reporting(fleet, ref))

Witness(fleet, ref) ==
  LET enrolled == Reporting(fleet, ref) \ fleet.revoked
  IN  LastOf(fleet, IF enrolled # {} THEN enrolled ELSE Reporting(fleet, ref))

WitnessedByEnrolled(fleet, ref) == Reporting(fleet, ref) \ fleet.revoked # {}

Witnessed(fleet, ref) == Reporting(fleet, ref) # {}

HasPair(fleet, a, v) == Lists(fleet.said[a], v) /\ fleet.said[a][v].source # NoRef

WithdrawnHost(fleet, ref) == At(ref[1]) \cap fleet.revoked # {}

Withdrawn(fleet, ref) == Witnessed(fleet, ref) /\ Witness(fleet, ref) \in fleet.revoked

(* Pair: a replica as its agent reports it, beside its source.             *)
Pair(fleet, a, v) ==
  LET self    == fleet.said[a][v]
      witness == Witness(fleet, self.source)
      seen    == Witnessed(fleet, self.source)
  IN  [role            |-> self.role,
       active          |-> self.active,
       sourceSeen      |-> seen,
       sourceActive    |-> seen /\ fleet.said[witness][self.source[2]].active,
       sourceOld       |-> seen /\ witness \in fleet.old,
       sourceWithdrawn |-> Withdrawn(fleet, self.source),
       targetWithdrawn |-> a \in fleet.revoked]

SourceFreshIfSeen(p) == p.sourceSeen

SourceFresh(p) == p.sourceSeen /\ ~p.sourceOld

PromotedAndSourceRunning(p) ==
  p.role = "promoted" /\ p.active /\ p.sourceSeen /\ p.sourceActive

SplitBrain(p)         == PromotedAndSourceRunning(p) /\ SourceFresh(p)
SplitBrainPossible(p) == PromotedAndSourceRunning(p) /\ ~SourceFresh(p)

----------------------------------------------------------------------------
(* A domain refers to a replica that is in no report.                      *)
Dangling(fleet, a, v, t) ==
  /\ Lists(fleet.said[a], v) /\ fleet.said[a][v].source = NoRef
  /\ \E i \in DOMAIN fleet.said[a][v].targets : fleet.said[a][v].targets[i] = t
  /\ ~Witnessed(fleet, t)

CoveredByName(fleet, a, v, t) ==
  \E b \in Agents : HasPair(fleet, b, t[2])

(* A row of the dashboard shows a replica of that name for this source,    *)
(* on whatever host.                                                       *)
Covered(fleet, a, v, t) ==
  \E b \in Agents : HasPair(fleet, b, t[2]) /\ fleet.said[b][t[2]].source = <<Host[a], v>>

MissingTarget(fleet, a, v, t) == Dangling(fleet, a, v, t) /\ ~Covered(fleet, a, v, t)

HasReport(fleet, host) == \E a \in At(host) : fleet.said[a] # NoReport

HostEnrolled(fleet, host) ==
  \E a \in At(host) \ fleet.revoked : fleet.said[a] # NoReport

(* An enrolled agent of the host was heard from of late.                   *)
HostFresh(fleet, host) ==
  \E a \in At(host) \ fleet.revoked : fleet.said[a] # NoReport /\ a \notin fleet.silent

PeerKnown(fleet, t) == HasReport(fleet, t[1])

PeerStale(fleet, t) == PeerKnown(fleet, t) /\ ~HostFresh(fleet, t[1])
==============================================================================
