-------------------------------- MODULE Fleet --------------------------------
(***************************************************************************)
(* What the pages know of the fleet (internal/web, loadFleet): for every   *)
(* agent ever enrolled the report it was read to have, and whether it is   *)
(* revoked.  A host that was enrolled again has several agents until the   *)
(* old ones are revoked, and their reports stay on file for ever.          *)
(*                                                                         *)
(* A domain is named by a pair <<host, vm>>, as a replica_source or a      *)
(* replica_target names it.  The case of host names is folded away.        *)
(***************************************************************************)
EXTENDS Naturals, Sequences, FiniteSetsExt

CONSTANTS
  Agents,     \* every agent ever enrolled
  Hosts,      \* hosts with an agent, and hosts a domain may refer to
  Host,       \* the host each agent is on
  VMs,        \* names of domains
  Tags,       \* restore points
  NoRef,      \* no replica_source
  NoReport,   \* nothing on file
  Reports(_)  \* the reports an agent may send

Refs  == Hosts \X VMs
Roles == {"none", "source", "target", "promoted", "paused", "fenced"}

(* ReportDomain.  served: last_promoted_at is there.  fence: the agent's   *)
(* ledger.  points: the restore points it lists.  A domain is not both a   *)
(* replica and the source of others: the engine refuses what would make it *)
(* so.                                                                     *)
IsDomain(d) ==
  /\ d \in [role : Roles, active : BOOLEAN, served : BOOLEAN, source : Refs \cup {NoRef},
             targets : Seq(Refs), fence : {"none", "done", "failed"}, points : SUBSET Tags]
  /\ d.source = NoRef \/ d.targets = <<>>

ASSUME FleetOK ==
  /\ NoRef \notin Refs
  /\ Host \in [Agents -> Hosts]
  /\ \A a \in Agents :
       /\ NoReport \notin Reports(a)
       /\ \A rep \in Reports(a) : DOMAIN rep \subseteq VMs /\ \A v \in DOMAIN rep : IsDomain(rep[v])

AnyReport == {NoReport} \cup (UNION {Reports(a) : a \in Agents})

At(host) == {a \in Agents : Host[a] = host}

Lists(rep, v) == rep # NoReport /\ v \in DOMAIN rep

(* A fleet as a call has read it.  said: the reports.  revoked, silent:    *)
(* the agents revoked, and those not heard from for longer than            *)
(* staleAfter, when the agents were read.  old: those whose report was     *)
(* older than that when it was read.  place: the order of the agents,      *)
(* sorted by host name and otherwise arbitrary, counted from the end.      *)
Fleets ==
  [said : [Agents -> AnyReport], revoked : SUBSET Agents, silent : SUBSET Agents,
   old : SUBSET Agents, place : [Agents -> Nat]]

(* A map that is filled agent by agent keeps what the last one put there.  *)
LastOf(fleet, S) == CHOOSE a \in S : \A b \in S : fleet.place[a] <= fleet.place[b]

(* The agents, revoked ones as well, that report a domain.                 *)
Reporting(fleet, ref) == {a \in At(ref[1]) : Lists(fleet.said[a], ref[2])}
==============================================================================
