---------------------------- MODULE MCFleetPages ----------------------------
(***************************************************************************)
(* Instances of FleetPages for TLC: a source with two replicas on two      *)
(* other hosts, through what a failover, a fence, a drill, an inversion    *)
(* and a role set by hand make of the three domains.  The source's host    *)
(* may be enrolled again.                                                  *)
(***************************************************************************)
EXTENDS FleetPages, TLC

CONSTANTS src, again, dr1, dr2, vm, point, hostS, host1, host2

Plain == [role |-> "none", active |-> FALSE, served |-> FALSE, source |-> NoRef,
          targets |-> <<>>, fence |-> "none", points |-> {}]

Source  == [Plain EXCEPT !.role = "source", !.targets = <<<<host1, vm>>, <<host2, vm>>>>]
Replica == [Plain EXCEPT !.role = "target", !.source = <<hostS, vm>>]
Served  == [Replica EXCEPT !.served = TRUE]

\* running; inverted onto dr2, which it had served from
SourceSays ==
  {[Source EXCEPT !.active = TRUE],
   [Replica EXCEPT !.source = <<host2, vm>>]}

\* fenced in vain
AgainSays == {[Source EXCEPT !.role = "fenced", !.active = TRUE, !.fence = "failed"]}

\* idle; promoted by a build that left no record, and not started
FirstSays == {Replica, [Replica EXCEPT !.role = "promoted"]}

\* idle; promoted and running; demoted, with a point to go back to; made a
\* source by hand, or by an inversion
SecondSays ==
  {Replica, [Served EXCEPT !.role = "promoted", !.active = TRUE],
   [Served EXCEPT !.role = "paused", !.points = {point}],
   [Served EXCEPT !.role = "source", !.active = TRUE],
   [Source EXCEPT !.active = TRUE, !.served = TRUE, !.targets = <<<<hostS, vm>>>>]}

MCHost == (src :> hostS @@ again :> hostS @@ dr1 :> host1 @@ dr2 :> host2)

MCPlaces ==
  {(src :> 1 @@ again :> 2 @@ dr2 :> 3 @@ dr1 :> 4), (again :> 1 @@ src :> 2 @@ dr2 :> 3 @@ dr1 :> 4)}

Says ==
  [a \in Agents |->
     (IF a = dr1 THEN {<<>>} ELSE {})   \* its host may have lost the domain
       \cup {(vm :> d) : d \in IF a = src THEN SourceSays ELSE IF a = again THEN AgainSays
                              ELSE IF a = dr1 THEN FirstSays ELSE SecondSays}]

MCReports(a) == Says[a]

OnSource == {<<src, vm>>}
OnSecond == {<<dr2, vm>>}

MCSent ==
  [kind : {"promote", "invert", "reinit", "forceclean"}, dom : OnSource]
    \cup [kind : {"shutdown"}, dom : OnSecond, typed : {TRUE}]
    \cup [kind : {"setrole"}, dom : OnSecond, typed : {FALSE}, role : {"source", "target"}]
    \cup [kind : {"setrole"}, dom : OnSecond, typed : {TRUE}, role : {"source"}]
    \cup [kind : {"restore"}, dom : OnSecond, tag : Tags]
==============================================================================
