---------------------------- MODULE FailoverProofs ----------------------------
(***************************************************************************)
(* Proofs about FleetPages and the rules of the failover page, for any     *)
(* fleet, any reports its agents may send and any number of them while a   *)
(* form is judged.                                                         *)
(*                                                                         *)
(* The argument is one: a call that has read the fleet holds, for every    *)
(* agent, a report that was on file since the call came.  What was said in *)
(* all of those was therefore said in what the rules were asked about,     *)
(* whichever mixture that is and whichever agent of a host speaks last.    *)
(***************************************************************************)
EXTENDS FleetPages, WellFoundedInduction, TLAPS

(* Every agent has been read, or is about to be; and one that was not      *)
(* found silent was heard from.                                            *)
ReadSince ==
  call # NoCall /\ call.stage \in {"read", "shown", "issued"} =>
    /\ \A a \in Agents : a \in call.left \/ call.fleet.said[a] \in since[a]
    /\ \A a \in Agents : a \in call.left \/ a \in call.fleet.old \/ a \in heard
    /\ \A a \in Agents : a \in call.fleet.silent \/ a \in heard

HeardSince == call # NoCall => \A a \in Agents : a \in old \/ a \in heard

(* What was answered was judged on all that was read.                      *)
Judged ==
  /\ call # NoCall /\ call.stage \in {"shown", "issued"} => call.left = {}
  /\ call # NoCall /\ call.stage = "issued" =>
       call.ask \in Forms \cup Restores /\ Eligible(call.ask, call.fleet)

IInv == TypeOK /\ ReadSince /\ HeardSince /\ Judged

----------------------------------------------------------------------------
(* The type invariant and what the safety theorems need are inductive.     *)
LEMMA InitInv == ASSUME Init PROVE IInv
<1>1. \A a \in Agents : reports[a] \in Reports(a) \cup {NoReport}
  BY DEF Init
<1>2. changes \in 0..MaxChanges
  BY PagesOK DEF Init
<1> QED BY <1>1, <1>2 DEF Init, IInv, TypeOK, ReadSince, HeardSince, Judged

(* A call that is over leaves nothing for IInv to speak of.                *)
LEMMA OverInv == ASSUME IInv, Over PROVE IInv'
<1>1. changes' \in 0..MaxChanges
  BY PagesOK DEF Over
<1> QED BY <1>1 DEF Over, IInv, TypeOK, ReadSince, HeardSince, Judged

(* What changes around a call changes neither the call nor, but for what   *)
(* it adds, the history; and the call has not been answered.               *)
LEMMA ChangeKeeps ==
  ASSUME IInv, Change, call' = call, heard \subseteq heard',
         \A a \in Agents : since[a] \subseteq since'[a]
  PROVE  /\ changes' \in 0..MaxChanges
         /\ ReadSince' /\ Judged'
<1>0. TypeOK /\ ReadSince /\ Judged
  BY DEF IInv
<1>1. changes' \in 0..MaxChanges
  BY <1>0, PagesOK DEF Change, TypeOK
<1>2. call = NoCall \/ call.stage \in {"come", "look", "read"}
  BY DEF Change
<1>3. Judged'
  BY <1>2 DEF Judged
<1>4. ReadSince'
  BY <1>0 DEF ReadSince
<1> QED BY <1>1, <1>3, <1>4

(* Every step keeps IInv.                                                  *)
LEMMA StepInv == ASSUME IInv, [Next]_vars PROVE IInv'
<1>0. TypeOK /\ ReadSince /\ HeardSince /\ Judged
  BY DEF IInv
<1>1. ASSUME NEW a \in Agents, NEW rep \in Reports(a), Report(a, rep)
      PROVE  IInv'
  <2>1. rep \in AnyReport /\ call' = call /\ heard \subseteq heard'
        /\ \A b \in Agents : since[b] \subseteq since'[b]
    BY <1>0, <1>1 DEF Report, TypeOK, AnyReport
  <2>2. changes' \in 0..MaxChanges /\ ReadSince' /\ Judged'
    BY <1>1, <2>1, ChangeKeeps DEF Report
  <2>3. HeardSince'
    BY <1>0, <1>1 DEF Report, HeardSince, TypeOK
  <2>4. CASE call = NoCall
    BY <1>0, <1>1, <2>1, <2>2, <2>3, <2>4 DEF Report, IInv, TypeOK
  <2>5. CASE call # NoCall
    <3>1. since' = [since EXCEPT ![a] = @ \cup {rep}] /\ reports' = [reports EXCEPT ![a] = rep]
          /\ heard' = heard \cup {a} /\ old' = old \ {a} /\ revoked' = revoked
      BY <1>1, <2>5 DEF Report
    <3>2. since' \in [Agents -> SUBSET AnyReport] /\ reports' \in [Agents -> AnyReport]
          /\ \A b \in Agents : reports'[b] \in since'[b] /\ reports'[b] \in Reports(b) \cup {NoReport}
                              /\ since'[b] \subseteq Reports(b) \cup {NoReport}
      BY <1>0, <2>1, <2>5, <3>1 DEF TypeOK
    <3>3. TypeOK'
      BY <1>0, <2>1, <2>2, <2>5, <3>1, <3>2 DEF TypeOK
    <3> QED BY <2>2, <2>3, <3>3 DEF IInv
  <2> QED BY <2>4, <2>5
<1>2. ASSUME NEW a \in Agents, FallSilent(a)
      PROVE  IInv'
  <2>1. changes' \in 0..MaxChanges /\ ReadSince' /\ Judged'
    BY <1>2, ChangeKeeps DEF FallSilent
  <2> QED BY <1>0, <1>2, <2>1 DEF FallSilent, IInv, TypeOK, HeardSince
<1>3. ASSUME NEW a \in Agents, Revoke(a)
      PROVE  IInv'
  <2>1. changes' \in 0..MaxChanges /\ ReadSince' /\ Judged'
    BY <1>3, ChangeKeeps DEF Revoke
  <2> QED BY <1>0, <1>3, <2>1 DEF Revoke, IInv, TypeOK, HeardSince
<1>4. ASSUME NEW a \in Agents, LoadReport(a)
      PROVE  IInv'
  <2> DEFINE fleet == [call.fleet EXCEPT !.said[a] = reports[a], !.old = @ \cup (old \cap {a})]
  <2>1. /\ call # NoCall /\ call.stage = "read" /\ call.fleet \in Fleets
        /\ UNCHANGED <<reports, revoked, old, changes, since, heard>>
    BY <1>0, <1>4 DEF LoadReport, NextToLoad, TypeOK
  <2>2. call' = [call EXCEPT !.left = @ \ {a}, !.fleet = fleet]
    BY <1>0, <1>4, <2>1 DEF LoadReport, TypeOK, Fleets
  <2>3. /\ fleet \in Fleets /\ fleet.place = call.fleet.place /\ fleet.revoked = call.fleet.revoked
        /\ fleet.silent = call.fleet.silent /\ fleet.old = call.fleet.old \cup (old \cap {a})
        /\ fleet.said = [call.fleet.said EXCEPT ![a] = reports[a]]
    BY <1>0, <2>1 DEF Fleets, TypeOK
  <2>4. /\ call' # NoCall => call' \in [ask : Forms \cup Restores \cup {NoAsk}, stage : Stages,
                                       left : SUBSET Agents, fleet : Fleets \cup {NoFleet}]
        /\ call'.fleet = fleet /\ call'.left = call.left \ {a} /\ call'.stage = "read"
    <3> HIDE DEF fleet
    <3> QED BY <1>0, <2>1, <2>2, <2>3 DEF TypeOK
  <2>5. \A b \in Agents : fleet.said[b] = IF b = a THEN reports[a] ELSE call.fleet.said[b]
    BY <2>1, <2>3 DEF Fleets
  <2> HIDE DEF fleet
  <2>6. TypeOK'
    BY <1>0, <2>1, <2>3, <2>4, <2>5 DEF TypeOK
  <2>7. ReadSince'
    BY <1>0, <2>1, <2>3, <2>4, <2>5 DEF TypeOK, ReadSince, HeardSince
  <2>8. Judged' /\ HeardSince'
    BY <1>0, <2>1, <2>4 DEF Judged, HeardSince
  <2> QED BY <2>6, <2>7, <2>8 DEF IInv
<1>5. ASSUME NEW ask \in SentRestores \cup {NoAsk}, Arrive(ask)
      PROVE  IInv'
  <2> DEFINE first == IF ask = NoAsk THEN "look" ELSE "come"
  <2>1. first \in {"come", "look"} /\ first \in Stages
    BY DEF Stages
  <2>2. call' = [ask |-> ask, stage |-> first, left |-> {}, fleet |-> NoFleet]
    BY <1>5 DEF Arrive
  <2>3. ask \in Forms \cup Restores \cup {NoAsk}
    BY DEF SentRestores
  <2> HIDE DEF first
  <2>4. /\ call' \in [ask : Forms \cup Restores \cup {NoAsk}, stage : Stages, left : SUBSET Agents,
                      fleet : Fleets \cup {NoFleet}]
        /\ call'.stage \in {"come", "look"}
    BY <2>1, <2>2, <2>3
  <2>5. since' \in [Agents -> SUBSET AnyReport]
        /\ \A a \in Agents : reports'[a] \in since'[a] /\ since'[a] \subseteq Reports(a) \cup {NoReport}
    BY <1>0, <1>5 DEF Arrive, TypeOK
  <2>6. TypeOK'
    BY <1>0, <1>5, <2>4, <2>5 DEF Arrive, TypeOK
  <2>7. HeardSince'
    BY <1>5 DEF Arrive, HeardSince
  <2> QED BY <2>4, <2>6, <2>7 DEF IInv, ReadSince, Judged
<1>6. CASE RestorePointKnown
  <2>1. CASE Over
    BY <2>1, OverInv
  <2>2. CASE call' = [call EXCEPT !.stage = "look"] /\ UNCHANGED <<reports, revoked, old, changes, since, heard>>
    BY <1>0, <1>6, <2>2 DEF RestorePointKnown, IInv, TypeOK, Stages, ReadSince, HeardSince, Judged
  <2> QED BY <1>6, <2>1, <2>2 DEF RestorePointKnown
<1>7. ASSUME NEW place \in Places, LoadAgents(place)
      PROVE  IInv'
  <2>1. Unread(place) \in Fleets /\ Unread(place).place = place /\ Unread(place).revoked = revoked
        /\ Unread(place).silent = old /\ \A a \in Agents : Unread(place).said[a] = NoReport
    BY <1>0, PagesOK DEF Unread, Fleets, AnyReport, TypeOK
  <2>2. call # NoCall
        /\ call' = [call EXCEPT !.stage = "read", !.left = Agents, !.fleet = Unread(place)]
        /\ UNCHANGED <<reports, revoked, old, changes, since, heard>>
    BY <1>7 DEF LoadAgents
  <2>3. /\ call' \in [ask : Forms \cup Restores \cup {NoAsk}, stage : Stages, left : SUBSET Agents,
                      fleet : Fleets \cup {NoFleet}]
        /\ call'.stage = "read" /\ call'.left = Agents /\ call'.fleet = Unread(place)
    BY <1>0, <2>1, <2>2 DEF TypeOK, Stages
  <2>4. TypeOK'
    BY <1>0, <2>1, <2>2, <2>3 DEF TypeOK
  <2>5. ReadSince' /\ HeardSince' /\ Judged'
    BY <1>0, <2>1, <2>2, <2>3 DEF ReadSince, HeardSince, Judged
  <2> QED BY <2>4, <2>5 DEF IInv
<1>8. CASE ShowPage
  BY <1>0, <1>8 DEF ShowPage, Loaded, IInv, TypeOK, Stages, ReadSince, HeardSince, Judged
<1>9. ASSUME NEW ask \in Sent, Decide(ask)
      PROVE  IInv'
  <2>1. call # NoCall /\ call.stage = "read" /\ call.left = {} /\ ask \in Forms \cup Restores
    BY <1>9, PagesOK DEF Decide, Loaded
  <2>2. CASE Eligible(ask, call.fleet)
    <3>1. /\ call' = [call EXCEPT !.stage = "issued", !.ask = ask]
          /\ UNCHANGED <<reports, revoked, old, changes, since, heard>>
      BY <1>9, <2>2 DEF Decide
    <3>2. /\ call' \in [ask : Forms \cup Restores \cup {NoAsk}, stage : Stages, left : SUBSET Agents,
                        fleet : Fleets \cup {NoFleet}]
          /\ call'.stage = "issued" /\ call'.ask = ask /\ call'.left = {} /\ call'.fleet = call.fleet
      BY <1>0, <2>1, <3>1 DEF TypeOK, Stages
    <3>3. TypeOK'
      BY <1>0, <2>1, <3>1, <3>2 DEF TypeOK
    <3>4. ReadSince' /\ HeardSince' /\ Judged'
      BY <1>0, <2>1, <2>2, <3>1, <3>2 DEF ReadSince, HeardSince, Judged
    <3> QED BY <3>3, <3>4 DEF IInv
  <2>3. CASE ~Eligible(ask, call.fleet)
    BY <1>9, <2>3, OverInv DEF Decide
  <2> QED BY <2>2, <2>3
<1>10. CASE Finish
  BY <1>10, OverInv DEF Finish
<1>11. CASE UNCHANGED vars
  BY <1>0, <1>11 DEF vars, IInv, TypeOK, ReadSince, HeardSince, Judged
<1> QED
  BY <1>1, <1>2, <1>3, <1>4, <1>5, <1>6, <1>7, <1>8, <1>9, <1>10, <1>11 DEF Next

(* The files, the call and the history are what TypeOK says, always.       *)
THEOREM TypeCorrect == Spec => []TypeOK
<1>1. IInv => TypeOK
  BY DEF IInv
<1> QED BY <1>1, InitInv, StepInv, PTL DEF Spec

----------------------------------------------------------------------------
(* What the rules of the page find in a list of targets.                   *)
LEMMA LeastIn ==
  ASSUME NEW I \in SUBSET Nat, I # {} PROVE Min(I) \in I /\ \A y \in I : Min(I) <= y
<1>1. PICK x \in I : \A y \in I : ~(<<y, x>> \in OpToRel(<, Nat))
  BY NatLessThanWellFounded, WFMin
<1>2. \A y \in I : x <= y
  <2> SUFFICES ASSUME NEW y \in I PROVE x <= y
    OBVIOUS
  <2>1. ~(y < x)
    BY <1>1 DEF OpToRel
  <2> QED BY <2>1
<1> QED BY <1>2 DEF Min

(* FirstIn finds a target of the set it is given.                          *)
LEMMA FirstListed ==
  ASSUME NEW T \in Seq(Refs), NEW S, S # {}, S \subseteq {T[i] : i \in DOMAIN T}
  PROVE  FirstIn(T, S) \in S
<1> DEFINE I == {i \in DOMAIN T : T[i] \in S}
<1>1. I \in SUBSET Nat /\ I # {}
  OBVIOUS
<1>2. Min(I) \in I
  BY <1>1, LeastIn
<1> QED BY <1>2 DEF FirstIn

(* Which of several targets pickPromotedTarget picks.                      *)
LEMMA Picked ==
  ASSUME NEW fleet, NEW T \in Seq(Refs), NEW i \in DOMAIN T
  PROVE  LET p == PickPromotedTarget(fleet, T)
         IN  /\ \E j \in DOMAIN T : p = T[j]
             /\ Said(fleet, T[i]).role = "promoted" => Said(fleet, p).role = "promoted"
             /\ Said(fleet, T[i]).served /\ Said(fleet, T[i]).role # "source" =>
                  \/ Said(fleet, p).role = "promoted"
                  \/ Said(fleet, p).served /\ Said(fleet, p).role # "source"
<1> DEFINE listed   == {T[k] : k \in DOMAIN T}
           promoted == {t \in listed : Said(fleet, t).role = "promoted"}
           served   == {t \in listed : Said(fleet, t).served /\ Said(fleet, t).role # "source"}
           p        == PickPromotedTarget(fleet, T)
<1>1. p = IF promoted # {} THEN FirstIn(T, promoted)
          ELSE IF served # {} THEN FirstIn(T, served) ELSE T[1]
  BY DEF PickPromotedTarget
<1>2. CASE promoted # {}
  <2>1. p \in promoted
    BY <1>1, <1>2, FirstListed
  <2> QED BY <2>1
<1>3. CASE promoted = {} /\ served # {}
  <2>1. p \in served
    BY <1>1, <1>3, FirstListed
  <2>2. T[i] \notin promoted
    BY <1>3
  <2> QED BY <2>1, <2>2
<1>4. CASE promoted = {} /\ served = {}
  <2>1. p = T[1] /\ 1 \in DOMAIN T
    BY <1>1, <1>4
  <2>2. T[i] \notin promoted /\ T[i] \notin served
    BY <1>4
  <2> QED BY <2>1, <2>2
<1> QED BY <1>2, <1>3, <1>4

----------------------------------------------------------------------------

----------------------------------------------------------------------------
(* The last of some agents is one of them: no two have the same place.     *)
LEMMA LastIn ==
  ASSUME NEW fleet \in Fleets, NEW S \in SUBSET Agents, S # {}
  PROVE  LastOf(fleet, S) \in S
<1> DEFINE I == {fleet.place[a] : a \in S}
<1>1. fleet.place \in [Agents -> Nat]
  BY DEF Fleets
<1>2. I \in SUBSET Nat /\ I # {}
  BY <1>1
<1>3. Min(I) \in I /\ \A y \in I : Min(I) <= y
  BY <1>2, LeastIn
<1>4. \E a \in S : \A b \in S : fleet.place[a] <= fleet.place[b]
  BY <1>3
<1> QED BY <1>4 DEF LastOf

----------------------------------------------------------------------------
(* A call that is answered: what it is about, and what it read.            *)
Answered == call # NoCall /\ call.stage \in {"shown", "issued"}

(* What an answered call read of each agent was on file since it came.     *)
LEMMA ReadAll ==
  ASSUME IInv, Answered, NEW a \in Agents
  PROVE  /\ call.fleet \in Fleets /\ call.fleet.said[a] \in since[a]
         /\ call.fleet.revoked \subseteq revoked
         /\ a \notin call.fleet.old => a \in heard
         /\ a \notin call.fleet.silent => a \in heard
BY DEF Answered, IInv, TypeOK, ReadSince, Judged

(* What is read of a domain is a domain's state.                           *)
LEMMA IsReported ==
  ASSUME IInv, Answered, NEW a \in Agents, NEW v, Lists(call.fleet.said[a], v)
  PROVE  v \in VMs /\ IsDomain(call.fleet.said[a][v])
<1>1. call.fleet.said[a] \in Reports(a)
  BY ReadAll DEF IInv, TypeOK, Lists
<1> QED BY <1>1, FleetOK DEF Lists

(* What is known of a domain is what an enrolled agent of its host says.   *)
LEMMA SpeakerSays ==
  ASSUME IInv, Answered, NEW ref \in Refs, Known(call.fleet, ref)
  PROVE  LET a == Speaker(call.fleet, ref)
         IN  /\ a \in At(ref[1]) /\ a \in Agents /\ a \notin call.fleet.revoked
             /\ call.fleet.said[a] \in since[a] /\ Lists(call.fleet.said[a], ref[2])
             /\ Said(call.fleet, ref) = call.fleet.said[a][ref[2]]
             /\ IsDomain(Said(call.fleet, ref))
<1> DEFINE S == Reporting(call.fleet, ref) \ call.fleet.revoked
           a == Speaker(call.fleet, ref)
<1>1. S \in SUBSET Agents /\ S # {}
  BY DEF Known, Reporting, At
<1>2. \A b \in Agents : call.fleet \in Fleets
  BY ReadAll
<1>3. a \in S
  BY <1>1, <1>2, LastIn DEF Speaker
<1>4. a \in At(ref[1]) /\ a \in Agents /\ a \notin call.fleet.revoked
      /\ Lists(call.fleet.said[a], ref[2])
  BY <1>3 DEF Reporting, At
<1>5. Said(call.fleet, ref) = call.fleet.said[a][ref[2]]
  BY DEF Said
<1>6. call.fleet.said[a] \in since[a]
  BY <1>4, ReadAll
<1>7. IsDomain(Said(call.fleet, ref))
  BY <1>4, <1>5, IsReported
<1> HIDE DEF a
<1> QED BY <1>4, <1>5, <1>6, <1>7 DEF a

(* A domain an enrolled agent reports all along is known.                  *)
LEMMA KnownAllAlong ==
  ASSUME IInv, Answered, NEW ref \in Refs, NEW a \in At(ref[1]), a \notin revoked,
         \A rep \in since[a] : Lists(rep, ref[2])
  PROVE  Known(call.fleet, ref)
<1>1. a \in Agents
  BY DEF At
<1>2. call.fleet.said[a] \in since[a] /\ a \notin call.fleet.revoked
  BY <1>1, ReadAll
<1> QED BY <1>2 DEF Known, Reporting

(* A source's row is about a target its agent lists, the one Picked says.  *)
LEMMA SourceRow ==
  ASSUME IInv, Answered, NEW a \in Agents, NEW v \in VMs, NEW t \in TargetsOf(<<a, v>>)
  PROVE  LET d == call.fleet.said[a][v]
             p == PickPromotedTarget(call.fleet, d.targets)
         IN  /\ call.fleet.said[a] \in since[a] /\ Lists(call.fleet.said[a], v) /\ IsDomain(d)
             /\ d.source = NoRef /\ d.targets # <<>> /\ d.targets \in Seq(Refs)
             /\ \E i \in DOMAIN d.targets : d.targets[i] = t
             /\ Row(call.fleet, a, v).self = d
             /\ Row(call.fleet, a, v).peer = Said(call.fleet, p)
             /\ Row(call.fleet, a, v).peerSeen = Known(call.fleet, p)
             /\ p \in Refs /\ \E i \in DOMAIN d.targets : p = d.targets[i]
<1> DEFINE d == call.fleet.said[a][v]
           p == PickPromotedTarget(call.fleet, d.targets)
<1>1. call.fleet.said[a] \in since[a]
  BY ReadAll
<1>2. Lists(call.fleet.said[a], v) /\ \E i \in DOMAIN d.targets : d.targets[i] = t
  BY <1>1 DEF TargetsOf, SaidSince, ListsTarget
<1>3. IsDomain(d)
  BY <1>2, IsReported
<1>4. d.targets # <<>> /\ d.source = NoRef /\ d.targets \in Seq(Refs)
  BY <1>2, <1>3 DEF IsDomain
<1>5. PeerRef(call.fleet, d) = p
  BY <1>4 DEF PeerRef
<1>6. \E i \in DOMAIN d.targets : p = d.targets[i]
  <2> HIDE DEF d
  <2> QED BY <1>2, <1>4, Picked
<1>7. p \in Refs
  <2> HIDE DEF d, p
  <2> QED BY <1>4, <1>6
<1>8. Row(call.fleet, a, v) =
        [self |-> d, peer |-> Said(call.fleet, p), peerSeen |-> Known(call.fleet, p),
         peerOld |-> Known(call.fleet, p) /\ Speaker(call.fleet, p) \in call.fleet.old]
  BY <1>5 DEF Row
<1> HIDE DEF d, p
<1>9. /\ Row(call.fleet, a, v).self = d /\ Row(call.fleet, a, v).peer = Said(call.fleet, p)
      /\ Row(call.fleet, a, v).peerSeen = Known(call.fleet, p)
  BY <1>8
<1> QED BY <1>1, <1>2, <1>3, <1>4, <1>6, <1>7, <1>9 DEF d, p

(* A form that became an operation was about a row that permits it.        *)
LEMMA OnARow ==
  ASSUME IInv, call # NoCall, call.stage = "issued"
  PROVE  LET a == call.ask.dom[1]
             v == call.ask.dom[2]
         IN  /\ Answered /\ a \in Agents /\ v \in VMs /\ call.ask.dom = <<a, v>>
             /\ call.fleet.said[a] \in since[a] /\ Lists(call.fleet.said[a], v)
             /\ Row(call.fleet, a, v).self = call.fleet.said[a][v]
             /\ Confirmed(call.ask, Row(call.fleet, a, v))
             /\ Offered(call.ask, Row(call.fleet, a, v))
<1>1. call.ask \in Forms \cup Restores /\ Eligible(call.ask, call.fleet)
  BY DEF IInv, Judged
<1>2. call.ask.dom \in Agents \X VMs
  BY <1>1 DEF Forms, Restores, Domains
<1>3. Answered
  BY DEF Answered
<1>4. call.fleet.said[call.ask.dom[1]] \in since[call.ask.dom[1]]
  BY <1>2, <1>3, ReadAll
<1>5. \A a \in Agents, v \in VMs : Row(call.fleet, a, v).self = call.fleet.said[a][v]
  BY DEF Row
<1>6. call.ask.dom[1] \in Agents /\ call.ask.dom[2] \in VMs
      /\ call.ask.dom = <<call.ask.dom[1], call.ask.dom[2]>>
  BY <1>2
<1> QED BY <1>1, <1>3, <1>4, <1>5, <1>6 DEF Eligible, HasRow

----------------------------------------------------------------------------
(* However stale the page and whatever was reported while the form was     *)
(* judged, no resync is issued over a copy known to hold live data, and    *)
(* not made a source (CanReinit, CanForceClean, pickPromotedTarget).       *)
LEMMA ResyncSparedInv == ASSUME IInv PROVE ResyncSparesServed
<1> DEFINE a == call.ask.dom[1]
           v == call.ask.dom[2]
           d == call.fleet.said[a][v]
           p == PickPromotedTarget(call.fleet, d.targets)
<1> SUFFICES ASSUME Issued({"reinit", "forceclean"}),
                    NEW t \in TargetsOf(call.ask.dom), AllAlong(t, NotMadeSource)
             PROVE  FALSE
  BY DEF ResyncSparesServed
<1>1. Answered /\ a \in Agents /\ v \in VMs /\ t \in TargetsOf(<<a, v>>) /\ t \in Refs
      /\ Offered(call.ask, Row(call.fleet, a, v))
  BY OnARow DEF Issued, TargetsOf
<1>2. CanReinit(Row(call.fleet, a, v))
  BY <1>1 DEF Offered, Issued, CanForceClean
<1>3. /\ d.targets \in Seq(Refs) /\ \E i \in DOMAIN d.targets : d.targets[i] = t
      /\ Row(call.fleet, a, v).peer = Said(call.fleet, p)
  BY <1>1, SourceRow
<1>4. Known(call.fleet, t)
  BY <1>1, KnownAllAlong DEF AllAlong, SaidSince
<1>5. NotMadeSource(Said(call.fleet, t))
  BY <1>1, <1>4, SpeakerSays DEF AllAlong, SaidBy
<1>6. Said(call.fleet, p).role = "promoted" \/ Said(call.fleet, p).served
  <2> HIDE DEF d
  <2> QED BY <1>3, <1>5, Picked DEF NotMadeSource, HoldsLiveData
<1> QED BY <1>2, <1>3, <1>6 DEF CanReinit

(* No resync is issued over a copy known all along to hold live data       *)
(* (CanReinit, pickPromotedTarget).                                        *)
THEOREM ResyncSpared == Spec => []ResyncSparesServed
BY ResyncSparedInv, InitInv, StepInv, PTL DEF Spec

----------------------------------------------------------------------------
(* Neither a restore nor the role target gives away the disks of a copy    *)
(* known to have served, to run as production or to be held back           *)
(* (CanRestore, CanSetRoleTo).                                             *)
LEMMA DisksSparedInv == ASSUME IInv PROVE DisksSpared
<1> DEFINE a == call.ask.dom[1]
           v == call.ask.dom[2]
           d == call.fleet.said[a][v]
           row == Row(call.fleet, a, v)
<1>1. ASSUME Issued({"restore"}),
             SaidSince(a, v, LAMBDA x : HoldsLiveData(x) \/ x.active \/ x.role \in {"source", "fenced"})
      PROVE  FALSE
  <2>1. call.fleet.said[a] \in since[a] /\ row.self = d /\ Offered(call.ask, row)
    BY <1>1, OnARow DEF Issued
  <2>2. HoldsLiveData(d) \/ d.active \/ d.role \in {"source", "fenced"}
    BY <1>1, <2>1 DEF SaidSince
  <2>3. CanRestore(row)
    BY <1>1, <2>1 DEF Offered, Issued
  <2> QED BY <2>1, <2>2, <2>3 DEF CanRestore, HoldsLiveData
<1>2. ASSUME Issued({"setrole"}), call.ask.role = "target",
             SaidSince(a, v, LAMBDA x : x.served \/ LivePromoted(x))
      PROVE  FALSE
  <2>1. call.fleet.said[a] \in since[a] /\ row.self = d /\ Offered(call.ask, row)
    BY <1>2, OnARow DEF Issued
  <2>2. d.served \/ LivePromoted(d)
    BY <1>2, <2>1 DEF SaidSince
  <2>3. CanSetRoleTo(row, "target")
    BY <1>2, <2>1 DEF Offered, Issued
  <2> QED BY <2>1, <2>2, <2>3 DEF CanSetRoleTo, IsLivePromoted, LivePromoted
<1> QED BY <1>1, <1>2 DEF DisksSpared

(* No restore and no role target is issued on a copy that served           *)
(* (CanRestore, CanSetRoleTo).                                             *)
THEOREM DisksKept == Spec => []DisksSpared
BY DisksSparedInv, InitInv, StepInv, PTL DEF Spec

(* The running promoted copy is neither stopped nor renamed by a click,    *)
(* and only source is a name it takes (NeedsTypedConfirmation,             *)
(* CanSetRoleTo).                                                          *)
LEMMA LiveGuardedInv == ASSUME IInv PROVE LiveCopyGuarded
<1> DEFINE a == call.ask.dom[1]
           v == call.ask.dom[2]
           d == call.fleet.said[a][v]
           row == Row(call.fleet, a, v)
<1> SUFFICES ASSUME Issued({"shutdown", "setrole"}), SaidSince(a, v, LivePromoted)
             PROVE  call.ask.typed /\ (call.ask.kind = "setrole" => call.ask.role = "source")
  BY DEF LiveCopyGuarded
<1>1. call.fleet.said[a] \in since[a] /\ row.self = d
      /\ Confirmed(call.ask, row) /\ Offered(call.ask, row)
  BY OnARow DEF Issued
<1>2. LivePromoted(d)
  BY <1>1 DEF SaidSince
<1>3. IsLivePromoted(row)
  BY <1>1, <1>2 DEF IsLivePromoted, LivePromoted
<1>4. call.ask.typed
  BY <1>1, <1>3 DEF Confirmed, Issued
<1>5. call.ask.kind = "setrole" => CanSetRoleTo(row, call.ask.role)
  BY <1>1 DEF Offered
<1> QED BY <1>3, <1>4, <1>5 DEF CanSetRoleTo

(* The running promoted copy is not stopped or renamed by a click          *)
(* (NeedsTypedConfirmation).                                               *)
THEOREM LiveGuarded == Spec => []LiveCopyGuarded
BY LiveGuardedInv, InitInv, StepInv, PTL DEF Spec

----------------------------------------------------------------------------
(* A pair that was never failed over is not offered to be reversed         *)
(* (CanInvert).                                                            *)
LEMMA InvertGuardedInv == ASSUME IInv PROVE InvertOnlyAfterFailover
<1> DEFINE a == call.ask.dom[1]
           v == call.ask.dom[2]
           d == call.fleet.said[a][v]
           p == PickPromotedTarget(call.fleet, d.targets)
<1> SUFFICES ASSUME Issued({"invert"}), NEW t, t \in TargetsOf(call.ask.dom),
                    \A rep \in since[a] : \A i \in DOMAIN rep[v].targets :
                      AllAlong(rep[v].targets[i], Untouched)
             PROVE  FALSE
  BY DEF InvertOnlyAfterFailover
<1>1. Answered /\ a \in Agents /\ v \in VMs /\ t \in TargetsOf(<<a, v>>)
      /\ Offered(call.ask, Row(call.fleet, a, v))
  BY OnARow DEF Issued
<1>2. CanInvert(Row(call.fleet, a, v))
  BY <1>1 DEF Offered, Issued
<1>3. /\ call.fleet.said[a] \in since[a] /\ p \in Refs /\ \E i \in DOMAIN d.targets : p = d.targets[i]
      /\ Row(call.fleet, a, v).peer = Said(call.fleet, p)
      /\ Row(call.fleet, a, v).peerSeen = Known(call.fleet, p)
  BY <1>1, SourceRow
<1>4. AllAlong(p, Untouched)
  BY <1>3
<1>5. Known(call.fleet, p)
  BY <1>2, <1>3 DEF CanInvert
<1> HIDE DEF a, v, d, p
<1>6. Untouched(Said(call.fleet, p))
  BY <1>1, <1>3, <1>4, <1>5, SpeakerSays DEF AllAlong, SaidBy
<1> QED BY <1>2, <1>3, <1>6 DEF CanInvert, Untouched, HoldsLiveData

(* No inversion is issued on a pair that was never failed over             *)
(* (CanInvert).                                                            *)
THEOREM InvertGuarded == Spec => []InvertOnlyAfterFailover
BY InvertGuardedInv, InitInv, StepInv, PTL DEF Spec

(* A shutdown, a fence or a change of role does not take Invert away from  *)
(* the old source (CanInvert, pickPromotedTarget).                         *)
LEMMA InvertThereInv == ASSUME IInv PROVE InvertOffered
<1> SUFFICES ASSUME Shown, NEW a \in Agents \ revoked, NEW v \in VMs,
                    NEW t \in TargetsOf(<<a, v>>), AllAlong(t, Demoted),
                    \/ AllAlong(t, Promoted)
                    \/ \A u \in Refs : ListsTarget(call.fleet.said[a][v], u) =>
                                       ~Nameless(Said(call.fleet, u))
             PROVE  CanInvert(Row(call.fleet, a, v))
  BY DEF InvertOffered
<1> DEFINE d == call.fleet.said[a][v]
           p == PickPromotedTarget(call.fleet, d.targets)
           row == Row(call.fleet, a, v)
<1>1. Answered /\ t \in Refs
  BY DEF Answered, Shown, TargetsOf
<1>2. /\ d.targets # <<>> /\ d.targets \in Seq(Refs) /\ p \in Refs
      /\ \E i \in DOMAIN d.targets : d.targets[i] = t
      /\ \E i \in DOMAIN d.targets : p = d.targets[i]
      /\ row.self = d /\ row.peer = Said(call.fleet, p) /\ row.peerSeen = Known(call.fleet, p)
  BY <1>1, SourceRow
<1>3. Known(call.fleet, t)
  BY <1>1, KnownAllAlong DEF AllAlong, SaidSince
<1>4. /\ Demoted(Said(call.fleet, t))
      /\ AllAlong(t, Promoted) => Said(call.fleet, t).role = "promoted"
  BY <1>1, <1>3, SpeakerSays DEF AllAlong, SaidBy, Promoted
<1>0. \/ Said(call.fleet, t).role = "promoted"
      \/ ~Nameless(Said(call.fleet, p))
  <2>1. ListsTarget(d, p)
    <3> HIDE DEF d, p
    <3> QED BY <1>2 DEF ListsTarget
  <2> QED BY <1>2, <1>4, <2>1
<1>5. \/ Said(call.fleet, p).role = "promoted"
      \/ Said(call.fleet, p).served /\ Said(call.fleet, p).role \notin {"source", "none"}
  <2> HIDE DEF d, row
  <2> QED BY <1>0, <1>2, <1>4, Picked DEF Demoted, Nameless
<1> HIDE DEF d, p, row
<1>6. Known(call.fleet, p)
  BY <1>5 DEF Said, Unreported
<1>7. Said(call.fleet, p).role \in Roles
  BY <1>1, <1>2, <1>6, SpeakerSays DEF IsDomain
<1>8. \/ Said(call.fleet, p).role = "promoted"
      \/ Said(call.fleet, p).served /\ Said(call.fleet, p).role \in {"paused", "fenced", "target"}
  BY <1>2, <1>5, <1>7 DEF Roles
<1>9. CanInvert(row)
  BY <1>2, <1>6, <1>8 DEF CanInvert, IsSource
<1> QED BY <1>9 DEF row

(* The inversion is offered whenever a target was promoted or demoted      *)
(* (CanInvert).                                                            *)
THEOREM InvertThere == Spec => []InvertOffered
BY InvertThereInv, InitInv, StepInv, PTL DEF Spec

----------------------------------------------------------------------------
(* Two live copies of one machine are drawn as such and before all else,   *)
(* and a row that needs a decision before one that does not (rankRow,      *)
(* splitBrainShape).                                                       *)
LEMMA SplitBrainInv == ASSUME IInv PROVE SplitBrainDrawn
<1>1. ASSUME Shown, NEW a \in Agents \ revoked, NEW v \in VMs, SaidSince(a, v, Running),
             NEW t \in TargetsOf(<<a, v>>), AllAlong(t, LivePromoted),
             \A u \in Refs : Said(call.fleet, u).role = "promoted" => Said(call.fleet, u).active
      PROVE  SplitBrainShape(Row(call.fleet, a, v)) /\ Rank(Row(call.fleet, a, v)) = 0
  <2> DEFINE d == call.fleet.said[a][v]
             p == PickPromotedTarget(call.fleet, d.targets)
             row == Row(call.fleet, a, v)
  <2>1. Answered /\ t \in Refs
    BY <1>1 DEF Answered, Shown, TargetsOf
  <2>2. /\ d.targets \in Seq(Refs) /\ p \in Refs /\ call.fleet.said[a] \in since[a]
        /\ \E i \in DOMAIN d.targets : d.targets[i] = t
        /\ row.self = d /\ row.peer = Said(call.fleet, p) /\ row.peerSeen = Known(call.fleet, p)
    BY <1>1, <2>1, SourceRow
  <2>3. Known(call.fleet, t)
    BY <1>1, <2>1, KnownAllAlong DEF AllAlong, SaidSince
  <2>4. LivePromoted(Said(call.fleet, t))
    BY <1>1, <2>1, <2>3, SpeakerSays DEF AllAlong, SaidBy
  <2>5. d.active
    BY <1>1, <2>2 DEF SaidSince, Running
  <2>6. Said(call.fleet, p).role = "promoted"
    <3> HIDE DEF d, row
    <3> QED BY <2>2, <2>4, Picked DEF LivePromoted
  <2> HIDE DEF d, p, row
  <2>7. Known(call.fleet, p)
    BY <2>6 DEF Said, Unreported
  <2>8. Said(call.fleet, p).active
    BY <1>1, <2>2, <2>6
  <2>9. SplitBrainShape(row) /\ Rank(row) = 0
    BY <2>2, <2>5, <2>6, <2>7, <2>8 DEF SplitBrainShape, Rank
  <2> QED BY <2>9 DEF row
<1>2. ASSUME NEW r, NEW s, NeedsDecision(r), ~NeedsDecision(s)
      PROVE  Rank(r) < Rank(s)
  <2>1. Rank(s) = 4
    BY <1>2 DEF NeedsDecision, Rank, RowSplitBrain, RowSplitBrainPossible
  <2>2. Rank(r) \in 0..3
    BY <1>2 DEF NeedsDecision, Rank, RowSplitBrain, RowSplitBrainPossible
  <2> QED BY <2>1, <2>2
<1> QED BY <1>1, <1>2 DEF SplitBrainDrawn

(* A split brain is drawn as one, and what needs a decision comes first    *)
(* (rankRow).                                                              *)
THEOREM SplitBrainFirst == Spec => []SplitBrainDrawn
BY SplitBrainInv, InitInv, StepInv, PTL DEF Spec
==============================================================================
