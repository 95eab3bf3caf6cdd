---------------------------- MODULE DashboardProofs ----------------------------
(***************************************************************************)
(* Proofs about FleetPages and the rules of the dashboard, for any fleet   *)
(* and any reports, silences and revocations while a page is drawn.  They  *)
(* rest on the invariant of FailoverProofs: what a page read of an agent   *)
(* was on file since the page was asked for.                               *)
(***************************************************************************)
EXTENDS FailoverProofs

(* What is known of a domain is what an agent of its host says, and an     *)
(* enrolled one if any does.                                               *)
LEMMA WitnessSays ==
  ASSUME IInv, Answered, NEW ref \in Refs, Witnessed(call.fleet, ref)
  PROVE  LET a == Witness(call.fleet, ref)
         IN  /\ a \in Reporting(call.fleet, ref) /\ a \in At(ref[1]) /\ a \in Agents
             /\ call.fleet.said[a] \in since[a] /\ Lists(call.fleet.said[a], ref[2])
             /\ Reporting(call.fleet, ref) \ call.fleet.revoked # {} => a \notin call.fleet.revoked
<1> DEFINE R == Reporting(call.fleet, ref)
           E == R \ call.fleet.revoked
           S == IF E # {} THEN E ELSE R
           a == Witness(call.fleet, ref)
<1>1. R \in SUBSET Agents /\ R # {}
  BY DEF Witnessed, Reporting, At
<1>2. S \in SUBSET Agents /\ S # {} /\ S \subseteq R /\ (E # {} => S = E)
  BY <1>1
<1>3. PICK b \in Agents : b \in R
  BY <1>1
<1>4. call.fleet \in Fleets
  BY ReadAll
<1>5. a = LastOf(call.fleet, S)
  BY DEF Witness
<1>6. a \in S
  <2> HIDE DEF S, a
  <2> QED BY <1>2, <1>4, <1>5, LastIn
<1>7. a \in R /\ (E # {} => a \notin call.fleet.revoked)
  <2> HIDE DEF R, a
  <2> QED BY <1>2, <1>6
<1>8. a \in At(ref[1]) /\ a \in Agents /\ Lists(call.fleet.said[a], ref[2])
  <2> HIDE DEF a
  <2> QED BY <1>7 DEF Reporting, At
<1>9. call.fleet.said[a] \in since[a]
  BY <1>8, ReadAll
<1> HIDE DEF a
<1> QED BY <1>7, <1>8, <1>9 DEF a

(* An agent of the host that reports a domain all along is found for it.   *)
LEMMA ReportsAllAlong ==
  ASSUME IInv, Answered, NEW ref \in Refs, NEW a \in At(ref[1]),
         \A rep \in since[a] : Lists(rep, ref[2])
  PROVE  /\ a \in Reporting(call.fleet, ref) /\ Witnessed(call.fleet, ref)
         /\ a \notin revoked => Reporting(call.fleet, ref) \ call.fleet.revoked # {}
<1>1. a \in Agents
  BY DEF At
<1>2. call.fleet.said[a] \in since[a] /\ call.fleet.revoked \subseteq revoked
  BY <1>1, ReadAll
<1> QED BY <1>2 DEF Reporting, Witnessed

(* A row of the dashboard: the source is a domain's name.                  *)
LEMMA PairOf ==
  ASSUME IInv, Answered, NEW a \in Agents, NEW v, HasPair(call.fleet, a, v)
  PROVE  LET self == call.fleet.said[a][v]
             p    == Pair(call.fleet, a, v)
         IN  /\ v \in VMs /\ self.source \in Refs
             /\ p.role = self.role /\ p.active = self.active
             /\ p.sourceSeen = Witnessed(call.fleet, self.source)
             /\ p.sourceActive = (p.sourceSeen /\
                  call.fleet.said[Witness(call.fleet, self.source)][self.source[2]].active)
             /\ p.sourceOld = (p.sourceSeen /\ Witness(call.fleet, self.source) \in call.fleet.old)
             /\ p.sourceWithdrawn = Withdrawn(call.fleet, self.source)
<1> DEFINE self == call.fleet.said[a][v]
<1>1. v \in VMs /\ IsDomain(self) /\ self.source # NoRef
  BY IsReported DEF HasPair
<1>2. self.source \in Refs
  BY <1>1 DEF IsDomain
<1> QED BY <1>1, <1>2 DEF Pair

(* A row of the failover page: the peer is a domain's name.                *)
LEMMA PeerNamed ==
  ASSUME IInv, Answered, NEW a \in Agents, NEW v, HasRow(call.fleet, a, v)
  PROVE  PeerRef(call.fleet, call.fleet.said[a][v]) \in Refs
<1> DEFINE d == call.fleet.said[a][v]
<1>1. IsDomain(d) /\ (d.source # NoRef \/ d.targets # <<>>)
  BY IsReported DEF HasRow
<1> HIDE DEF d
<1>2. CASE d.source # NoRef
  BY <1>1, <1>2 DEF IsDomain, PeerRef, d
<1>3. CASE d.source = NoRef
  <2>1. d.targets \in Seq(Refs) /\ 1 \in DOMAIN d.targets
    BY <1>1, <1>3 DEF IsDomain
  <2>2. PICK j \in DOMAIN d.targets : PickPromotedTarget(call.fleet, d.targets) = d.targets[j]
    BY <2>1, Picked
  <2>3. PeerRef(call.fleet, d) = d.targets[j]
    BY <1>3, <2>2 DEF PeerRef
  <2>4. d.targets[j] \in Refs
    BY <2>1
  <2> QED BY <2>3, <2>4 DEF d
<1> QED BY <1>2, <1>3

----------------------------------------------------------------------------
(* Two running copies are on the board as a split brain, certain or        *)
(* possible, whichever agents are revoked (BuildDashboard).                *)
LEMMA AlarmedInv == ASSUME IInv PROVE SplitBrainAlarmed
<1> SUFFICES ASSUME Shown, NEW a \in Agents, NEW v \in VMs, NEW s \in Refs,
                    SaidSince(a, v, LAMBDA d : LivePromoted(d) /\ d.source = s),
                    AllAlong(s, Running) \/ SaidBy(At(s[1]), s, Running)
             PROVE  /\ HasPair(call.fleet, a, v)
                    /\ \/ SplitBrain(Pair(call.fleet, a, v))
                       \/ SplitBrainPossible(Pair(call.fleet, a, v))
  BY DEF SplitBrainAlarmed
<1> DEFINE d == call.fleet.said[a][v]
           w == Witness(call.fleet, s)
<1>1. Answered
  BY DEF Answered, Shown
<1>2. call.fleet.said[a] \in since[a]
  BY <1>1, ReadAll
<1>3. Lists(call.fleet.said[a], v) /\ LivePromoted(d) /\ d.source = s
  BY <1>2 DEF SaidSince
<1>4. HasPair(call.fleet, a, v)
  BY <1>3, FleetOK DEF HasPair
<1>5. Witnessed(call.fleet, s) /\ call.fleet.said[w][s[2]].active
  <2>1. CASE AllAlong(s, Running)
    <3>1. PICK b \in At(s[1]) \ revoked : \A rep \in since[b] : Lists(rep, s[2])
      BY <2>1 DEF AllAlong, SaidSince
    <3>2. Witnessed(call.fleet, s) /\ Reporting(call.fleet, s) \ call.fleet.revoked # {}
      BY <1>1, <3>1, ReportsAllAlong
    <3>3. /\ w \in At(s[1]) /\ w \notin call.fleet.revoked /\ call.fleet.said[w] \in since[w]
          /\ Lists(call.fleet.said[w], s[2])
      BY <1>1, <3>2, WitnessSays
    <3> HIDE DEF w
    <3>4. Running(call.fleet.said[w][s[2]])
      BY <2>1, <3>3 DEF AllAlong, SaidBy
    <3> QED BY <3>2, <3>4 DEF Running
  <2>2. CASE SaidBy(At(s[1]), s, Running)
    <3>1. PICK b \in At(s[1]) : \A rep \in since[b] : Lists(rep, s[2])
      BY <2>2 DEF SaidBy, SaidSince
    <3>2. Witnessed(call.fleet, s)
      BY <1>1, <3>1, ReportsAllAlong
    <3>3. /\ w \in At(s[1]) /\ call.fleet.said[w] \in since[w]
          /\ Lists(call.fleet.said[w], s[2])
      BY <1>1, <3>2, WitnessSays
    <3> HIDE DEF w
    <3>4. Running(call.fleet.said[w][s[2]])
      BY <2>2, <3>3 DEF SaidBy
    <3> QED BY <3>2, <3>4 DEF Running
  <2> QED BY <2>1, <2>2
<1>6. PromotedAndSourceRunning(Pair(call.fleet, a, v))
  BY <1>1, <1>3, <1>4, <1>5, PairOf DEF PromotedAndSourceRunning, LivePromoted
<1> QED BY <1>4, <1>6 DEF SplitBrain, SplitBrainPossible

(* A replica and a source that both run all along are on the dashboard as  *)
(* a split brain, whoever is revoked (BuildDashboard, Pair.SplitBrain).    *)
THEOREM SplitBrainToldOfRevoked == Spec => []SplitBrainAlarmed
BY AlarmedInv, InitInv, StepInv, PTL DEF Spec

----------------------------------------------------------------------------
(* No page is certain of a split brain on the word of a host that is gone  *)
(* (SourceFresh, PeerFresh).                                               *)
LEMMA CurrentInv == ASSUME IInv PROVE AlarmIsCurrent
<1>1. ASSUME Shown, NEW a \in Agents, NEW v \in VMs,
             HasPair(call.fleet, a, v), SplitBrain(Pair(call.fleet, a, v))
      PROVE  CurrentlyReported(call.fleet.said[a][v].source)
  <2> DEFINE s == call.fleet.said[a][v].source
             w == Witness(call.fleet, s)
  <2>1. Answered
    BY <1>1 DEF Answered, Shown
  <2> DEFINE p == Pair(call.fleet, a, v)
  <2>a. /\ s \in Refs /\ p.sourceSeen = Witnessed(call.fleet, s)
        /\ p.sourceOld = (p.sourceSeen /\ w \in call.fleet.old)
    BY <1>1, <2>1, PairOf
  <2>b. p.sourceSeen /\ ~p.sourceOld
    BY <1>1 DEF SplitBrain, SourceFresh
  <2>2. s \in Refs /\ Witnessed(call.fleet, s) /\ w \notin call.fleet.old
    <3> HIDE DEF p, s, w
    <3> QED BY <2>a, <2>b
  <2>3. w \in At(s[1]) /\ w \in Agents /\ call.fleet.said[w] \in since[w]
        /\ Lists(call.fleet.said[w], s[2])
    <3> HIDE DEF s
    <3> QED BY <2>1, <2>2, WitnessSays
  <2>4. w \in heard
    BY <2>1, <2>2, <2>3, ReadAll
  <2> HIDE DEF w
  <2> QED BY <2>3, <2>4 DEF CurrentlyReported
<1>2. ASSUME Shown, NEW a \in Agents, NEW v \in VMs,
             HasRow(call.fleet, a, v), RowSplitBrain(Row(call.fleet, a, v))
      PROVE  CurrentlyReported(PeerRef(call.fleet, call.fleet.said[a][v]))
  <2> DEFINE d == call.fleet.said[a][v]
             t == PeerRef(call.fleet, d)
             w == Speaker(call.fleet, t)
  <2>1. Answered
    BY <1>2 DEF Answered, Shown
  <2>3. t \in Refs
    BY <1>2, <2>1, PeerNamed
  <2>4. Row(call.fleet, a, v) =
          [self |-> d, peer |-> Said(call.fleet, t), peerSeen |-> Known(call.fleet, t),
           peerOld |-> Known(call.fleet, t) /\ w \in call.fleet.old]
    BY DEF Row
  <2> HIDE DEF d, t, w
  <2>a. /\ Row(call.fleet, a, v).peerSeen = Known(call.fleet, t)
        /\ Row(call.fleet, a, v).peerOld = (Known(call.fleet, t) /\ w \in call.fleet.old)
    BY <2>4
  <2>b. Row(call.fleet, a, v).peerSeen /\ ~Row(call.fleet, a, v).peerOld
    BY <1>2 DEF RowSplitBrain, PeerFresh
  <2>5. Known(call.fleet, t) /\ w \notin call.fleet.old
    BY <2>a, <2>b
  <2>6. w \in At(t[1]) /\ w \in Agents /\ call.fleet.said[w] \in since[w]
        /\ Lists(call.fleet.said[w], t[2])
    BY <2>1, <2>3, <2>5, SpeakerSays DEF w
  <2>7. w \in heard
    BY <2>1, <2>5, <2>6, ReadAll
  <2>8. CurrentlyReported(t)
    BY <2>6, <2>7 DEF CurrentlyReported
  <2> QED BY <2>8 DEF t, d
<1> QED BY <1>1, <1>2 DEF AlarmIsCurrent

(* A split brain is certain only on the word of an agent heard from since  *)
(* (SourceFresh, PeerFresh).                                               *)
THEOREM AlarmsAreCurrent == Spec => []AlarmIsCurrent
BY CurrentInv, InitInv, StepInv, PTL DEF Spec

----------------------------------------------------------------------------
(* A live agent's view outranks a revoked one's, and what only revoked     *)
(* agents reported is marked so (BuildDashboard's byRef).                  *)
LEMMA WithdrawnInv == ASSUME IInv PROVE WithdrawnTold
<1> SUFFICES ASSUME Shown, NEW a \in Agents, NEW v \in VMs, HasPair(call.fleet, a, v)
             PROVE  LET s == call.fleet.said[a][v].source
                        p == Pair(call.fleet, a, v)
                    IN  /\ (\E b \in At(s[1]) \ revoked : SaidSince(b, s[2], LAMBDA d : TRUE)) =>
                             ~p.sourceWithdrawn
                        /\ p.sourceSeen
                             /\ (\A b \in At(s[1]) \ call.fleet.revoked :
                                   \A rep \in since[b] : ~Lists(rep, s[2]))
                           => p.sourceWithdrawn
  BY DEF WithdrawnTold
<1> DEFINE s == call.fleet.said[a][v].source
           p == Pair(call.fleet, a, v)
<1>1. Answered
  BY DEF Answered, Shown
<1>2. s \in Refs /\ p.sourceSeen = Witnessed(call.fleet, s)
      /\ p.sourceWithdrawn = Withdrawn(call.fleet, s)
  BY <1>1, PairOf
<1> HIDE DEF s, p
<1>3. ASSUME NEW b \in At(s[1]) \ revoked, SaidSince(b, s[2], LAMBDA d : TRUE)
      PROVE  ~p.sourceWithdrawn
  <2>1. \A rep \in since[b] : Lists(rep, s[2])
    BY <1>3 DEF SaidSince
  <2>2. Witnessed(call.fleet, s) /\ Reporting(call.fleet, s) \ call.fleet.revoked # {}
    BY <1>1, <1>2, <2>1, ReportsAllAlong
  <2>3. Witness(call.fleet, s) \notin call.fleet.revoked
    BY <1>1, <1>2, <2>2, WitnessSays
  <2> QED BY <1>2, <2>3 DEF Withdrawn
<1>4. ASSUME p.sourceSeen,
             \A b \in At(s[1]) \ call.fleet.revoked : \A rep \in since[b] : ~Lists(rep, s[2])
      PROVE  p.sourceWithdrawn
  <2>1. Witnessed(call.fleet, s)
    BY <1>2, <1>4
  <2> DEFINE w == Witness(call.fleet, s)
  <2>2. w \in At(s[1]) /\ call.fleet.said[w] \in since[w] /\ Lists(call.fleet.said[w], s[2])
    BY <1>1, <1>2, <2>1, WitnessSays
  <2>3. w \in call.fleet.revoked
    <3> HIDE DEF w
    <3> QED BY <1>4, <2>2
  <2> QED BY <1>2, <2>1, <2>3 DEF Withdrawn
<1> QED BY <1>3, <1>4 DEF s, p

(* A source is marked as withdrawn when, and only when, no enrolled agent  *)
(* reports it (SourceWithdrawn).                                           *)
THEOREM WithdrawnIsTold == Spec => []WithdrawnTold
BY WithdrawnInv, InitInv, StepInv, PTL DEF Spec

----------------------------------------------------------------------------
(* A target no report lists is told, unless a row proves that the copy     *)
(* exists; and no other is (missingCandidates, covered).                   *)
LEMMA NoCopyInv == ASSUME IInv PROVE NoCopyMeansNone
<1>1. ASSUME Shown, NEW t \in Refs, ~Witnessed(call.fleet, t), NEW b \in At(t[1]),
             SaidSince(b, t[2], LAMBDA d : TRUE)
      PROVE  FALSE
  <2>1. Answered
    BY <1>1 DEF Answered, Shown
  <2>2. \A rep \in since[b] : Lists(rep, t[2])
    BY <1>1 DEF SaidSince
  <2> QED BY <1>1, <2>1, <2>2, ReportsAllAlong
<1>0. ASSUME Shown, NEW a \in Agents, NEW v \in VMs, NEW t \in Refs, NEW b \in Agents,
             \A rep \in since[b] : Lists(rep, t[2]) /\ rep[t[2]].source = <<Host[a], v>>
      PROVE  Covered(call.fleet, a, v, t)
  <2>1. call.fleet.said[b] \in since[b]
    BY <1>0, ReadAll DEF Answered, Shown
  <2>2. /\ Lists(call.fleet.said[b], t[2])
        /\ call.fleet.said[b][t[2]].source = <<Host[a], v>>
    BY <1>0, <2>1
  <2>3. <<Host[a], v>> # NoRef
    BY FleetOK DEF Refs
  <2> QED BY <2>2, <2>3 DEF Covered, HasPair
<1>2. ASSUME Shown, NEW a \in Agents, NEW v \in VMs, NEW t \in Refs, t \in TargetsOf(<<a, v>>),
             \A b \in At(t[1]) : \A rep \in since[b] : ~Lists(rep, t[2]),
             \A b \in Agents : \A rep \in since[b] :
               Lists(rep, t[2]) => rep[t[2]].source # <<Host[a], v>>
      PROVE  MissingTarget(call.fleet, a, v, t)
  <2>1. Answered
    BY <1>2 DEF Answered, Shown
  <2>2. /\ Lists(call.fleet.said[a], v) /\ call.fleet.said[a][v].source = NoRef
        /\ \E i \in DOMAIN call.fleet.said[a][v].targets : call.fleet.said[a][v].targets[i] = t
    BY <1>2, <2>1, SourceRow
  <2>3. \A b \in Agents : call.fleet.said[b] \in since[b]
    BY <2>1, ReadAll
  <2>4. ~Witnessed(call.fleet, t)
    BY <1>2, <2>3 DEF Witnessed, Reporting, At
  <2>5. ~Covered(call.fleet, a, v, t)
    BY <1>2, <2>3 DEF Covered, HasPair
  <2> QED BY <2>2, <2>4, <2>5 DEF MissingTarget, Dangling
<1>3. ASSUME Shown, NEW a \in Agents, NEW v \in VMs, NEW t \in Refs,
             MissingTarget(call.fleet, a, v, t)
      PROVE  /\ ~ \E b \in At(t[1]) : SaidSince(b, t[2], LAMBDA d : TRUE)
             /\ \A b \in Agents : \E rep \in since[b] :
                  Lists(rep, t[2]) => rep[t[2]].source # <<Host[a], v>>
  <2>1. ~Witnessed(call.fleet, t) /\ ~Covered(call.fleet, a, v, t)
    BY <1>3 DEF MissingTarget, Dangling
  <2>2. ~ \E b \in At(t[1]) : SaidSince(b, t[2], LAMBDA d : TRUE)
    BY <1>1, <1>3, <2>1
  <2>3. ASSUME NEW b \in Agents
        PROVE  \E rep \in since[b] : Lists(rep, t[2]) => rep[t[2]].source # <<Host[a], v>>
    BY <1>0, <1>3, <2>1
  <2> QED BY <2>2, <2>3
<1> QED BY <1>2, <1>3 DEF NoCopyMeansNone

(* A target in nobody's report is told as missing, and no other is         *)
(* (MissingTargets).                                                       *)
THEOREM NoCopyIsTold == Spec => []NoCopyMeansNone
BY NoCopyInv, InitInv, StepInv, PTL DEF Spec

(* A replica is gone for certain only on fresh word from its host, and     *)
(* none from a revoked agent (hostFresh, PeerStale).                       *)
LEMMA FreshWordInv == ASSUME IInv PROVE GoneOnFreshWord
<1> SUFFICES ASSUME Shown, NEW a \in Agents, NEW v \in VMs, NEW t \in Refs,
                    MissingTarget(call.fleet, a, v, t),
                    PeerKnown(call.fleet, t), ~PeerStale(call.fleet, t)
             PROVE  \E b \in (At(t[1]) \cap heard) \ call.fleet.revoked :
                      \E rep \in since[b] : rep # NoReport /\ ~Lists(rep, t[2])
  BY DEF GoneOnFreshWord
<1>1. Answered
  BY DEF Answered, Shown
<1>2. PICK b \in At(t[1]) \ call.fleet.revoked :
        call.fleet.said[b] # NoReport /\ b \notin call.fleet.silent
  BY DEF PeerStale, HostFresh
<1>3. b \in Agents
  BY DEF At
<1>4. b \in heard /\ call.fleet.said[b] \in since[b]
  BY <1>1, <1>2, <1>3, ReadAll
<1>5. ~Lists(call.fleet.said[b], t[2])
  BY DEF MissingTarget, Dangling, Witnessed, Reporting
<1> QED BY <1>2, <1>4, <1>5

(* A replica is gone without a reserve only on fresh word from its host    *)
(* (PeerStale).                                                            *)
THEOREM GoneForCertain == Spec => []GoneOnFreshWord
BY FreshWordInv, InitInv, StepInv, PTL DEF Spec

----------------------------------------------------------------------------
(* A split brain on the failover page is one on the dashboard              *)
(* (splitBrainShape, promotedAndSourceRunning).                            *)
LEMMA AgreeInv == ASSUME IInv PROVE PagesAgree
<1> SUFFICES ASSUME Shown, NEW a \in Agents, NEW v \in VMs, HasRow(call.fleet, a, v),
                    SplitBrainShape(Row(call.fleet, a, v)),
                    Said(call.fleet, PeerRef(call.fleet, call.fleet.said[a][v])).source = <<Host[a], v>>,
                    Reporting(call.fleet, <<Host[a], v>>) \ call.fleet.revoked = {a}
             PROVE  LET peer == PeerRef(call.fleet, call.fleet.said[a][v])
                    IN  PromotedAndSourceRunning(Pair(call.fleet, Speaker(call.fleet, peer), peer[2]))
  BY DEF PagesAgree
<1> DEFINE d   == call.fleet.said[a][v]
           t   == PeerRef(call.fleet, d)
           w   == Speaker(call.fleet, t)
           ref == <<Host[a], v>>
<1>1. Answered
  BY DEF Answered, Shown
<1>2. d.active /\ Known(call.fleet, t)
      /\ Said(call.fleet, t).role = "promoted" /\ Said(call.fleet, t).active
  BY DEF SplitBrainShape, Row
<1>3. t \in Refs
  BY <1>1, PeerNamed
<1>4. ref \in Refs
  BY FleetOK DEF Refs
<1> HIDE DEF t
<1>5. /\ w \in Agents /\ Lists(call.fleet.said[w], t[2])
      /\ Said(call.fleet, t) = call.fleet.said[w][t[2]]
  BY <1>1, <1>2, <1>3, SpeakerSays
<1> HIDE DEF w
<1>6. call.fleet.said[w][t[2]].source = ref
  BY <1>5 DEF t
<1>7. HasPair(call.fleet, w, t[2])
  BY <1>4, <1>5, <1>6, FleetOK DEF HasPair
<1>8. Witness(call.fleet, ref) = a /\ Witnessed(call.fleet, ref)
  <2>1. Reporting(call.fleet, ref) \ call.fleet.revoked = {a}
    OBVIOUS
  <2>2. Witness(call.fleet, ref) = LastOf(call.fleet, {a})
    BY <2>1 DEF Witness
  <2>3. LastOf(call.fleet, {a}) \in {a}
    BY <1>1, LastIn, ReadAll
  <2> QED BY <2>1, <2>2, <2>3 DEF Witnessed
<1> HIDE DEF d
<1>9. PromotedAndSourceRunning(Pair(call.fleet, w, t[2]))
  <2> DEFINE p == Pair(call.fleet, w, t[2])
  <2> DEFINE self == call.fleet.said[w][t[2]]
  <2>a. /\ p.role = self.role /\ p.active = self.active
        /\ p.sourceSeen = Witnessed(call.fleet, self.source)
        /\ p.sourceActive = (p.sourceSeen /\
             call.fleet.said[Witness(call.fleet, self.source)][self.source[2]].active)
    BY <1>1, <1>5, <1>7, PairOf
  <2>1. /\ p.role = call.fleet.said[w][t[2]].role /\ p.active = call.fleet.said[w][t[2]].active
        /\ p.sourceSeen = Witnessed(call.fleet, ref)
        /\ p.sourceActive = (p.sourceSeen /\ call.fleet.said[Witness(call.fleet, ref)][ref[2]].active)
    <3> HIDE DEF p, ref
    <3> QED BY <1>6, <2>a
  <2>2. call.fleet.said[Witness(call.fleet, ref)][ref[2]].active
    BY <1>2, <1>8 DEF d
  <2> HIDE DEF p, ref
  <2>3. PromotedAndSourceRunning(p)
    BY <1>2, <1>5, <1>8, <2>1, <2>2 DEF PromotedAndSourceRunning
  <2> QED BY <2>3 DEF p
<1> QED BY <1>9 DEF w, t, d

(* The failover page and the dashboard, drawn from one fleet, tell of the  *)
(* same split brains.                                                      *)
THEOREM PagesTellTheSame == Spec => []PagesAgree
BY AgreeInv, InitInv, StepInv, PTL DEF Spec
==============================================================================
