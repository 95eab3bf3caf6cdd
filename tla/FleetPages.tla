------------------------------ MODULE FleetPages ------------------------------
(***************************************************************************)
(* The dashboard, the failover page and its form, on a fleet that goes on  *)
(* reporting.                                                              *)
(*                                                                         *)
(* All three read the agents in one store call and then their reports one  *)
(* by one (loadFleet), join what they read and answer: getDashboard and    *)
(* getFailover with rows, postFailoverOperation with an operation handed   *)
(* to CreateOperation (module Operations) or a refusal.  A call writes     *)
(* nothing before that and shares nothing with another, so there is one at *)
(* a time here; a crash only forgets it.  A form may be sent at any time   *)
(* with anything in it: from a page drawn long ago, twice, or by hand.     *)
(*                                                                         *)
(* A call takes far less time than the five minutes of staleAfter: what    *)
(* was old when it was read is what is old when the page is drawn.         *)
(***************************************************************************)
EXTENDS FailoverRules, DashboardRules

CONSTANTS
  New,            \* agents that may not have reported yet
  MayFallSilent,  \* bound: agents that may not be heard from for long
  Places,         \* the orders Agents() may give: see Fleets
  Sent,           \* bound: the forms that are sent
  MayBeRevoked,   \* bound: agents that may be revoked
  NoAsk,
  NoCall,
  NoFleet,        \* not read yet
  MaxChanges,     \* bound: reports, silences and revocations while a call is in progress
  MaxGone         \* bound: agents revoked, and agents not heard from, together

Domains == Agents \X VMs

SettableByHand == {"target", "source", "paused"}

(* What a form may ask, of a domain of an agent.  typed: the name of the   *)
(* VM was typed to confirm.                                                *)
Restores == [kind : {"restore"}, dom : Domains, tag : Tags]

Forms ==
  [kind : {"promote", "invert", "reinit", "forceclean"}, dom : Domains]
    \cup [kind : {"shutdown"}, dom : Domains, typed : BOOLEAN]
    \cup [kind : {"setrole"}, dom : Domains, typed : BOOLEAN, role : SettableByHand]

ASSUME PagesOK ==
  /\ MaxChanges \in Nat /\ MaxGone \in Nat /\ Sent \subseteq Forms \cup Restores
  /\ \A place \in Places :
       place \in [Agents -> Nat] /\ \A a, b \in Agents : place[a] = place[b] => a = b

VARIABLES
  reports,   \* reports/*: the report on file of each agent
  revoked,   \* agents.json: the agents revoked
  old,       \* agents not heard from for longer than staleAfter
  call,      \* the call in progress
  changes,   \* how many reports, silences and revocations came since the call did
  since,     \* history: the reports on file at some time since the call came
  heard      \* history: the agents that were not silent at some time since then

vars == <<reports, revoked, old, call, changes, since, heard>>

Stages == {"come", "look", "read", "shown", "issued"}

Init ==
  /\ reports \in [Agents -> AnyReport]
  /\ \A a \in Agents : reports[a] \in Reports(a) \cup (IF a \in New THEN {NoReport} ELSE {})
  /\ revoked = {}
  /\ old = {}
  /\ call = NoCall
  /\ changes = 0
  /\ since = [a \in Agents |-> {}]
  /\ heard = {}

(* Things change between calls, and a bounded number of times during one.  *)
(* (A call that is answered is kept to look at, and nothing happens until  *)
(* it finishes.)                                                           *)
Change ==
  \/ call = NoCall /\ UNCHANGED changes
  \/ /\ call # NoCall /\ call.stage \in {"come", "look", "read"}
     /\ changes < MaxChanges
     /\ changes' = changes + 1

(* SaveReport, whatever the host has become: promoted, fenced, demoted,    *)
(* inverted, released, at its own console or by an operation.              *)
Report(a, rep) ==
  /\ a \notin revoked
  /\ rep # reports[a] \/ a \in old
  /\ reports' = [reports EXCEPT ![a] = rep]
  /\ old' = old \ {a}
  /\ Change
  /\ since' = IF call = NoCall THEN since ELSE [since EXCEPT ![a] = @ \cup {rep}]
  /\ heard' = IF call = NoCall THEN heard ELSE heard \cup {a}
  /\ UNCHANGED <<revoked, call>>

(* The agent, its host or the network is down, or it was revoked.          *)
FallSilent(a) ==
  /\ a \in MayFallSilent \ old
  /\ Cardinality(revoked) + Cardinality(old) < MaxGone
  /\ old' = old \cup {a}
  /\ Change
  /\ UNCHANGED <<reports, revoked, call, since, heard>>

Revoke(a) ==
  /\ a \in MayBeRevoked \ revoked
  /\ Cardinality(revoked) + Cardinality(old) < MaxGone
  /\ Change
  /\ revoked' = revoked \cup {a}
  /\ UNCHANGED <<reports, old, call, since, heard>>

----------------------------------------------------------------------------
(* getDashboard, getFailover, or postFailoverOperation past the shape of   *)
(* its fields.  Only a restore asks anything before the fleet is read, so  *)
(* what else is asked is told when it is looked at: NoAsk until then.      *)
Arrive(ask) ==
  /\ call = NoCall
  /\ call' = [ask |-> ask, stage |-> IF ask = NoAsk THEN "look" ELSE "come",
              left |-> {}, fleet |-> NoFleet]
  /\ since' = [a \in Agents |-> {reports[a]}]
  /\ heard' = Agents \ old
  /\ UNCHANGED <<reports, revoked, old, changes>>

(* The call is answered and nothing is kept of it.                         *)
Over ==
  /\ call' = NoCall
  /\ changes' = 0
  /\ since' = [a \in Agents |-> {}]
  /\ heard' = {}
  /\ UNCHANGED <<reports, revoked, old>>

(* restorePointKnown: the latest report of that agent lists the tag.       *)
RestorePointKnown ==
  /\ call # NoCall /\ call.stage = "come"
  /\ LET a == call.ask.dom[1]
         v == call.ask.dom[2]
     IN  IF Lists(reports[a], v) /\ call.ask.tag \in reports[a][v].points
         THEN /\ call' = [call EXCEPT !.stage = "look"]
              /\ UNCHANGED <<reports, revoked, old, changes, since, heard>>
         ELSE Over

Unread(place) ==
  [said |-> [a \in Agents |-> NoReport], revoked |-> revoked, silent |-> old, old |-> {},
   place |-> place]

(* loadFleet.  The reports of revoked agents are read as well.             *)
LoadAgents(place) ==
  /\ call # NoCall /\ call.stage = "look"
  /\ call' = [call EXCEPT !.stage = "read", !.left = Agents, !.fleet = Unread(place)]
  /\ UNCHANGED <<reports, revoked, old, changes, since, heard>>

NextToLoad(a) ==
  /\ call # NoCall /\ call.stage = "read"
  /\ a \in call.left /\ \A b \in call.left : call.fleet.place[b] <= call.fleet.place[a]

LoadAnyReport(a) ==
  /\ NextToLoad(a)
  /\ \E b \in Agents :
       call' = [call EXCEPT !.left = @ \ {a}, !.fleet.said[a] = reports[b],
                            !.fleet.old = @ \cup (old \cap {a})]
  /\ UNCHANGED <<reports, revoked, old, changes, since, heard>>

LoadReport(a) ==
  /\ NextToLoad(a)
  /\ call' = [call EXCEPT !.left = @ \ {a}, !.fleet.said[a] = reports[a],
                          !.fleet.old = @ \cup (old \cap {a})]
  /\ UNCHANGED <<reports, revoked, old, changes, since, heard>>

Loaded == call # NoCall /\ call.stage = "read" /\ call.left = {}

(* The dashboard, or the failover page.                                    *)
ShowPage ==
  /\ Loaded /\ call.ask = NoAsk
  /\ call' = [call EXCEPT !.stage = "shown"]
  /\ UNCHANGED <<reports, revoked, old, changes, since, heard>>

ConfirmedOnShutdown(ask, row) ==
  IsLivePromoted(row) /\ ask.kind = "shutdown" => ask.typed

(* NeedsTypedConfirmation, and the two kinds it is needed for.             *)
Confirmed(ask, row) ==
  IsLivePromoted(row) /\ ask.kind \in {"shutdown", "setrole"} => ask.typed

(* refuseIneligible's switch.                                              *)
Offered(ask, row) ==
  CASE ask.kind = "promote"    -> CanPromote(row)
    [] ask.kind = "invert"     -> CanInvert(row)
    [] ask.kind = "shutdown"   -> CanShutdown(row)
    [] ask.kind = "setrole"    -> CanSetRoleTo(row, ask.role)
    [] ask.kind = "restore"    -> CanRestore(row)
    [] ask.kind = "reinit"     -> CanReinit(row)
    [] ask.kind = "forceclean" -> CanForceClean(row)

(* refuseIneligible, on what was just read.                                *)
Eligible(ask, fleet) ==
  LET row == Row(fleet, ask.dom[1], ask.dom[2])
  IN  HasRow(fleet, ask.dom[1], ask.dom[2]) /\ Confirmed(ask, row) /\ Offered(ask, row)

SentForms    == Sent \cap Forms
SentRestores == Sent \cap Restores

Asked == IF call.ask = NoAsk THEN SentForms ELSE {call.ask}

Decide(ask) ==
  /\ Loaded /\ ask \in Asked
  /\ IF Eligible(ask, call.fleet)
     THEN /\ call' = [call EXCEPT !.stage = "issued", !.ask = ask]
          /\ UNCHANGED <<reports, revoked, old, changes, since, heard>>
     ELSE Over

Finish ==
  /\ call # NoCall /\ call.stage \in {"shown", "issued"}
  /\ Over

Next ==
  \/ \E a \in Agents :
       \/ \E rep \in Reports(a) : Report(a, rep)
       \/ FallSilent(a)
       \/ Revoke(a)
       \/ LoadReport(a)
  \/ \E ask \in SentRestores \cup {NoAsk} : Arrive(ask)
  \/ RestorePointKnown
  \/ \E place \in Places : LoadAgents(place)
  \/ ShowPage
  \/ \E ask \in Sent : Decide(ask)
  \/ Finish

Spec == Init /\ [][Next]_vars

----------------------------------------------------------------------------
(* Type correctness of the files, the call and the history: what is on     *)
(* file, and what the call read, is among the reports since it came.       *)
TypeOK ==
  /\ reports \in [Agents -> AnyReport]
  /\ \A a \in Agents : reports[a] \in Reports(a) \cup {NoReport}
  /\ revoked \subseteq Agents /\ old \subseteq Agents /\ heard \subseteq Agents
  /\ changes \in 0..MaxChanges
  /\ since \in [Agents -> SUBSET AnyReport]
  /\ \A a \in Agents : since[a] \subseteq Reports(a) \cup {NoReport}
  /\ call # NoCall =>
       /\ call \in [ask : Forms \cup Restores \cup {NoAsk}, stage : Stages, left : SUBSET Agents,
                    fleet : Fleets \cup {NoFleet}]
       /\ \A a \in Agents : reports[a] \in since[a]
       /\ call.stage \notin {"come", "look"} =>
            /\ call.fleet \in Fleets /\ call.fleet.place \in Places
            /\ call.fleet.revoked \subseteq revoked
            /\ \A a \in Agents : call.fleet.said[a] \in since[a] \cup {NoReport}

Issued(kinds) == call # NoCall /\ call.stage = "issued" /\ call.ask.kind \in kinds

Shown == call # NoCall /\ call.stage = "shown"

(* In every report of this agent since the call came, the domain is there  *)
(* and what is said of it satisfies P.                                     *)
SaidSince(a, v, P(_)) == \A rep \in since[a] : Lists(rep, v) /\ P(rep[v])

(* What the agents S say of a domain since the call came satisfies P, and  *)
(* one of them reports it all along.                                       *)
SaidBy(S, ref, P(_)) ==
  /\ \E a \in S : SaidSince(a, ref[2], LAMBDA d : TRUE)
  /\ \A a \in S : \A rep \in since[a] : Lists(rep, ref[2]) => P(rep[ref[2]])

(* The enrolled agents of its host say so: those that were when the call   *)
(* looked, of which one still is and reports it all along.                 *)
AllAlong(ref, P(_)) ==
  /\ \E a \in At(ref[1]) \ revoked : SaidSince(a, ref[2], LAMBDA d : TRUE)
  /\ SaidBy(At(ref[1]) \ call.fleet.revoked, ref, P)

HoldsLiveData(d)  == d.role = "promoted" \/ d.served
NotMadeSource(d)  == HoldsLiveData(d) /\ d.role # "source"
LivePromoted(d)   == d.role = "promoted" /\ d.active
Running(d)        == d.active

ListsTarget(d, t) == \E i \in DOMAIN d.targets : d.targets[i] = t

(* What a resync of the domain may write over: every target its own agent  *)
(* has listed all along.                                                   *)
TargetsOf(dom) == {t \in Refs : SaidSince(dom[1], dom[2], LAMBDA d : ListsTarget(d, t))}

(* CanReinit: "both variants are withheld while the peer has served live   *)
(* and has not been released".  Whatever page the form came from and       *)
(* whatever reports arrived while it was judged, no resync is issued from  *)
(* a source one of whose targets was known all along to hold live data,    *)
(* unless that target was made a source.                                   *)
ResyncSparesServed ==
  Issued({"reinit", "forceclean"}) =>
    \A t \in TargetsOf(call.ask.dom) : ~AllAlong(t, NotMadeSource)

(* CanRestore and CanSetRoleTo, the two ways to give a copy's disks away:  *)
(* not one that was known all along to have served, or to be promoted or   *)
(* fenced or running (restore), or to have served (target).                *)
DisksSpared ==
  LET SaysSince(P(_)) == SaidSince(call.ask.dom[1], call.ask.dom[2], P)
  IN  /\ Issued({"restore"}) =>
           ~SaysSince(LAMBDA d : HoldsLiveData(d) \/ d.active \/ d.role \in {"source", "fenced"})
      /\ Issued({"setrole"}) /\ call.ask.role = "target" =>
           ~SaysSince(LAMBDA d : d.served \/ LivePromoted(d))

(* NeedsTypedConfirmation: the copy that serves production is not stopped  *)
(* or renamed by a click, and as long as it runs the only name it takes is *)
(* source.                                                                 *)
LiveCopyGuarded ==
  Issued({"shutdown", "setrole"}) /\ SaidSince(call.ask.dom[1], call.ask.dom[2], LivePromoted) =>
    call.ask.typed /\ (call.ask.kind = "setrole" => call.ask.role = "source")

(* CanInvert: "without it this would offer to reverse a pair that was never *)
(* failed over at all".  No inversion is issued on a source all of whose   *)
(* targets were known all along to hold nothing that ever served.          *)
Untouched(d) == ~HoldsLiveData(d)

InvertOnlyAfterFailover ==
  Issued({"invert"}) =>
    LET a == call.ask.dom[1]
        v == call.ask.dom[2]
    IN  ~ /\ TargetsOf(call.ask.dom) # {}
          /\ \A rep \in since[a] : \A i \in DOMAIN rep[v].targets :
               AllAlong(rep[v].targets[i], Untouched)

(* README: Invert "is offered on the old source's row even after the       *)
(* promoted copy has been shut down and demoted" to one of three roles,    *)
(* and a fan-out source's row is about the copy that served.  A target     *)
(* that served and has no role at all is none of the three, but may take   *)
(* the row: then Invert is not offered, unless one is promoted.            *)
Demoted(d) == d.role = "promoted" \/ (d.served /\ d.role \in {"paused", "fenced", "target"})
Promoted(d) == d.role = "promoted"
Nameless(d) == d.served /\ d.role = "none"

InvertOffered ==
  Shown =>
    \A a \in Agents \ revoked, v \in VMs : \A t \in TargetsOf(<<a, v>>) :
      AllAlong(t, Demoted) =>
        \/ CanInvert(Row(call.fleet, a, v))
        \/ /\ ~AllAlong(t, Promoted)
           /\ \E u \in Refs : /\ ListsTarget(call.fleet.said[a][v], u)
                             /\ Nameless(Said(call.fleet, u))

Rows(fleet) ==
  {Row(fleet, dom[1], dom[2]) : dom \in {d \in Domains : HasRow(fleet, d[1], d[2])}}

(* rankRow: two live copies outrank everything.  A source known all along  *)
(* to run, beside targets of which one was promoted and every promoted one *)
(* ran, is drawn as a split brain; and rows that need a decision are drawn *)
(* before those that do not.                                               *)
SplitBrainDrawn ==
  Shown =>
    /\ \A a \in Agents \ revoked, v \in VMs :
         /\ SaidSince(a, v, Running)
         /\ \E t \in TargetsOf(<<a, v>>) : AllAlong(t, LivePromoted)
         /\ \A u \in Refs : Said(call.fleet, u).role = "promoted" => Said(call.fleet, u).active
         => SplitBrainShape(Row(call.fleet, a, v)) /\ Rank(Row(call.fleet, a, v)) = 0
    /\ LET drawn == Rows(call.fleet)
       IN  \A r, s \in drawn : NeedsDecision(r) /\ ~NeedsDecision(s) => Rank(r) < Rank(s)

----------------------------------------------------------------------------
(* view.go: dropping a revoked agent "silenced the split-brain banner      *)
(* whenever either running end was the revoked one".  A replica that says  *)
(* all along that it is promoted and runs, of a source that runs by what   *)
(* its host says (or said, when all its agents are revoked), is drawn as a *)
(* split brain, certain or possible, whoever is revoked.                   *)
SplitBrainAlarmed ==
  Shown =>
    \A a \in Agents, v \in VMs, s \in Refs :
      /\ SaidSince(a, v, LAMBDA d : LivePromoted(d) /\ d.source = s)
      /\ AllAlong(s, Running) \/ SaidBy(At(s[1]), s, Running)
      => LET p == Pair(call.fleet, a, v)
         IN  HasPair(call.fleet, a, v) /\ (SplitBrain(p) \/ SplitBrainPossible(p))

(* SourceFresh and PeerFresh: without them "the banner fires on every      *)
(* correctly-executed failover of a genuinely dead primary".  Neither page *)
(* calls a split brain certain when no agent that reports the other end    *)
(* was heard from since the page was asked for.                            *)
CurrentlyReported(ref) ==
  \E a \in At(ref[1]) \cap heard : \E rep \in since[a] : Lists(rep, ref[2])

AlarmIsCurrent ==
  Shown =>
    \A a \in Agents, v \in VMs :
      LET self == call.fleet.said[a][v]
      IN  /\ HasPair(call.fleet, a, v) /\ ~CurrentlyReported(self.source) =>
               ~SplitBrain(Pair(call.fleet, a, v))
          /\ HasRow(call.fleet, a, v) /\ ~CurrentlyReported(PeerRef(call.fleet, self)) =>
               ~RowSplitBrain(Row(call.fleet, a, v))

(* "A live agent's view of a domain outranks a revoked one's, whichever    *)
(* order the two arrive in": a row whose source an enrolled agent reports  *)
(* all along is not marked as withdrawn, and one whose source only revoked *)
(* agents ever reported is.                                                *)
WithdrawnTold ==
  Shown =>
    \A a \in Agents, v \in VMs : HasPair(call.fleet, a, v) =>
      LET s == call.fleet.said[a][v].source
          p == Pair(call.fleet, a, v)
      IN  /\ (\E b \in At(s[1]) \ revoked : SaidSince(b, s[2], LAMBDA d : TRUE)) => ~p.sourceWithdrawn
          /\ p.sourceSeen
               /\ (\A b \in At(s[1]) \ call.fleet.revoked : \A rep \in since[b] : ~Lists(rep, s[2]))
             => p.sourceWithdrawn

(* MissingTargets: "the replica was deleted, never created -- or the       *)
(* reference itself is misspelled".  A source's target that no report has  *)
(* listed is told, unless a replica of that name reports this very source. *)
(* None is told that any agent, revoked or not, listed all along, nor one  *)
(* that a replica of that name on whatever host covered all along.         *)
NoCopyMeansNone ==
  Shown =>
    \A a \in Agents, v \in VMs, t \in Refs :
      /\ MissingTarget(call.fleet, a, v, t) =>
           /\ ~ \E b \in At(t[1]) : SaidSince(b, t[2], LAMBDA d : TRUE)
           /\ \A b \in Agents : \E rep \in since[b] :
                Lists(rep, t[2]) => rep[t[2]].source # <<Host[a], v>>
      /\ /\ t \in TargetsOf(<<a, v>>)
         /\ \A b \in At(t[1]) : \A rep \in since[b] : ~Lists(rep, t[2])
         /\ \A b \in Agents : \A rep \in since[b] :
              Lists(rep, t[2]) => rep[t[2]].source # <<Host[a], v>>
         => MissingTarget(call.fleet, a, v, t)

(* PeerStale: "absence from an old report is weak evidence".  A replica is *)
(* called gone without a reserve only on the word of an enrolled agent of  *)
(* its host that was heard from, in a report that does not list it.        *)
GoneOnFreshWord ==
  Shown =>
    \A a \in Agents, v \in VMs, t \in Refs :
      /\ MissingTarget(call.fleet, a, v, t)
      /\ PeerKnown(call.fleet, t) /\ ~PeerStale(call.fleet, t)
      => \E b \in (At(t[1]) \cap heard) \ call.fleet.revoked :
           \E rep \in since[b] : rep # NoReport /\ ~Lists(rep, t[2])

(* FailoverRow.SplitBrain: "this row's own half of the condition the       *)
(* dashboard reports".  Drawn from one and the same fleet, a source that   *)
(* the failover page shows in a split brain with a replica of its own, and *)
(* of which one enrolled agent speaks, is shown so by the dashboard.       *)
PagesAgree ==
  Shown =>
    \A a \in Agents, v \in VMs :
      LET ref  == <<Host[a], v>>
          peer == PeerRef(call.fleet, call.fleet.said[a][v])
      IN  /\ HasRow(call.fleet, a, v)
          /\ Reporting(call.fleet, ref) \ call.fleet.revoked = {a}
          /\ Said(call.fleet, peer).source = ref
          /\ SplitBrainShape(Row(call.fleet, a, v))
          => PromotedAndSourceRunning(Pair(call.fleet, Speaker(call.fleet, peer), peer[2]))

(* restore_test.go: the resync controls "must refuse a copy that served    *)
(* live whatever its role says, including the primary of a fan-out".       *)
ResyncSparesEveryServed ==
  Issued({"reinit", "forceclean"}) =>
    \A t \in TargetsOf(call.ask.dom) : ~AllAlong(t, HoldsLiveData)
==============================================================================
