--------------------------- MODULE RegistryProofs ----------------------------
(***************************************************************************)
(* Proofs about AgentRegistry, for any tokens, agents and hosts and any    *)
(* number of failures: a token gives one identity away, what the trail     *)
(* needs is on file, and no page dates a report later than it is.          *)
(***************************************************************************)
EXTENDS AgentRegistry, FiniteSetTheorems, TLAPS

(* The parts of TypeOK the actions disturb together. *)
FilesType ==
  /\ DOMAIN agents \subseteq Ids /\ agents \in [DOMAIN agents -> Agent]
  /\ DOMAIN tokens \subseteq Tokens /\ tokens \in [DOMAIN tokens -> Token]
  /\ reports \in [Ids -> 0..MaxReports]
  /\ audit \in [Tokens -> {"none", "open", "done"}]

(* Every step leaves the files well-formed, and keeps every agent.         *)
LEMMA FilesStep ==
  ASSUME TypeOK, [Next]_vars
  PROVE  FilesType' /\ DOMAIN agents \subseteq DOMAIN agents'
<1>0. FilesType /\ saving \in DOMAIN agents \cup {NoAgent} /\ enrolling \in Call \cup {NoCall}
  BY DEF TypeOK, FilesType
<1>1. ASSUME NEW t \in Tokens, AskToken(t) \/ CloseToken(t)
      PROVE  FilesType'
  BY <1>0, <1>1 DEF AskToken, CloseToken, FilesType
<1>2. ASSUME NEW t \in Tokens, CreateEnrolmentToken(t)
      PROVE  FilesType'
  BY <1>0, <1>2, RegistryOK DEF CreateEnrolmentToken, FilesType, Token
<1>3. ASSUME NEW t \in Tokens, NEW h \in Hosts, NEW i \in Ids, Enrol(t, h, i)
      PROVE  FilesType' /\ DOMAIN agents \subseteq DOMAIN agents'
  BY <1>0, <1>3, RegistryOK DEF Enrol, FilesType, Agent
<1>4. CASE SpendToken
  BY <1>0, <1>4 DEF SpendToken, FilesType, Token, Call
<1>5. ASSUME NEW i \in Ids, Revoke(i)
      PROVE  FilesType' /\ DOMAIN agents \subseteq DOMAIN agents'
  BY <1>0, <1>5 DEF Revoke, FilesType, Agent
<1>6. ASSUME NEW i \in Ids, SaveReport(i)
      PROVE  FilesType'
  BY <1>0, <1>6, RegistryOK DEF SaveReport, FilesType
<1>7. CASE StampAgent
  BY <1>0, <1>7 DEF StampAgent, FilesType, Agent
<1>8. UNCHANGED files => FilesType' /\ DOMAIN agents \subseteq DOMAIN agents'
  BY <1>0 DEF FilesType, files
<1>9. QED
  BY <1>0, <1>1, <1>2, <1>3, <1>4, <1>5, <1>6, <1>7, <1>8
     DEF Next, vars, files, AskToken, CloseToken, CreateEnrolmentToken, Expire, SpendToken,
         ReceiveIdentity, LoseReply, Authenticate, SaveReport, StampAgent, SecondWriteFails,
         Crash, LoadAgents, LoadReport, ShowPage

(* Every step leaves the requests in progress and the hosts well-formed.   *)
LEMMA TypeStep ==
  ASSUME TypeOK, [Next]_vars
  PROVE  TypeOK'
<1> DEFINE PageType ==
      /\ DOMAIN page.agents \subseteq DOMAIN agents
      /\ page.agents \in [DOMAIN page.agents -> Agent]
      /\ page.left \subseteq DOMAIN page.agents
      /\ page.inventory \in [Ids -> 0..MaxReports]
<1>1. FilesType' /\ DOMAIN agents \subseteq DOMAIN agents'
  BY FilesStep
<1>2. expired' \subseteq Tokens /\ failures' \in 0..MaxFailures
  <2>1. ASSUME NEW t \in Tokens, Expire(t)
        PROVE  expired' \subseteq Tokens /\ UNCHANGED failures
    BY <2>1 DEF Expire, TypeOK
  <2>2. CASE SecondWriteFails \/ Crash
    <3>1. UNCHANGED expired /\ failures < MaxFailures /\ failures' = failures + 1
      BY <2>2 DEF SecondWriteFails, Crash, outside
    <3>2. QED
      BY <3>1, RegistryOK DEF TypeOK
  <2>3. CASE UNCHANGED <<expired, failures>>
    BY <2>3 DEF TypeOK
  <2>4. QED
    BY <2>1, <2>2, <2>3 DEF TypeOK, Next, vars, files, calls, outside, history, AskToken, CloseToken,
                CreateEnrolmentToken, Enrol, SpendToken, ReceiveIdentity,
                LoseReply, Revoke, Authenticate, SaveReport, StampAgent,
                LoadAgents, LoadReport, ShowPage
<1>3. minting' \in [Tokens -> {"idle", "create", "close", "over", "lost"}]
  <2>1. CASE Crash
    BY <2>1 DEF Crash, TypeOK
  <2>2. ASSUME NEW t \in Tokens, AskToken(t) \/ CreateEnrolmentToken(t) \/ CloseToken(t)
        PROVE  minting' \in [Tokens -> {"idle", "create", "close", "over", "lost"}]
    BY <2>2 DEF AskToken, CreateEnrolmentToken, CloseToken, TypeOK
  <2>3. CASE UNCHANGED minting
    BY <2>3 DEF TypeOK
  <2>4. QED
    BY <2>1, <2>2, <2>3 DEF Next, vars, files, calls, outside, history, Expire, Enrol, SpendToken,
           ReceiveIdentity, LoseReply, Revoke, Authenticate, SaveReport, StampAgent,
           SecondWriteFails, LoadAgents, LoadReport, ShowPage
<1>4. /\ enrolling' \in Call \cup {NoCall} /\ via' \in [Ids -> Tokens \cup {NoToken}]
      /\ enrolling' # NoCall => enrolling'.id \in DOMAIN agents'
  <2>1. ASSUME NEW t \in Tokens, NEW h \in Hosts, NEW i \in Ids, Enrol(t, h, i)
        PROVE  /\ enrolling' \in Call /\ via' \in [Ids -> Tokens \cup {NoToken}]
               /\ enrolling'.id \in DOMAIN agents'
    BY <2>1 DEF Enrol, Call, TypeOK
  <2>2. CASE UNCHANGED via /\ (UNCHANGED enrolling \/ enrolling' = NoCall)
    BY <1>1, <2>2 DEF TypeOK
  <2>3. QED
    BY <2>1, <2>2 DEF Next, vars, files, calls, outside, history, AskToken, CloseToken,
           CreateEnrolmentToken, Expire, SpendToken, ReceiveIdentity, LoseReply,
           Revoke, Authenticate, SaveReport, StampAgent, SecondWriteFails, Crash,
           LoadAgents, LoadReport, ShowPage
<1>5. saving' \in DOMAIN agents \cup {NoAgent} /\ admitted' \subseteq DOMAIN agents
  <2>1. ASSUME NEW i \in Ids, Authenticate(i) \/ SaveReport(i)
        PROVE  saving' \in DOMAIN agents \cup {NoAgent} /\ admitted' \subseteq DOMAIN agents
    BY <2>1 DEF Authenticate, SaveReport, TypeOK
  <2>2. CASE /\ UNCHANGED saving \/ saving' = NoAgent
             /\ UNCHANGED admitted \/ admitted' = {}
    BY <2>2 DEF TypeOK
  <2>3. QED
    BY <2>1, <2>2 DEF Next, vars, files, calls, outside, history, AskToken, CloseToken,
           CreateEnrolmentToken, Expire, Enrol, SpendToken, ReceiveIdentity,
           LoseReply, Revoke, StampAgent, SecondWriteFails, Crash, LoadAgents,
           LoadReport, ShowPage
<1>6. PageType'
  <2>1. CASE LoadAgents
    BY <1>1, <2>1, RegistryOK DEF LoadAgents, TypeOK
  <2>2. ASSUME NEW i \in Ids, LoadReport(i)
        PROVE  PageType'
    BY <1>1, <2>2 DEF LoadReport, TypeOK
  <2>3. CASE page' = EmptyPage
    BY <2>3, RegistryOK DEF EmptyPage
  <2>4. CASE UNCHANGED page
    BY <1>1, <2>4 DEF TypeOK
  <2>5. QED
    BY <2>1, <2>2, <2>3, <2>4 DEF Next, vars, files, calls, outside, history, AskToken,
       CloseToken, CreateEnrolmentToken, Expire, Enrol, SpendToken, ReceiveIdentity, LoseReply,
       Revoke, Authenticate, SaveReport, StampAgent, SecondWriteFails, Crash, ShowPage
<1>7. /\ replies' \subseteq answered' /\ answered' \subseteq DOMAIN agents'
      /\ held' \in [Hosts -> answered' \cup {NoAgent}]
  <2>1. CASE SpendToken
    <3>1. answered \subseteq answered' /\ UNCHANGED held
      BY <2>1 DEF SpendToken
    <3>2. enrolling.id \in DOMAIN agents
      BY <2>1 DEF SpendToken, TypeOK
    <3>3. QED
      BY <1>1, <2>1, <3>1, <3>2 DEF SpendToken, TypeOK
  <2>2. ASSUME NEW i \in Ids, ReceiveIdentity(i)
        PROVE  held' \in [Hosts -> answered' \cup {NoAgent}]
    <3>1. i \in answered /\ agents[i].host \in Hosts
      BY <2>2 DEF ReceiveIdentity, TypeOK, Agent
    <3>2. UNCHANGED answered /\ held' = [held EXCEPT ![agents[i].host] = i]
      BY <2>2 DEF ReceiveIdentity, history
    <3>3. QED
      BY <3>1, <3>2 DEF TypeOK
  <2>3. QED
    BY <1>1, <2>1, <2>2 DEF TypeOK, Next, vars, files, calls, outside, history, AskToken,
       CloseToken, CreateEnrolmentToken, Expire, Enrol, ReceiveIdentity, LoseReply, Revoke,
       Authenticate, SaveReport, StampAgent, SecondWriteFails, Crash, LoadAgents, LoadReport,
       ShowPage
<1>8. QED
  BY <1>1, <1>2, <1>3, <1>4, <1>5, <1>6, <1>7 DEF TypeOK, FilesType

(* The start. *)
LEMMA TypeInit == Init => TypeOK
BY RegistryOK DEF Init, TypeOK, EmptyPage

(* The state of the registry is well-formed in every reachable state.      *)
THEOREM TypeCorrect == Spec => []TypeOK
<1>1. TypeOK /\ [Next]_vars => TypeOK'
  BY TypeStep
<1>2. QED
  BY <1>1, TypeInit, PTL DEF Spec

----------------------------------------------------------------------------
(* Tokens.  Enrol checks the token before it writes the agent and spends   *)
(* it after: between the two it holds the mutex, so a token not spent yet  *)
(* has given nothing away, and a spent one names what it gave away.        *)

Minted(t) ==
  /\ t \in DOMAIN tokens =>
       /\ tokens[t].host = MintedFor[t]
       /\ audit[t] # "none" /\ minting[t] \in {"close", "over", "lost"}
       /\ tokens[t].used # NoAgent => tokens[t].used \in DOMAIN agents
  /\ minting[t] = "create" => audit[t] # "none"

Enrolled(i) ==
  /\ via[i] \in DOMAIN tokens
  /\ Fold(agents[i].host) = Fold(MintedFor[via[i]])

TInv ==
  /\ TypeOK
  /\ \A t \in Tokens : Minted(t)
  /\ \A i \in DOMAIN agents : Enrolled(i)
  /\ \A i \in answered : tokens[via[i]].used = i
  /\ enrolling # NoCall =>
       /\ via[enrolling.id] = enrolling.token
       /\ tokens[enrolling.token].used = NoAgent

(* Each step that touches a token or an agent keeps the two in line.       *)
LEMMA TokenStep ==
  ASSUME TInv, [Next]_vars
  PROVE  TInv'
<1>1. TypeOK /\ TypeOK' /\ DOMAIN agents \subseteq DOMAIN agents'
  BY TypeStep, FilesStep DEF TInv
<1>2. ASSUME NEW t \in Tokens, AskToken(t) \/ CloseToken(t)
      PROVE  TInv'
  BY <1>1, <1>2 DEF AskToken, CloseToken, outside, history, TInv, Minted, Enrolled, TypeOK
<1>3. ASSUME NEW t \in Tokens, CreateEnrolmentToken(t)
      PROVE  TInv'
  BY <1>1, <1>3, RegistryOK
     DEF CreateEnrolmentToken, outside, history, TInv, Minted, Enrolled, TypeOK, Call, Free
<1>4. ASSUME NEW t \in Tokens, NEW h \in Hosts, NEW i \in Ids, Enrol(t, h, i)
      PROVE  TInv'
  <2>1. /\ i \notin DOMAIN agents /\ UNCHANGED <<tokens, audit, minting, answered>>
        /\ agents' = [j \in DOMAIN agents \cup {i} |->
                        IF j = i THEN [host |-> h, revoked |-> FALSE, seen |-> 0]
                        ELSE agents[j]]
        /\ via' = [via EXCEPT ![i] = t] /\ via \in [Ids -> Tokens \cup {NoToken}]
        /\ enrolling' = [token |-> t, id |-> i]
        /\ t \in DOMAIN tokens /\ tokens[t].used = NoAgent /\ Fold(h) = Fold(tokens[t].host)
    BY <1>4 DEF Enrol, Spent, TInv, TypeOK
  <2>2. \A u \in Tokens : Minted(u)'
    BY <1>1, <2>1 DEF TInv, Minted
  <2>3. \A j \in DOMAIN agents' : Enrolled(j)'
    <3>1. via'[i] = t /\ agents'[i].host = h
      BY <2>1
    <3>2. \A j \in DOMAIN agents : via'[j] = via[j] /\ agents'[j] = agents[j]
      BY <2>1, <1>1 DEF TypeOK
    <3>3. tokens[t].host = MintedFor[t]
      BY <2>1 DEF TInv, Minted
    <3>4. Enrolled(i)'
      BY <2>1, <3>1, <3>3 DEF Enrolled
    <3>5. \A j \in DOMAIN agents : Enrolled(j)'
      BY <2>1, <3>2 DEF TInv, Enrolled
    <3>6. QED
      BY <2>1, <3>4, <3>5
  <2>4. \A j \in answered' : tokens'[via'[j]].used = j
    BY <1>1, <2>1 DEF TInv, TypeOK
  <2>5. via'[enrolling'.id] = enrolling'.token /\ tokens'[enrolling'.token].used = NoAgent
    BY <2>1
  <2>6. QED
    BY <1>1, <2>2, <2>3, <2>4, <2>5 DEF TInv
<1>5. CASE SpendToken
  BY <1>1, <1>5, RegistryOK, NoCallOK
     DEF SpendToken, TInv, Minted, Enrolled, TypeOK, Call, Token
<1>6. ASSUME NEW i \in Ids, Revoke(i)
      PROVE  TInv'
  BY <1>1, <1>6 DEF Revoke, calls, outside, history, TInv, Minted, Enrolled, TypeOK, Agent
<1>7. CASE StampAgent
  BY <1>1, <1>7 DEF StampAgent, outside, history, TInv, Minted, Enrolled, TypeOK, Agent
<1>8. CASE Crash
  BY <1>1, <1>8 DEF Crash, files, outside, history, TInv, Minted, Enrolled, TypeOK
<1>9. CASE /\ UNCHANGED <<agents, tokens, audit, minting, via, answered>>
           /\ UNCHANGED enrolling \/ enrolling' = NoCall
  BY <1>1, <1>9 DEF TInv, Minted, Enrolled
<1>10. QED
  BY <1>2, <1>3, <1>4, <1>5, <1>6, <1>7, <1>8, <1>9
     DEF Next, vars, files, calls, outside, history, Expire, ReceiveIdentity, LoseReply,
         Authenticate, SaveReport, SecondWriteFails, LoadAgents, LoadReport, ShowPage

(* The start. *)
LEMMA TokenInit == Init => TInv
BY TypeInit DEF Init, TInv, Minted, Enrolled

(* EnrolmentToken: a token gives one identity away, to the host it was     *)
(* minted for, whatever failed on the way.                                 *)
THEOREM OneIdentity == Spec => []OneIdentityPerToken
<1>1. TInv => OneIdentityPerToken
  BY DEF TInv, Enrolled, OneIdentityPerToken, TypeOK
<1>2. TInv /\ [Next]_vars => TInv'
  BY TokenStep
<1>3. QED
  BY <1>1, <1>2, TokenInit, PTL DEF Spec

(* postEnrolmentToken and Enrol: the trail of a token resolves.            *)
THEOREM Trail == Spec => []TrailResolves
<1>1. TInv => TrailResolves
  BY DEF TInv, Minted, TrailResolves, TypeOK
<1>2. TInv /\ [Next]_vars => TInv'
  BY TokenStep
<1>3. QED
  BY <1>1, <1>2, TokenInit, PTL DEF Spec

----------------------------------------------------------------------------
(* Pages.  Reports are numbered in the order they were saved and only grow *)
(* newer; LastSeenAt follows; a page reads agents before reports.          *)

SInv ==
  /\ TypeOK
  /\ \A i \in DOMAIN agents : agents[i].seen <= reports[i]
  /\ \A i \in DOMAIN page.agents : page.agents[i].seen <= reports[i]
  /\ SeenNoLaterThanReported

(* No step makes a report older, or dates one later than it is.            *)
LEMMA SeenStep ==
  ASSUME SInv, [Next]_vars
  PROVE  SInv'
<1>1. TypeOK /\ TypeOK' /\ reports \in [Ids -> Nat] /\ DOMAIN agents \subseteq Ids
  BY TypeStep, RegistryOK DEF SInv, TypeOK
<1>2. ASSUME NEW t \in Tokens, NEW h \in Hosts, NEW i \in Ids, Enrol(t, h, i)
      PROVE  SInv'
  BY <1>1, <1>2 DEF Enrol, SInv, SeenNoLaterThanReported
<1>3. ASSUME NEW i \in Ids, Revoke(i)
      PROVE  SInv'
  BY <1>1, <1>3 DEF Revoke, calls, SInv, SeenNoLaterThanReported, TypeOK, Agent
<1>4. ASSUME NEW i \in Ids, SaveReport(i)
      PROVE  SInv'
  BY <1>1, <1>4, RegistryOK DEF SaveReport, SInv, SeenNoLaterThanReported, TypeOK, Agent
<1>5. CASE StampAgent
  BY <1>1, <1>5 DEF StampAgent, SInv, SeenNoLaterThanReported, TypeOK, Agent
<1>6. CASE LoadAgents
  BY <1>1, <1>6 DEF LoadAgents, files, SInv, SeenNoLaterThanReported
<1>7. ASSUME NEW i \in Ids, LoadReport(i)
      PROVE  SInv'
  BY <1>1, <1>7 DEF LoadReport, files, SInv, SeenNoLaterThanReported, TypeOK
<1>8. CASE UNCHANGED <<agents, reports>> /\ page' = EmptyPage
  BY <1>1, <1>8 DEF EmptyPage, SInv, SeenNoLaterThanReported
<1>9. CASE UNCHANGED <<agents, reports, page>>
  BY <1>1, <1>9 DEF SInv, SeenNoLaterThanReported
<1>10. QED
  BY <1>2, <1>3, <1>4, <1>5, <1>6, <1>7, <1>8, <1>9
     DEF Next, vars, files, calls, outside, history, AskToken, CloseToken,
         CreateEnrolmentToken, Expire, SpendToken, ReceiveIdentity, LoseReply, Authenticate,
         SecondWriteFails, Crash, ShowPage

(* BuildDashboard: no page dates a report later than it is.                *)
THEOREM SeenHonest == Spec => []SeenNoLaterThanReported
<1>1. Init => SInv
  BY TypeInit DEF Init, SInv, SeenNoLaterThanReported, EmptyPage
<1>2. SInv /\ [Next]_vars => SInv'
  BY SeenStep
<1>3. SInv => SeenNoLaterThanReported
  BY DEF SInv
<1>4. QED
  BY <1>1, <1>2, <1>3, PTL DEF Spec

----------------------------------------------------------------------------
(* Records in agents.json.  A token that is neither spent nor being spent  *)
(* has made no more records than there were failures.                      *)

Users(t) == {i \in DOMAIN agents : via[i] = t}
Taken(t) == \/ t \in DOMAIN tokens /\ tokens[t].used # NoAgent
            \/ enrolling # NoCall /\ enrolling.token = t

BInv ==
  /\ TInv
  /\ \A t \in Tokens :
       /\ IsFiniteSet(Users(t))
       /\ Cardinality(Users(t)) <= failures + (IF Taken(t) THEN 1 ELSE 0)

(* No step makes a second record of a token without a failure.             *)
LEMMA UsersStep ==
  ASSUME BInv, [Next]_vars
  PROVE  BInv'
<1>1. TInv /\ TInv' /\ TypeOK /\ TypeOK'
  BY TokenStep DEF BInv, TInv
<1>2. \A t \in Tokens : Cardinality(Users(t)) \in Nat /\ failures \in Nat
  BY <1>1, FS_CardinalityType, RegistryOK DEF BInv, TypeOK
<1>3. ASSUME NEW t \in Tokens, NEW h \in Hosts, NEW i \in Ids, Enrol(t, h, i)
      PROVE  BInv'
  <2>1. /\ i \notin DOMAIN agents /\ DOMAIN agents' = DOMAIN agents \cup {i}
        /\ via' = [via EXCEPT ![i] = t] /\ via \in [Ids -> Tokens \cup {NoToken}]
        /\ enrolling' = [token |-> t, id |-> i] /\ enrolling = NoCall
        /\ tokens[t].used = NoAgent /\ UNCHANGED <<tokens, failures>>
        /\ DOMAIN agents \subseteq Ids
    BY <1>1, <1>3 DEF Enrol, Spent, Free, TypeOK
  <2>2. \A u \in Tokens : Users(u)' = IF u = t THEN Users(u) \cup {i} ELSE Users(u)
    BY <2>1 DEF Users
  <2>3. i \notin Users(t) /\ ~Taken(t) /\ Taken(t)'
    <3>1. enrolling' # NoCall /\ enrolling'.token = t
      BY <2>1, NoCallOK DEF Call
    <3>2. QED
      BY <2>1, <3>1 DEF Users, Taken
  <2>4. /\ IsFiniteSet(Users(t)')
        /\ Cardinality(Users(t)') = Cardinality(Users(t)) + 1
    BY <2>2, <2>3, FS_AddElement DEF BInv
  <2>5. Cardinality(Users(t)') <= failures' + (IF Taken(t)' THEN 1 ELSE 0)
    BY <1>2, <2>1, <2>3, <2>4 DEF BInv
  <2>6. \A u \in Tokens \ {t} : Users(u)' = Users(u) /\ (Taken(u) => Taken(u)')
    BY <2>1, <2>2 DEF Taken
  <2>7. \A u \in Tokens \ {t} :
          /\ IsFiniteSet(Users(u)')
          /\ Cardinality(Users(u)') <= failures' + (IF Taken(u)' THEN 1 ELSE 0)
    <3>1. SUFFICES ASSUME NEW u \in Tokens \ {t}
                   PROVE  /\ IsFiniteSet(Users(u)')
                          /\ Cardinality(Users(u)') <= failures' + (IF Taken(u)' THEN 1 ELSE 0)
      OBVIOUS
    <3>2. Users(u)' = Users(u) /\ (Taken(u) => Taken(u)') /\ failures' = failures
      BY <2>1, <2>6
    <3>3. /\ IsFiniteSet(Users(u)) /\ Cardinality(Users(u)) \in Nat /\ failures \in Nat
          /\ Cardinality(Users(u)) <= failures + (IF Taken(u) THEN 1 ELSE 0)
      BY <1>2 DEF BInv
    <3>4. QED
      BY <3>2, <3>3
  <2>8. QED
    BY <1>1, <2>4, <2>5, <2>7 DEF BInv
<1>4. ASSUME UNCHANGED via, DOMAIN agents' = DOMAIN agents,
             \/ UNCHANGED failures /\ \A t \in Tokens : Taken(t) => Taken(t)'
             \/ failures' = failures + 1
      PROVE  BInv'
  <2>1. \A t \in Tokens : Users(t)' = Users(t)
    BY <1>4 DEF Users
  <2>2. \A t \in Tokens :
          Cardinality(Users(t)) <= failures' + (IF Taken(t)' THEN 1 ELSE 0)
    BY <1>2, <1>4 DEF BInv
  <2>3. QED
    BY <1>1, <2>1, <2>2 DEF BInv
<1>5. ASSUME NEW t \in Tokens, CreateEnrolmentToken(t)
      PROVE  /\ UNCHANGED <<via, agents, failures>>
             /\ \A u \in Tokens : Taken(u) => Taken(u)'
  BY <1>1, <1>5 DEF CreateEnrolmentToken, history, TInv, Minted, Taken, TypeOK
<1>6. ASSUME SpendToken
      PROVE  /\ UNCHANGED <<via, agents, failures>>
             /\ \A u \in Tokens : Taken(u) => Taken(u)'
  BY <1>1, <1>6, RegistryOK DEF SpendToken, TInv, Enrolled, Taken, TypeOK, Call
<1>7. ASSUME NEW i \in Ids, Revoke(i)
      PROVE  BInv'
  BY <1>4, <1>7 DEF Revoke, calls, history, Taken
<1>8. ASSUME StampAgent
      PROVE  BInv'
  BY <1>4, <1>8 DEF StampAgent, history, Taken
<1>9. ASSUME SecondWriteFails \/ Crash
      PROVE  BInv'
  BY <1>4, <1>9 DEF SecondWriteFails, Crash, files, history
<1>10. ASSUME UNCHANGED <<agents, tokens, enrolling, failures, via>>
       PROVE  BInv'
  BY <1>4, <1>10 DEF Taken
<1>11. QED
  BY <1>3, <1>4, <1>5, <1>6, <1>7, <1>8, <1>9, <1>10
     DEF Next, vars, files, calls, outside, history, AskToken, CloseToken, Expire,
         ReceiveIdentity, LoseReply, Authenticate, SaveReport, LoadAgents, LoadReport, ShowPage

(* Enrol: a token makes one record, and one more for each failure.         *)
THEOREM UsesBounded == Spec => []UsesBoundedByFailures
<1>1. Init => BInv
  <2>1. Init => \A t \in Tokens : Users(t) = {}
    BY DEF Init, Users
  <2>2. IsFiniteSet({}) /\ Cardinality({}) = 0
    BY FS_EmptySet
  <2>3. ASSUME Init, NEW t \in Tokens
        PROVE  /\ IsFiniteSet(Users(t))
               /\ Cardinality(Users(t)) <= failures + (IF Taken(t) THEN 1 ELSE 0)
    <3>1. IsFiniteSet(Users(t)) /\ Cardinality(Users(t)) = 0 /\ failures = 0
      BY <2>1, <2>2, <2>3 DEF Init
    <3>2. QED
      BY <3>1
  <2>4. QED
    BY <2>3, TokenInit DEF BInv
<1>2. BInv /\ [Next]_vars => BInv'
  BY UsersStep
<1>3. BInv => UsesBoundedByFailures
  <2>1. SUFFICES ASSUME BInv, NEW t \in Tokens
                 PROVE  Cardinality(Users(t)) <= 1 + failures
    BY DEF UsesBoundedByFailures, Users
  <2>2. Cardinality(Users(t)) \in Nat /\ failures \in Nat
    BY <2>1, FS_CardinalityType, RegistryOK DEF BInv, TInv, TypeOK
  <2>3. QED
    BY <2>1, <2>2 DEF BInv
<1>4. QED
  BY <1>1, <1>2, <1>3, PTL DEF Spec

----------------------------------------------------------------------------
(* The refinement of Enrolment.  What it sees of a state: the stage of     *)
(* each token, the owner of each identity, the revoked identities, the     *)
(* reports let in and those on file.                                       *)

StageBar == [t \in Tokens |-> StageOf(t)]
OwnerBar == [i \in answered |-> OwnerOf(i)]
Barred   == {i \in DOMAIN agents : agents[i].revoked}

(* An identity given away keeps its owner: no step moves an agent to       *)
(* another host or another token.                                          *)
LEMMA OwnersKept ==
  ASSUME TInv, [Next]_vars
  PROVE  \A i \in DOMAIN agents :
           /\ i \in DOMAIN agents' /\ agents'[i].host = agents[i].host /\ via'[i] = via[i]
           /\ agents[i].revoked => agents'[i].revoked
<1> DEFINE Kept ==
      \A i \in DOMAIN agents :
        /\ i \in DOMAIN agents' /\ agents'[i].host = agents[i].host /\ via'[i] = via[i]
        /\ agents[i].revoked => agents'[i].revoked
<1>1. DOMAIN agents \subseteq Ids /\ agents \in [DOMAIN agents -> Agent]
      /\ via \in [Ids -> Tokens \cup {NoToken}]
  BY DEF TInv, TypeOK
<1>2. ASSUME NEW t \in Tokens, NEW h \in Hosts, NEW i \in Ids, Enrol(t, h, i)
      PROVE  Kept
  BY <1>1, <1>2 DEF Enrol
<1>3. ASSUME NEW i \in Ids, Revoke(i)
      PROVE  Kept
  BY <1>1, <1>3 DEF Revoke, history, Agent
<1>4. CASE StampAgent
  BY <1>1, <1>4 DEF StampAgent, history, Agent
<1>5. CASE UNCHANGED <<agents, via>>
  BY <1>5
<1>6. QED
  BY <1>2, <1>3, <1>4, <1>5
     DEF Next, vars, files, calls, outside, history, AskToken, CloseToken,
         CreateEnrolmentToken, Expire, SpendToken, ReceiveIdentity, LoseReply, Authenticate,
         SaveReport, SecondWriteFails, Crash, LoadAgents, LoadReport, ShowPage

(* A token whose entry stays and that no call takes or leaves is where it  *)
(* was; an identity keeps its owner unless one is given away.              *)
LEMMA NothingMoves ==
  ASSUME TInv, [Next]_vars
  PROVE  /\ UNCHANGED <<tokens, enrolling>> => UNCHANGED StageBar
         /\ UNCHANGED answered => UNCHANGED OwnerBar
         /\ UNCHANGED agents => UNCHANGED Barred
<1>1. ASSUME UNCHANGED <<tokens, enrolling>>
      PROVE  UNCHANGED StageBar
  BY <1>1 DEF StageBar, StageOf
<1>2. ASSUME UNCHANGED answered
      PROVE  UNCHANGED OwnerBar
  <2>1. answered \subseteq DOMAIN agents
    BY DEF TInv, TypeOK
  <2>2. \A i \in answered : OwnerOf(i)' = OwnerOf(i)
    BY <1>2, <2>1, OwnersKept DEF OwnerOf
  <2>3. QED
    BY <1>2, <2>2 DEF OwnerBar
<1>3. ASSUME UNCHANGED agents
      PROVE  UNCHANGED Barred
  BY <1>3 DEF Barred
<1>4. QED
  BY <1>1, <1>2, <1>3

(* The files at the start. *)
LEMMA PromiseInit ==
  ASSUME Init
  PROVE  Promise!Init
<1>1. /\ \A t \in Tokens : StageOf(t) = "unminted"
      /\ answered = {}
      /\ expired = {} /\ admitted = {} /\ reports = [i \in Ids |-> 0]
      /\ {i \in DOMAIN agents : agents[i].revoked} = {}
  BY DEF Init, StageOf, OwnerOf
<1>2. QED
  BY <1>1 DEF Promise!Init

(* CreateEnrolmentToken mints. *)
LEMMA PromiseMint ==
  ASSUME TInv, NEW t \in Tokens, CreateEnrolmentToken(t)
  PROVE  Promise!Mint(t)
<1>1. /\ t \notin DOMAIN tokens /\ DOMAIN tokens' = DOMAIN tokens \cup {t}
      /\ tokens'[t].used = NoAgent /\ \A u \in DOMAIN tokens : tokens'[u] = tokens[u]
      /\ enrolling = NoCall
      /\ UNCHANGED <<agents, reports, enrolling, admitted, expired, answered, via>>
  BY DEF CreateEnrolmentToken, Free, outside, history, TInv, Minted
<1>2. /\ StageOf(t) = "unminted" /\ StageOf(t)' = "open"
      /\ \A u \in Tokens \ {t} : StageOf(u)' = StageOf(u)
  BY <1>1 DEF StageOf
<1>3. StageBar' = [StageBar EXCEPT ![t] = "open"]
  BY <1>2 DEF StageBar
<1>4. UNCHANGED <<OwnerBar, Barred>>
  BY <1>1, NothingMoves DEF Next
<1>5. QED
  BY <1>1, <1>2, <1>3, <1>4 DEF Promise!Mint, Promise!Move, StageBar, OwnerBar, Barred

(* Enrol begins an exchange: the record it writes first is nobody's yet.   *)
LEMMA PromiseBegin ==
  ASSUME TInv, NEW t \in Tokens, NEW h \in Hosts, NEW i \in Ids, Enrol(t, h, i)
  PROVE  Promise!BeginExchange(t)
<1>1. /\ t \in DOMAIN tokens /\ tokens[t].used = NoAgent /\ t \notin expired
      /\ enrolling = NoCall /\ enrolling' = [token |-> t, id |-> i]
      /\ UNCHANGED <<tokens, reports, admitted, expired, answered>>
      /\ i \notin DOMAIN agents
      /\ agents' = [j \in DOMAIN agents \cup {i} |->
                      IF j = i THEN [host |-> h, revoked |-> FALSE, seen |-> 0]
                      ELSE agents[j]]
  BY DEF Enrol, Spent, Free, outside
<1>2. enrolling' # NoCall /\ enrolling'.token = t
  BY <1>1, NoCallOK DEF Call
<1>3. /\ StageOf(t) = "open" /\ StageOf(t)' = "exchanging"
      /\ \A u \in Tokens \ {t} : StageOf(u)' = StageOf(u)
  BY <1>1, <1>2 DEF StageOf
<1>4. StageBar' = [StageBar EXCEPT ![t] = "exchanging"]
  BY <1>3 DEF StageBar
<1>5. UNCHANGED OwnerBar
  BY <1>1, NothingMoves DEF Next
<1>6. UNCHANGED Barred
  BY <1>1 DEF Barred
<1>7. QED
  BY <1>1, <1>3, <1>4, <1>5, <1>6
     DEF Promise!BeginExchange, Promise!Move, StageBar, OwnerBar, Barred

(* SpendToken gives away the identity of the call, which nobody had: an    *)
(* identity given away before is the one its token says it was spent on.   *)
LEMMA PromiseGiveAway ==
  ASSUME TInv, TInv', SpendToken
  PROVE  \E t \in Tokens, i \in Ids : Promise!GiveAway(t, i)
<1>0. PICK t \in Tokens, i \in Ids : t = enrolling.token /\ i = enrolling.id
  BY DEF SpendToken, TInv, TypeOK, Call
<1>1. /\ enrolling # NoCall /\ t \in Tokens /\ i \in Ids /\ i \in DOMAIN agents
      /\ via[i] = t /\ t \in DOMAIN tokens /\ tokens[t].used = NoAgent
      /\ i # NoAgent /\ tokens[t] \in Token /\ tokens \in [DOMAIN tokens -> Token]
      /\ Fold(agents[i].host) = Fold(MintedFor[t])
  BY <1>0, RegistryOK DEF SpendToken, TInv, Enrolled, TypeOK
<1>2. /\ tokens' = [tokens EXCEPT ![t].used = i] /\ enrolling' = NoCall
      /\ answered' = answered \cup {i}
      /\ UNCHANGED <<agents, reports, via, admitted, expired>>
  BY <1>0 DEF SpendToken
<1>3. i \notin answered
  BY <1>1 DEF TInv
<1>4. /\ StageOf(t) = "exchanging" /\ StageOf(t)' = "spent"
      /\ \A u \in Tokens \ {t} : StageOf(u)' = StageOf(u)
  <2>1. DOMAIN tokens' = DOMAIN tokens /\ tokens'[t].used = i
        /\ \A u \in DOMAIN tokens \ {t} : tokens'[u] = tokens[u]
    BY <1>1, <1>2 DEF Token
  <2>2. QED
    BY <1>0, <1>1, <1>2, <2>1 DEF StageOf
<1>5. StageBar' = [StageBar EXCEPT ![t] = "spent"]
  BY <1>4 DEF StageBar
<1>6. /\ OwnerOf(i)' = [token |-> t, host |-> Fold(MintedFor[t])]
      /\ \A j \in answered : OwnerOf(j)' = OwnerOf(j)
  BY <1>1, <1>2 DEF OwnerOf
<1>7. /\ i \notin DOMAIN OwnerBar
      /\ OwnerBar' = [j \in DOMAIN OwnerBar \cup {i} |->
                         IF j = i THEN [token |-> t, host |-> Fold(MintedFor[t])]
                         ELSE OwnerBar[j]]
  <2>1. DOMAIN OwnerBar = answered /\ DOMAIN OwnerBar' = answered \cup {i}
    BY <1>2 DEF OwnerBar
  <2>2. \A j \in answered : OwnerBar'[j] = OwnerBar[j]
    BY <1>2, <1>6 DEF OwnerBar
  <2>3. OwnerBar'[i] = [token |-> t, host |-> Fold(MintedFor[t])]
    BY <1>2, <1>6 DEF OwnerBar
  <2>4. OwnerBar' = [j \in answered \cup {i} |-> OwnerBar'[j]]
    BY <1>2 DEF OwnerBar
  <2>5. QED
    BY <1>3, <2>1, <2>2, <2>3, <2>4
<1>8. [u \in Tokens |-> Fold(MintedFor[u])][t] = Fold(MintedFor[t])
  BY <1>1
<1>9. Promise!GiveAway(t, i)
  BY <1>1, <1>2, <1>4, <1>5, <1>6, <1>7, <1>8
     DEF Promise!GiveAway, Promise!Move, StageBar, OwnerBar, Barred
<1>10. QED
  BY <1>1, <1>9

(* Revoke bars. *)
LEMMA PromiseBar ==
  ASSUME TInv, NEW i \in Ids, Revoke(i)
  PROVE  Promise!Bar(i)
<1>1. /\ i \in DOMAIN agents /\ agents' = [agents EXCEPT ![i].revoked = TRUE]
      /\ agents \in [DOMAIN agents -> Agent]
      /\ UNCHANGED <<tokens, enrolling, reports, admitted, expired, answered>>
  BY DEF Revoke, calls, outside, history, TInv, TypeOK
<1>2. Barred' = Barred \cup {i}
  BY <1>1 DEF Barred, Agent
<1>3. UNCHANGED <<StageBar, OwnerBar>>
  BY <1>1, NothingMoves DEF Next
<1>4. QED
  BY <1>1, <1>2, <1>3 DEF Promise!Bar, StageBar, OwnerBar, Barred

(* A report is let in from an identity that was given away: it is held.    *)
LEMMA PromiseLetIn ==
  ASSUME TInv, NEW i \in Ids, Authenticate(i)
  PROVE  Promise!LetIn(i)
<1>1. /\ i \in DOMAIN agents /\ ~agents[i].revoked /\ i \in answered
      /\ admitted' = admitted \cup {i}
      /\ UNCHANGED <<agents, tokens, enrolling, reports, expired, answered>>
  BY RegistryOK DEF Authenticate, files, outside, history, TInv, TypeOK
<1>2. i \in DOMAIN OwnerBar
  BY <1>1 DEF OwnerBar
<1>3. UNCHANGED <<StageBar, OwnerBar, Barred>>
  BY <1>1, NothingMoves DEF Next
<1>4. QED
  BY <1>1, <1>2, <1>3 DEF Promise!LetIn, StageBar, OwnerBar, Barred

(* SaveReport's first write takes the report. *)
LEMMA PromiseReport ==
  ASSUME TInv, NEW i \in Ids, SaveReport(i)
  PROVE  Promise!TakeReport(i)
<1>1. UNCHANGED <<StageBar, OwnerBar, Barred>>
  <2>1. UNCHANGED <<agents, tokens, enrolling, answered>>
    BY DEF SaveReport, history
  <2>2. QED
    BY <2>1, NothingMoves DEF Next
<1>2. QED
  BY <1>1 DEF SaveReport, outside, Promise!TakeReport, StageBar, OwnerBar, Barred

(* Time passes. *)
LEMMA PromisePass ==
  ASSUME TInv, NEW t \in Tokens, Expire(t)
  PROVE  Promise!Pass(t)
<1>1. /\ t \in DOMAIN tokens /\ expired' = expired \cup {t}
      /\ UNCHANGED <<agents, tokens, enrolling, reports, admitted, answered>>
  BY DEF Expire, files, calls, history
<1>2. UNCHANGED <<StageBar, OwnerBar, Barred>>
  BY <1>1, NothingMoves DEF Next
<1>3. StageBar[t] # "unminted"
  BY <1>1 DEF StageBar, StageOf
<1>4. QED
  BY <1>1, <1>2, <1>3 DEF Promise!Pass, StageBar, OwnerBar, Barred

(* A second write refused, or a crash: the exchange under way comes to     *)
(* nothing, with the reports let in when the process died.                 *)
LEMMA PromiseGiveUp ==
  ASSUME TInv, SecondWriteFails \/ Crash
  PROVE  Promise!GiveUp
<1>1. /\ enrolling' = NoCall /\ admitted' \subseteq admitted
      /\ UNCHANGED <<agents, tokens, reports, expired, answered>>
  BY DEF SecondWriteFails, Crash, files, outside, history
<1>2. UNCHANGED <<OwnerBar, Barred>>
  BY <1>1, NothingMoves DEF Next
<1>3. \A t \in Tokens :
        /\ StageOf(t)' \in Promise!Stages
        /\ StageOf(t)' # StageOf(t) => StageOf(t) = "exchanging" /\ StageOf(t)' = "open"
  BY <1>1 DEF StageOf, Promise!Stages
<1>4. /\ StageBar' \in [Tokens -> Promise!Stages]
      /\ \A t \in Tokens :
           StageBar'[t] # StageBar[t] => StageBar[t] = "exchanging" /\ StageBar'[t] = "open"
  BY <1>3 DEF StageBar
<1>5. QED
  BY <1>1, <1>2, <1>4 DEF Promise!GiveUp, StageBar, OwnerBar, Barred

(* The audit log, pages, replies on their way and the time an agent was    *)
(* last seen are no part of the promise.                                   *)
LEMMA PromiseStutter ==
  ASSUME TInv,
         \/ \E t \in Tokens : AskToken(t) \/ CloseToken(t)
         \/ \E i \in Ids : ReceiveIdentity(i) \/ LoseReply(i) \/ LoadReport(i)
         \/ StampAgent \/ LoadAgents \/ ShowPage \/ UNCHANGED vars
  PROVE  UNCHANGED Promise!vars
<1>1. [Next]_vars
  BY DEF Next
<1>2. UNCHANGED <<tokens, enrolling, reports, admitted, expired, answered>>
  BY DEF AskToken, CloseToken, ReceiveIdentity, LoseReply, LoadReport, StampAgent, LoadAgents,
     ShowPage, vars, files, calls, outside, history
<1>3. UNCHANGED Barred
  <2>1. CASE StampAgent
    <3>1. agents \in [DOMAIN agents -> Agent] /\ saving \in DOMAIN agents
      BY <2>1 DEF StampAgent, TInv, TypeOK
    <3>2. QED
      BY <2>1, <3>1 DEF StampAgent, Barred, Agent
  <2>2. CASE UNCHANGED agents
    BY <2>2 DEF Barred
  <2>3. QED
    BY <2>1, <2>2 DEF AskToken, CloseToken, ReceiveIdentity, LoseReply, LoadReport, LoadAgents,
       ShowPage, vars, files
<1>4. UNCHANGED <<StageBar, OwnerBar>>
  BY <1>1, <1>2, NothingMoves
<1>5. QED
  BY <1>2, <1>3, <1>4 DEF Promise!vars, StageBar, OwnerBar, Barred

(* Every step of the registry is one of Enrolment, or invisible to it.     *)
LEMMA PromiseStep ==
  ASSUME TInv, [Next]_vars
  PROVE  [Promise!Next]_(Promise!vars)
<1>1. ASSUME NEW t \in Tokens,
             \/ CreateEnrolmentToken(t) \/ Expire(t)
             \/ \E h \in Hosts, i \in Ids : Enrol(t, h, i)
      PROVE  Promise!Next
  BY <1>1, PromiseMint, PromisePass, PromiseBegin DEF Promise!Next
<1>2. ASSUME NEW i \in Ids, Revoke(i) \/ Authenticate(i) \/ SaveReport(i)
      PROVE  Promise!Next
  BY <1>2, PromiseBar, PromiseLetIn, PromiseReport DEF Promise!Next
<1>3. CASE SpendToken
  BY <1>3, TokenStep, PromiseGiveAway DEF Promise!Next
<1>4. CASE SecondWriteFails \/ Crash
  BY <1>4, PromiseGiveUp DEF Promise!Next
<1>5. QED
  BY <1>1, <1>2, <1>3, <1>4, PromiseStutter DEF Next

(* ImplementsEnrolment, for any tokens, agents, hosts and any number of    *)
(* crashes and refused writes.                                             *)
THEOREM Implementation == Spec => ImplementsEnrolment
<1>1. Init => TInv /\ Promise!Init
  BY TokenInit, PromiseInit
<1>2. TInv /\ [Next]_vars => TInv'
  BY TokenStep
<1>3. TInv /\ [Next]_vars => [Promise!Next]_(Promise!vars)
  BY PromiseStep
<1>4. QED
  BY <1>1, <1>2, <1>3, PTL DEF Spec, ImplementsEnrolment, Promise!Spec
==============================================================================
