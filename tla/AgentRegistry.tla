---------------------------- MODULE AgentRegistry ----------------------------
(***************************************************************************)
(* How an agent gets an identity, and how its reports and the pages built  *)
(* from them meet: enrolment-tokens.json, agents.json and reports/*.       *)
(*                                                                         *)
(* Two store calls write two files under one hold of the mutex: Enrol      *)
(* (the agent, then its token) and SaveReport (the report, then the time   *)
(* the agent was last seen).  The process may die, or the disk refuse,     *)
(* between the two.  A page is several calls: it reads the agents once and *)
(* then one report after another, while reports go on arriving.            *)
(*                                                                         *)
(* A definition that varies the one following it in a single point         *)
(* (SpendNothing before SpendToken) is a mistake the properties must       *)
(* notice; nothing uses it.                                                *)
(***************************************************************************)
EXTENDS Naturals, FiniteSets

CONSTANTS
  Tokens,      \* enrolment tokens, each minted at most once
  Ids,         \* agent ids (randomID), each used at most once
  Hosts,       \* host names
  Fold(_),     \* a name up to case: what strings.EqualFold compares
  MintedFor,   \* the host the admin names for each token
  NoAgent, NoToken, NoCall,
  MaxReports,  \* bound: reports an agent sends
  MaxFailures  \* bound: crashes, and second writes the disk refuses

ASSUME RegistryOK ==
  /\ NoAgent \notin Ids /\ NoToken \notin Tokens
  /\ MintedFor \in [Tokens -> Hosts]
  /\ MaxReports \in Nat /\ MaxFailures \in Nat

Agent == [host : Hosts, revoked : BOOLEAN, seen : 0..MaxReports]
Token == [host : Hosts, used : Ids \cup {NoAgent}]
Call  == [token : Tokens, id : Ids]

ASSUME NoCallOK == NoCall \notin Call

VARIABLES
  agents,     \* agents.json; seen counts the report that set LastSeenAt
  tokens,     \* enrolment-tokens.json
  reports,    \* reports/*: which of an agent's reports is on file, 0 for none
  audit,      \* audit.json: the entry of each token
  expired,    \* the tokens whose time has passed
  minting,    \* where postEnrolmentToken is, by token
  enrolling,  \* the Enrol call that has written agents.json
  saving,     \* the agent whose SaveReport call has written its report
  admitted,   \* agents with a report let in by withAgent
  replies,    \* identities on their way to the host that enrolled
  held,       \* the identity each host holds
  page,       \* the page being built: the agents it read, the reports it has
              \* still to read, and those it has read
  failures,   \* crashes and refused writes so far
  via,        \* history: the token each agent enrolled with
  answered    \* history: the identities ever given away

files    == <<agents, tokens, reports, audit>>
calls    == <<minting, enrolling, saving, admitted, page>>
outside  == <<expired, replies, held>>
history  == <<via, answered>>
vars     == <<files, calls, outside, failures, history>>

Free == enrolling = NoCall /\ saving = NoAgent   \* the store's mutex

EmptyPage == [agents |-> [i \in {} |-> NoAgent], left |-> {}, inventory |-> [i \in Ids |-> 0]]

(* EnrolmentToken.Spent. *)
Spent(t) == tokens[t].used # NoAgent \/ t \in expired

----------------------------------------------------------------------------
Init ==
  /\ agents = [i \in {} |-> NoAgent] /\ tokens = [t \in {} |-> NoToken]
  /\ reports = [i \in Ids |-> 0]
  /\ audit = [t \in Tokens |-> "none"]
  /\ expired = {}
  /\ minting = [t \in Tokens |-> "idle"]
  /\ enrolling = NoCall /\ saving = NoAgent /\ page = EmptyPage
  /\ admitted = {} /\ replies = {} /\ answered = {}
  /\ held = [h \in Hosts |-> NoAgent]
  /\ failures = 0
  /\ via = [i \in Ids |-> NoToken]

AskTokenUnaudited(t) ==
  /\ minting[t] = "idle"
  /\ minting' = [minting EXCEPT ![t] = "create"]
  /\ UNCHANGED <<files, enrolling, saving, admitted, page, outside, failures, history>>

(* postEnrolmentToken: the intent, ...                                     *)
AskToken(t) ==
  /\ minting[t] = "idle" /\ Free
  /\ minting' = [minting EXCEPT ![t] = "create"]
  /\ audit' = [audit EXCEPT ![t] = "open"]
  /\ UNCHANGED <<agents, tokens, reports, enrolling, saving, admitted, page, outside, failures,
                 history>>

(* ... CreateEnrolmentToken, ...                                           *)
CreateEnrolmentToken(t) ==
  /\ minting[t] = "create" /\ Free
  /\ minting' = [minting EXCEPT ![t] = "close"]
  /\ tokens' = [u \in DOMAIN tokens \cup {t} |->
                  IF u = t THEN [host |-> MintedFor[t], used |-> NoAgent] ELSE tokens[u]]
  /\ UNCHANGED <<agents, reports, audit, enrolling, saving, admitted, page, outside, failures,
                 history>>

(* ... the outcome, and the token is shown.                                *)
CloseToken(t) ==
  /\ minting[t] = "close" /\ Free
  /\ minting' = [minting EXCEPT ![t] = "over"]
  /\ audit' = [audit EXCEPT ![t] = "done"]
  /\ UNCHANGED <<agents, tokens, reports, enrolling, saving, admitted, page, outside, failures,
                 history>>

(* Time passes a token's ExpiresAt.                                        *)
Expire(t) ==
  /\ t \in DOMAIN tokens \ expired
  /\ expired' = expired \cup {t}
  /\ UNCHANGED <<files, calls, replies, held, failures, history>>

EnrolUnlessExpired(t, h, i) ==
  /\ Free
  /\ t \in DOMAIN tokens \ expired /\ minting[t] = "over"
  /\ Fold(h) = Fold(tokens[t].host)
  /\ i \notin DOMAIN agents
  /\ agents' = [j \in DOMAIN agents \cup {i} |->
                  IF j = i THEN [host |-> h, revoked |-> FALSE, seen |-> 0] ELSE agents[j]]
  /\ enrolling' = [token |-> t, id |-> i]
  /\ via' = [via EXCEPT ![i] = t]
  /\ UNCHANGED <<tokens, reports, audit, minting, saving, admitted, page, outside, failures,
                 answered>>

(* Enrol, up to its first write.  The host presents a token it was shown;  *)
(* every refusal is the same error and changes nothing.                    *)
Enrol(t, h, i) ==
  /\ Free
  /\ t \in DOMAIN tokens /\ minting[t] = "over"
  /\ ~Spent(t)
  /\ Fold(h) = Fold(tokens[t].host)
  /\ i \notin DOMAIN agents
  /\ agents' = [j \in DOMAIN agents \cup {i} |->
                  IF j = i THEN [host |-> h, revoked |-> FALSE, seen |-> 0] ELSE agents[j]]
  /\ enrolling' = [token |-> t, id |-> i]
  /\ via' = [via EXCEPT ![i] = t]
  /\ UNCHANGED <<tokens, reports, audit, minting, saving, admitted, page, outside, failures,
                 answered>>

SpendNothing ==
  /\ enrolling # NoCall
  /\ enrolling' = NoCall
  /\ replies' = replies \cup {enrolling.id}
  /\ answered' = answered \cup {enrolling.id}
  /\ UNCHANGED <<files, minting, saving, admitted, page, expired, held, failures, via>>

(* Enrol's second write, and the answer.                                   *)
SpendToken ==
  /\ enrolling # NoCall
  /\ tokens' = [tokens EXCEPT ![enrolling.token].used = enrolling.id]
  /\ enrolling' = NoCall
  /\ replies' = replies \cup {enrolling.id}
  /\ answered' = answered \cup {enrolling.id}
  /\ UNCHANGED <<agents, reports, audit, minting, saving, admitted, page, expired, held,
                 failures, via>>

ReceiveIdentity(i) ==
  /\ i \in replies
  /\ replies' = replies \ {i}
  /\ held' = [held EXCEPT ![agents[i].host] = i]
  /\ UNCHANGED <<files, calls, expired, failures, history>>

LoseReply(i) ==
  /\ i \in replies
  /\ replies' = replies \ {i}
  /\ UNCHANGED <<files, calls, expired, held, failures, history>>

Revoke(i) ==
  /\ Free
  /\ i \in DOMAIN agents
  /\ agents' = [agents EXCEPT ![i].revoked = TRUE]
  /\ UNCHANGED <<tokens, reports, audit, calls, outside, failures, history>>

----------------------------------------------------------------------------
AuthenticateRevoked(i) ==
  /\ Free
  /\ i \in DOMAIN agents
  /\ \E h \in Hosts : held[h] = i
  /\ admitted' = admitted \cup {i}
  /\ UNCHANGED <<files, minting, enrolling, saving, page, outside, failures, history>>

(* withAgent: Authenticate, a call of its own before the handler's.        *)
Authenticate(i) ==
  /\ Free
  /\ i \in DOMAIN agents /\ ~agents[i].revoked
  /\ \E h \in Hosts : held[h] = i
  /\ admitted' = admitted \cup {i}
  /\ UNCHANGED <<files, minting, enrolling, saving, page, outside, failures, history>>

(* SaveReport: the report, ...                                             *)
SaveReport(i) ==
  /\ Free
  /\ i \in admitted
  /\ reports[i] < MaxReports
  /\ reports' = [reports EXCEPT ![i] = @ + 1]
  /\ saving' = i
  /\ admitted' = admitted \ {i}
  /\ UNCHANGED <<agents, tokens, audit, minting, enrolling, page, outside, failures, history>>

StampAhead ==
  /\ saving # NoAgent
  /\ agents' = [agents EXCEPT ![saving].seen = reports[saving] + 1]
  /\ saving' = NoAgent
  /\ UNCHANGED <<tokens, reports, audit, minting, enrolling, admitted, page, outside, failures,
                 history>>

(* ... then LastSeenAt.                                                    *)
StampAgent ==
  /\ saving # NoAgent
  /\ agents' = [agents EXCEPT ![saving].seen = reports[saving]]
  /\ saving' = NoAgent
  /\ UNCHANGED <<tokens, reports, audit, minting, enrolling, admitted, page, outside, failures,
                 history>>

(* The second write of either call fails: the call returns an error, and   *)
(* its first write stays.                                                  *)
SecondWriteFails ==
  /\ ~Free
  /\ failures < MaxFailures
  /\ failures' = failures + 1
  /\ enrolling' = NoCall /\ saving' = NoAgent
  /\ UNCHANGED <<files, minting, admitted, page, outside, history>>

(* The process dies with every request it was serving.                     *)
Crash ==
  /\ failures < MaxFailures
  /\ failures' = failures + 1
  /\ enrolling' = NoCall /\ saving' = NoAgent
  /\ page' = EmptyPage /\ admitted' = {}
  /\ minting' = [t \in Tokens |-> IF minting[t] = "idle" THEN "idle"
                                  ELSE IF minting[t] = "over" THEN "over" ELSE "lost"]
  /\ UNCHANGED <<files, outside, history>>

----------------------------------------------------------------------------
(* loadFleet: every agent in one call, ...                                 *)
LoadAgents ==
  /\ Free /\ page = EmptyPage
  /\ page' = [agents |-> agents, left |-> DOMAIN agents, inventory |-> [i \in Ids |-> 0]]
  /\ UNCHANGED <<files, minting, enrolling, saving, admitted, outside, failures, history>>

LoadReportAfresh(i) ==
  /\ Free
  /\ i \in page.left
  /\ page' = [page EXCEPT !.left = @ \ {i}, !.inventory[i] = reports[i],
                           !.agents = [j \in DOMAIN @ |-> agents[j]]]
  /\ UNCHANGED <<files, minting, enrolling, saving, admitted, outside, failures, history>>

(* ... its report in another, and so on.                                   *)
LoadReport(i) ==
  /\ Free
  /\ i \in page.left
  /\ page' = [page EXCEPT !.left = @ \ {i}, !.inventory[i] = reports[i]]
  /\ UNCHANGED <<files, minting, enrolling, saving, admitted, outside, failures, history>>

ShowPage ==
  /\ page # EmptyPage
  /\ page.left = {}
  /\ page' = EmptyPage
  /\ UNCHANGED <<files, minting, enrolling, saving, admitted, outside, failures, history>>

Next ==
  \/ \E t \in Tokens :
       \/ AskToken(t)
       \/ CreateEnrolmentToken(t)
       \/ CloseToken(t)
       \/ Expire(t)
       \/ \E h \in Hosts, i \in Ids : Enrol(t, h, i)
  \/ SpendToken
  \/ \E i \in Ids :
       \/ ReceiveIdentity(i)
       \/ LoseReply(i)
       \/ Revoke(i)
       \/ Authenticate(i)
       \/ SaveReport(i)
       \/ LoadReport(i)
  \/ StampAgent
  \/ SecondWriteFails
  \/ Crash
  \/ LoadAgents
  \/ ShowPage

Spec == Init /\ [][Next]_vars

----------------------------------------------------------------------------
(* Type correctness of the files, the calls in progress and the hosts.     *)
TypeOK ==
  /\ DOMAIN agents \subseteq Ids /\ agents \in [DOMAIN agents -> Agent]
  /\ DOMAIN tokens \subseteq Tokens /\ tokens \in [DOMAIN tokens -> Token]
  /\ reports \in [Ids -> 0..MaxReports]
  /\ audit \in [Tokens -> {"none", "open", "done"}]
  /\ expired \subseteq Tokens
  /\ minting \in [Tokens -> {"idle", "create", "close", "over", "lost"}]
  /\ enrolling \in Call \cup {NoCall}
  /\ enrolling # NoCall => enrolling.id \in DOMAIN agents
  /\ saving \in DOMAIN agents \cup {NoAgent}
  /\ admitted \subseteq DOMAIN agents
  /\ replies \subseteq answered /\ answered \subseteq DOMAIN agents
  /\ held \in [Hosts -> answered \cup {NoAgent}]
  /\ DOMAIN page.agents \subseteq DOMAIN agents
  /\ page.agents \in [DOMAIN page.agents -> Agent]
  /\ page.left \subseteq DOMAIN page.agents
  /\ page.inventory \in [Ids -> 0..MaxReports]
  /\ failures \in 0..MaxFailures
  /\ via \in [Ids -> Tokens \cup {NoToken}]

(* EnrolmentToken, "a single-use invitation for one named host": whatever  *)
(* died or failed on the way, of the identities a token was ever exchanged *)
(* for only one was given away, to the host it was minted for.             *)
OneIdentityPerToken ==
  /\ \A i, j \in answered : via[i] = via[j] => i = j
  /\ \A i \in answered :
       via[i] \in Tokens /\ Fold(agents[i].host) = Fold(MintedFor[via[i]])

(* ... while agents.json may get one record more for each call that ended  *)
(* between its two writes, and no more.                                    *)
UsesBoundedByFailures ==
  \A t \in Tokens : Cardinality({i \in DOMAIN agents : via[i] = t}) <= 1 + failures

(* The same machine as Enrolment: a token is as far as its file says, or   *)
(* being exchanged while the call that enrols with it holds the mutex.     *)
StageOf(t) ==
  IF t \notin DOMAIN tokens THEN "unminted"
  ELSE IF tokens[t].used # NoAgent THEN "spent"
  ELSE IF enrolling # NoCall /\ enrolling.token = t THEN "exchanging"
  ELSE "open"

OwnerOf(i) == [token |-> via[i], host |-> Fold(agents[i].host)]

Promise == INSTANCE Enrolment WITH
  HostOf <- [t \in Tokens |-> Fold(MintedFor[t])],
  stage <- [t \in Tokens |-> StageOf(t)],
  overdue <- expired,
  owner <- [i \in answered |-> OwnerOf(i)],
  barred <- {i \in DOMAIN agents : agents[i].revoked},
  letIn <- admitted,
  word <- reports

(* EnrolmentToken and withAgent: whatever fails between the two writes of  *)
(* Enrol and SaveReport, the files and the identities on their way behave  *)
(* as Enrolment promises.                                                  *)
ImplementsEnrolment == Promise!Spec

(* A single-use token enrols one agent.                                    *)
SingleUse == \A i, j \in DOMAIN agents : via[i] = via[j] => i = j

(* postEnrolmentToken, "intent first": a token that exists has an audit    *)
(* entry; and a spent one names an agent the audit trail can resolve.      *)
TrailResolves ==
  \A t \in DOMAIN tokens :
    /\ audit[t] # "none"
    /\ tokens[t].used # NoAgent => tokens[t].used \in DOMAIN agents

(* BuildDashboard takes LastSeenAt for the age of the report beside it: on *)
(* a page put together while reports arrive, and after a SaveReport that   *)
(* stopped half-way, no report is older than the agent is said to be seen. *)
SeenNoLaterThanReported ==
  \A i \in DOMAIN page.agents \ page.left : page.agents[i].seen <= page.inventory[i]
==============================================================================
