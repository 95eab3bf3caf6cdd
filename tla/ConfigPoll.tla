----------------------------- MODULE ConfigPoll ------------------------------
(***************************************************************************)
(* How the estate's configuration reaches the agents: the document each    *)
(* agent long-polls (AgentConfigFor, handleConfig), composed with the      *)
(* forms of EstateConfig that change it.  The operations that ride in the  *)
(* same document are the subject of Operations.                            *)
(***************************************************************************)
EXTENDS EstateConfig

CONSTANT NoDocument   \* an agent that holds no configuration

VARIABLES
  poll,   \* a poll of each agent: none, waiting at the UI, or never again
  held,   \* the document each agent holds, which its next poll names by ETag
  late    \* history: documents answered to an agent since it was revoked

pvars == <<poll, held, late>>
vars  == <<evars, pvars>>

----------------------------------------------------------------------------
(* How often each VM should sync, over the whole estate.  The code ranges  *)
(* over a Go map of schedules, so of two agents' intervals for VMs of one  *)
(* name either may be the one that stays.                                  *)
Scheduled == {e \in UNION {sched[a] : a \in Agents} : e.enabled}
Cadences  ==
  {c \in [{e.vm : e \in Scheduled} -> Intervals] :
     \A v \in DOMAIN c : \E e \in Scheduled : e.vm = v /\ e.interval = c[v]}

(* AgentConfigFor: the documents it may build for an agent now.            *)
Documents(a) ==
  {[limit |-> settings.limit, templates |-> settings.templates,
    schedule |-> sched[a], cadence |-> c] : c \in Cadences}

Document == [limit : Limits,
             templates : UNION {[N -> Template] : N \in SUBSET Names},
             schedule : SUBSET Entry,
             cadence : UNION {[V -> Intervals] : V \in SUBSET VMs}]

ETagOfSchedule(doc) == <<doc.limit, doc.schedule, doc.cadence>>

(* etagOf digests the whole document (collisions are left out).            *)
ETag(doc) == <<doc.limit, doc.templates, doc.schedule, doc.cadence>>

Known(a, doc) == held[a] # NoDocument /\ ETag(doc) = ETag(held[a])

ASSUME DocumentOK == NoDocument \notin Document

----------------------------------------------------------------------------
PollInit ==
  /\ Init
  /\ poll = [a \in Agents |-> "none"]
  /\ held = [a \in Agents |-> NoDocument]
  /\ late = [a \in Agents |-> 0]

StartPollUnchecked(a) ==
  /\ poll[a] = "none"
  /\ poll' = [poll EXCEPT ![a] = "waiting"]
  /\ UNCHANGED <<evars, held, late>>

(* withAgent authenticates the request, once.                              *)
StartPoll(a) ==
  /\ poll[a] = "none"
  /\ a \notin revoked
  /\ poll' = [poll EXCEPT ![a] = "waiting"]
  /\ UNCHANGED <<evars, held, late>>

(* A revoked agent is answered 401, and stops.                             *)
RefusePoll(a) ==
  /\ poll[a] = "none"
  /\ a \in revoked
  /\ poll' = [poll EXCEPT ![a] = "refused"]
  /\ UNCHANGED <<evars, held, late>>

(* handleConfig, at any of its looks at the files: a document the agent    *)
(* does not know is its answer.                                            *)
AnswerPoll(a, doc) ==
  /\ poll[a] = "waiting"
  /\ doc \in Documents(a)
  /\ ~Known(a, doc)
  /\ poll' = [poll EXCEPT ![a] = "none"]
  /\ held' = [held EXCEPT ![a] = doc]
  /\ late' = [late EXCEPT ![a] = IF a \in revoked THEN @ + 1 ELSE @]
  /\ UNCHANGED evars

(* The deadline comes and the document is the known one: 304.              *)
TimeoutPoll(a) ==
  /\ poll[a] = "waiting"
  /\ \E doc \in Documents(a) : Known(a, doc)
  /\ poll' = [poll EXCEPT ![a] = "none"]
  /\ UNCHANGED <<evars, held, late>>

(* The agent gives up, its connection breaks or the UI restarts.           *)
LosePoll(a) ==
  /\ poll[a] = "waiting"
  /\ poll' = [poll EXCEPT ![a] = "none"]
  /\ UNCHANGED <<evars, held, late>>

PollStep(a) ==
  \/ StartPoll(a)
  \/ RefusePoll(a)
  \/ \E doc \in Documents(a) : AnswerPoll(a, doc)
  \/ TimeoutPoll(a)
  \/ LosePoll(a)

PollNext ==
  \/ Next /\ UNCHANGED pvars
  \/ \E a \in Agents : PollStep(a)

PollSpec == PollInit /\ [][PollNext]_vars

(* Agents poll again and again; a poll that keeps finding something new is *)
(* answered in the end, however many are lost.  Admins owe nothing.        *)
PollFairness ==
  \A a \in Agents :
    /\ WF_vars(StartPoll(a))
    /\ SF_vars(\E doc \in Documents(a) : AnswerPoll(a, doc))
    /\ WF_vars(TimeoutPoll(a))

FairPollSpec == PollSpec /\ PollFairness

----------------------------------------------------------------------------
(* Type correctness of the agents' side.                                   *)
PollTypeOK ==
  /\ TypeOK
  /\ poll \in [Agents -> {"none", "waiting", "refused"}]
  /\ held \in [Agents -> Document \cup {NoDocument}]
  /\ late \in [Agents -> Nat]

(* Revoke "stops an agent being able to connect": a poll let in before may *)
(* still be answered, with one document, and nothing more reaches the      *)
(* agent whatever is edited afterwards.                                    *)
OneAnswerAfterRevocation == \A a \in Agents : late[a] <= 1

(* handleConfig "delivers a change to a hypervisor within seconds": once   *)
(* admins stop, every agent not revoked comes to hold a current document,  *)
(* whatever edits overlapped its polls and whatever polls were lost.       *)
ChangesReachAgents ==
  \A a \in Agents : []<>(a \in revoked \/ held[a] \in Documents(a))

(* pendingOperationsFor and etagOf: an agent is not woken when nothing has *)
(* changed.  Once admins stop, agents are only ever answered 304.          *)
PollsQuiesce == <>[][held' = held]_held
==============================================================================
