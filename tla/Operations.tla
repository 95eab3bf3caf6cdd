----------------------------- MODULE Operations ------------------------------
(***************************************************************************)
(* The life of a failover operation in vmsync-ui: issued by an operator,   *)
(* published inside the document an agent polls, executed once by that     *)
(* agent, reported back, followed through in the schedule, and closed.     *)
(*                                                                         *)
(* The store (internal/store) keeps one JSON file per concern and one      *)
(* mutex.  Each write replaces one file atomically; nothing spans two      *)
(* files.  RecordOperationResults therefore writes schedules.json and      *)
(* audit.json while it works through a report and operations.json once at  *)
(* the end, and the process may die anywhere between.  Every other store   *)
(* operation here is one atomic step taken while the mutex is free.        *)
(*                                                                         *)
(* The agent is another program.  What it does is modelled from what the   *)
(* store's comments rely on: a durable ledger written before acting, a     *)
(* report that repeats the ledger, and an entry forgotten once the         *)
(* operation is no longer published.                                       *)
(*                                                                         *)
(* A definition that varies the one following it in a single point         *)
(* (HealNothing before Heal, CancelPending before CancelOperation) is a    *)
(* mistake the properties must notice; nothing uses it.                    *)
(***************************************************************************)
EXTENDS Naturals, FiniteSets, Schedules

CONSTANTS
  Ops,          \* operation ids (newOperationID), each used at most once
  Agents,       \* agent identities, enrolled or not
  Nobody,       \* no agent: the store's mutex is free
  NoOp,         \* no operation
  VMs,          \* domain names
  Fold(_),      \* a name up to case: what strings.EqualFold compares
  Hosts,        \* hostnames, up to case
  NoHost, NoVM, \* an empty peer_host, an empty peer_vm
  HostOf,       \* Agent.Hostname, by agent
  Dirs,         \* values of target_disk_path
  DiskDir,      \* singleDiskDirLocked, by agent and VM: {} or one directory
  Requests,     \* the operations handlers may ask for
  Saves,        \* <<agent, entry>> pairs an operator may save
  Schedule0,    \* the schedule at the start
  Enrolled0,    \* the agents enrolled at the start
  Revocable,    \* bound: the agents an admin may revoke
  Failures,     \* the outcomes, other than done, the agent may report
  MaxLegacy,    \* bound: records left behind by the previous build
  MaxInFlight,  \* bound: reports on the wire or waiting for the mutex
  MaxCrashes    \* bound: crashes of the UI

Kinds    == {"promote", "invert", "shutdown-domain", "set-role", "restore",
             "reinit", "force-clean"}
States   == {"running", "done", "failed", "expired", "refused", "unknown"}
Outcomes == States \ {"running"}
Statuses == {"absent", "enrolled", "revoked"}

Operation == [agent : Agents, vm : VMs, kind : Kinds,
              peerHost : Hosts \cup {NoHost}, peerVM : VMs \cup {NoVM}]
Entry     == [vm : VMs, enabled : BOOLEAN, target : Hosts, dir : Dirs]

ASSUME ConstantsOK ==
  /\ Nobody \notin Agents
  /\ NoOp \notin Ops
  /\ NoHost \notin Hosts
  /\ NoVM \notin VMs
  /\ \A v \in VMs : Fold(v) \in VMs
  /\ HostOf \in [Agents -> Hosts]
  /\ DiskDir \in [Agents -> [VMs -> SUBSET Dirs]]
  /\ Requests \subseteq Operation
  /\ Saves \subseteq Agents \X Entry
  /\ Schedule0 \in [Agents -> SUBSET Entry]
  /\ OneEntryPerVM(Schedule0)
  /\ Enrolled0 \subseteq Agents /\ Revocable \subseteq Agents
  /\ Failures \subseteq Outcomes \ {"done"}
  /\ MaxLegacy \in Nat /\ MaxInFlight \in Nat /\ MaxCrashes \in Nat

NoResult == "none"

(* An OperationRecord: what was asked, the last result kept ("none" before *)
(* any), FollowUpDone, and whether CancelledAtUnix is set.                 *)
OperationRecord == [op : Requests, result : States \cup {NoResult},
                    followUp : BOOLEAN, cancelled : BOOLEAN]

VARIABLES
  ops,      \* operations.json: a record for each id issued so far
  sched,    \* schedules.json
  audit,    \* audit.json: the entry of each operation, open or its outcome
  status,   \* agents.json: absent, enrolled or revoked
  writer,   \* the agent whose report RecordOperationResults is working on
  mem,      \* that call's copy of operations.json
  todo,     \* the results of the report it has not come to yet
  cur,      \* the result whose consequences are applied and not recorded
  changed,  \* its `changed` flag
  wire,     \* reports sent and not processed
  view,     \* the operations in the config each agent holds
  ledger,   \* the agents' durable ledger
  busy,     \* the operations being carried out on a hypervisor
  crashes,  \* crashes so far
  runs,     \* history: how often an operation was carried out
  applied   \* history: whether its consequences ran ("yes"; "either" if for
            \* one of several agents of a host), and whether the schedule
            \* has been edited since ("stale")

disk  == <<ops, sched, audit, status>>
call  == <<writer, mem, todo, cur, changed>>
agent == <<view, ledger, busy, runs>>
vars  == <<disk, call, agent, wire, crashes, applied>>

----------------------------------------------------------------------------
(* Predicates on records.                                                  *)

(* OperationResult.Terminal: everything but "running" is an outcome.       *)
Terminal(r) == r \in Outcomes

(* OperationRecord.Started. *)
Started(rec) == rec.result # NoResult

PendingUnlessReported(rec) == ~rec.cancelled /\ rec.result = NoResult

PendingWhileRunning(rec) ==
  rec.result = "running" \/ (~rec.cancelled /\ rec.result = NoResult)

(* OperationRecord.Pending: still published to its agent.                  *)
Pending(rec) == ~rec.cancelled /\ ~Terminal(rec.result)

HealNothing(rec) == rec

HealToLost(rec) ==
  IF rec.result = "running" /\ rec.followUp THEN [rec EXCEPT !.result = "lost"] ELSE rec

(* healStuckProgressRecord: running with FollowUpDone is a record of the   *)
(* previous build, whose outcome is lost.                                  *)
Heal(rec) ==
  IF rec.result = "running" /\ rec.followUp
  THEN [rec EXCEPT !.result = "unknown"]
  ELSE rec

(* loadOperations: what every reader of operations.json sees.              *)
Load(file) == [o \in DOMAIN file |-> Heal(file[o])]
Loaded     == Load(ops)

SkippedForeign(o) == o \notin DOMAIN mem \/ mem[o].op.agent # writer

(* The records of an agent's report that RecordOperationResults passes     *)
(* over: unknown here, another agent's, or finished with.                  *)
Skipped(o) ==
  \/ o \notin DOMAIN mem
  \/ mem[o].op.agent # writer
  \/ mem[o].result # NoResult /\ mem[o].followUp

PublishedTo(a) == {o \in DOMAIN ops : Loaded[o].op.agent = a /\ Pending(Loaded[o])}

----------------------------------------------------------------------------
(* applyOperationFollowUp: the schedules an operation's outcome may lead   *)
(* to.  None at all is the error it returns.                               *)

PeerVM(op) == IF op.peerVM = NoVM THEN op.vm ELSE op.peerVM

(* agentIDForHostLocked returns the first enrolled agent of that host;     *)
(* which one comes first is no part of its contract.                       *)
AgentsForHost(host) == {a \in Agents : status[a] = "enrolled" /\ HostOf[a] = host}

PeerDisabled(op) ==
  IF AgentsForHost(op.peerHost) = {} THEN {sched}
  ELSE {SetEnabled(sched, a, PeerVM(op), FALSE) : a \in AgentsForHost(op.peerHost)}

Inverted(op) ==
  IF op.peerHost = NoHost THEN {sched}
  ELSE {MoveEntry(sched, op.agent, a, op.vm, PeerVM(op), HostOf[op.agent],
                  DiskDir[op.agent][op.vm]) : a \in AgentsForHost(op.peerHost)}

FollowUpsOwnVM(op, state) ==
  IF state # "done" THEN {sched}
  ELSE CASE op.kind \in {"promote", "restore"} ->
              IF AgentsForHost(op.peerHost) = {} THEN {sched}
              ELSE {SetEnabled(sched, a, op.vm, FALSE) : a \in AgentsForHost(op.peerHost)}
         [] op.kind = "invert" -> Inverted(op)
         [] op.kind \in {"reinit", "force-clean"} -> {SetEnabled(sched, op.agent, op.vm, TRUE)}
         [] OTHER -> {sched}

FollowUps(op, state) ==
  IF state # "done" THEN {sched}
  ELSE CASE op.kind \in {"promote", "restore"} -> PeerDisabled(op)
         [] op.kind = "invert" -> Inverted(op)
         [] op.kind \in {"reinit", "force-clean"} -> {SetEnabled(sched, op.agent, op.vm, TRUE)}
         [] OTHER -> {sched}

(* The history of consequences: those of op have just run, for the agent   *)
(* of the host they follow to, or for one of several; and, when the        *)
(* schedule changes to s, others may be out of date.                       *)
Ran(op) == IF \A a, b \in AgentsForHost(op.peerHost) : a = b THEN "yes" ELSE "either"

Edited(s) ==
  [o \in Ops |-> IF applied[o] = "yes" /\ s # sched THEN "stale" ELSE applied[o]]

----------------------------------------------------------------------------
(* Initial states: nothing issued by this build.  The previous build may   *)
(* have left records it closed on a "running" report (FollowUpDone, audit  *)
(* entry closed with "running"); their agent has dropped its ledger entry, *)
(* and may or may not still be working.                                    *)

NoLedger == "none"
Idle     == /\ writer = Nobody
            /\ mem = [o \in {} |-> NoOp]
            /\ todo = [o \in {} |-> NoOp]
            /\ cur = NoOp
            /\ changed = FALSE

LegacyRecord(req) ==
  [op |-> req, result |-> "running", followUp |-> TRUE, cancelled |-> FALSE]

Init ==
  /\ \E legacy \in {L \in SUBSET Ops : Cardinality(L) <= MaxLegacy} :
       /\ \E asked \in [legacy -> {req \in Requests : req.agent \in Enrolled0}] :
            ops = [o \in legacy |-> LegacyRecord(asked[o])]
       /\ audit = [o \in Ops |-> IF o \in legacy THEN "running" ELSE "none"]
       /\ busy \in SUBSET legacy
       /\ runs = [o \in Ops |-> IF o \in legacy THEN 1 ELSE 0]
  /\ sched = Schedule0
  /\ status = [a \in Agents |-> IF a \in Enrolled0 THEN "enrolled" ELSE "absent"]
  /\ Idle
  /\ wire = {}
  /\ view = [a \in Agents |-> {}]
  /\ ledger = [o \in Ops |-> NoLedger]
  /\ crashes = 0
  /\ applied = [o \in Ops |-> "no"]

----------------------------------------------------------------------------
(* Operators.  Each action is a store call made with the mutex free.       *)

CreateOperationSameCase(o, req) ==
  /\ writer = Nobody
  /\ o \notin DOMAIN ops
  /\ status[req.agent] # "absent"
  /\ \A p \in DOMAIN ops : Pending(Loaded[p]) => Loaded[p].op.vm # req.vm
  /\ ops' = [p \in DOMAIN ops \cup {o} |->
               IF p = o THEN [op |-> req, result |-> NoResult,
                              followUp |-> FALSE, cancelled |-> FALSE]
               ELSE Loaded[p]]
  /\ audit' = [audit EXCEPT ![o] = "open"]
  /\ UNCHANGED <<sched, status, call, agent, wire, crashes, applied>>

(* CreateOperation: one in flight per VM, a fresh id, one write.  The      *)
(* audit entry it refers to was appended by the handler just before.  The  *)
(* handler chose the agent from an earlier snapshot of the fleet, so that  *)
(* agent may have been revoked since.                                      *)
CreateOperation(o, req) ==
  /\ writer = Nobody
  /\ o \notin DOMAIN ops
  /\ status[req.agent] # "absent"
  /\ \A p \in DOMAIN ops :
       Pending(Loaded[p]) => Fold(Loaded[p].op.vm) # Fold(req.vm)
  /\ ops' = [p \in DOMAIN ops \cup {o} |->
               IF p = o THEN [op |-> req, result |-> NoResult,
                              followUp |-> FALSE, cancelled |-> FALSE]
               ELSE Loaded[p]]
  /\ audit' = [audit EXCEPT ![o] = "open"]
  /\ UNCHANGED <<sched, status, call, agent, wire, crashes, applied>>

CancelPending(o) ==
  /\ writer = Nobody
  /\ o \in DOMAIN ops
  /\ Pending(Loaded[o])
  /\ ops' = [Loaded EXCEPT ![o].cancelled = TRUE]
  /\ UNCHANGED <<sched, audit, status, call, agent, wire, crashes, applied>>

(* CancelOperation: only what the agent has reported nothing about.        *)
CancelOperation(o) ==
  /\ writer = Nobody
  /\ o \in DOMAIN ops
  /\ ~Started(Loaded[o])
  /\ Pending(Loaded[o])
  /\ ops' = [Loaded EXCEPT ![o].cancelled = TRUE]
  /\ UNCHANGED <<sched, audit, status, call, agent, wire, crashes, applied>>

(* SetScheduleEntry, from the schedule page.  The page refuses a revoked   *)
(* agent, but it looked before this call.                                  *)
SetScheduleEntry(a, e) ==
  /\ writer = Nobody
  /\ status[a] # "absent"
  /\ sched' = SaveEntry(sched, a, e)
  /\ applied' = Edited(sched')
  /\ UNCHANGED <<ops, audit, status, call, agent, wire, crashes>>

DeleteScheduleEntry(a, vm) ==
  /\ writer = Nobody
  /\ sched' = DropEntry(sched, a, vm)
  /\ applied' = Edited(sched')
  /\ UNCHANGED <<ops, audit, status, call, agent, wire, crashes>>

(* Enrol: from here on a follow-up may resolve this agent's host, so       *)
(* re-running one is no longer the same call.                              *)
Enrol(a) ==
  /\ writer = Nobody
  /\ status[a] = "absent"
  /\ status' = [status EXCEPT ![a] = "enrolled"]
  /\ applied' = [o \in Ops |-> IF applied[o] = "yes" THEN "stale" ELSE applied[o]]
  /\ UNCHANGED <<ops, sched, audit, call, agent, wire, crashes>>

Revoke(a) ==
  /\ writer = Nobody
  /\ a \in Revocable
  /\ status[a] = "enrolled"
  /\ status' = [status EXCEPT ![a] = "revoked"]
  /\ UNCHANGED <<ops, sched, audit, call, agent, wire, crashes, applied>>

----------------------------------------------------------------------------
(* A report on its way, and RecordOperationResults at work on it.          *)

Report == [from : Agents, results : UNION {[S -> States] : S \in SUBSET Ops},
           admitted : BOOLEAN]

(* The request passes withAgent, which reads the agent once; from there on *)
(* it waits for the mutex whatever happens to the agent.                   *)
AdmitReport(rep) ==
  /\ rep \in wire
  /\ ~rep.admitted
  /\ writer = Nobody
  /\ status[rep.from] = "enrolled"
  /\ wire' = (wire \ {rep}) \cup {[rep EXCEPT !.admitted = TRUE]}
  /\ UNCHANGED <<disk, call, agent, crashes, applied>>

(* A revoked agent's request is answered 401.                              *)
RejectReport(rep) ==
  /\ rep \in wire
  /\ ~rep.admitted
  /\ writer = Nobody
  /\ status[rep.from] # "enrolled"
  /\ wire' = wire \ {rep}
  /\ UNCHANGED <<disk, call, agent, crashes, applied>>

(* The network loses a report.                                             *)
LoseReport(rep) ==
  /\ rep \in wire
  /\ ~rep.admitted
  /\ wire' = wire \ {rep}
  /\ UNCHANGED <<disk, call, agent, crashes, applied>>

(* RecordOperationResults takes the mutex and loads operations.json.       *)
BeginReport(rep) ==
  /\ rep \in wire
  /\ rep.admitted
  /\ writer = Nobody
  /\ writer' = rep.from
  /\ mem' = Loaded
  /\ todo' = rep.results
  /\ changed' = FALSE
  /\ wire' = wire \ {rep}
  /\ UNCHANGED <<disk, cur, agent, crashes, applied>>

NextResult(o) ==
  /\ writer # Nobody
  /\ cur = NoOp
  /\ o \in DOMAIN todo

Done(o) == todo' = [p \in DOMAIN todo \ {o} |-> todo[p]]

SkipResult(o) ==
  /\ NextResult(o)
  /\ Skipped(o)
  /\ Done(o)
  /\ UNCHANGED <<disk, writer, mem, cur, changed, agent, wire, crashes, applied>>

NoteProgressAndCloseAudit(o) ==
  /\ NextResult(o)
  /\ ~Skipped(o)
  /\ ~Terminal(todo[o])
  /\ mem' = [mem EXCEPT ![o].result = todo[o]]
  /\ changed' = TRUE
  /\ audit' = [audit EXCEPT ![o] = todo[o]]
  /\ Done(o)
  /\ UNCHANGED <<ops, sched, status, writer, cur, agent, wire, crashes, applied>>

(* A running report is kept and changes nothing else.                      *)
NoteProgress(o) ==
  /\ NextResult(o)
  /\ ~Skipped(o)
  /\ ~Terminal(todo[o])
  /\ mem' = [mem EXCEPT ![o].result = todo[o]]
  /\ changed' = TRUE
  /\ Done(o)
  /\ UNCHANGED <<disk, writer, cur, agent, wire, crashes, applied>>

(* An outcome: first its consequences, in schedules.json ...               *)
ApplyFollowUp(o) ==
  /\ NextResult(o)
  /\ ~Skipped(o)
  /\ Terminal(todo[o])
  /\ sched' \in FollowUps(mem[o].op, todo[o])
  /\ mem' = [mem EXCEPT ![o].followUp = TRUE]
  /\ cur' = o
  /\ applied' = [Edited(sched') EXCEPT ![o] = Ran(mem[o].op)]
  /\ UNCHANGED <<ops, audit, status, writer, todo, changed, agent, wire, crashes>>

(* ... then the record in memory and the audit entry on disk.              *)
RecordOutcome(o) ==
  /\ writer # Nobody
  /\ cur = o
  /\ mem' = [mem EXCEPT ![o].result = todo[o]]
  /\ changed' = TRUE
  /\ audit' = [audit EXCEPT ![o] = todo[o]]
  /\ cur' = NoOp
  /\ Done(o)
  /\ UNCHANGED <<ops, sched, status, writer, agent, wire, crashes, applied>>

EndCall ==
  /\ writer' = Nobody
  /\ mem' = [p \in {} |-> NoOp]
  /\ todo' = [p \in {} |-> NoOp]
  /\ cur' = NoOp
  /\ changed' = FALSE

RecordWithoutConsequences(o) ==
  /\ NextResult(o)
  /\ ~Skipped(o)
  /\ Terminal(todo[o])
  /\ FollowUps(mem[o].op, todo[o]) = {}
  /\ mem' = [mem EXCEPT ![o].result = todo[o], ![o].followUp = TRUE]
  /\ changed' = TRUE
  /\ Done(o)
  /\ UNCHANGED <<disk, writer, cur, agent, wire, crashes, applied>>

(* ... unless they cannot be applied: the call returns the error, and with *)
(* it drops what it had recorded of the whole report.                      *)
FollowUpError(o) ==
  /\ NextResult(o)
  /\ ~Skipped(o)
  /\ Terminal(todo[o])
  /\ FollowUps(mem[o].op, todo[o]) = {}
  /\ EndCall
  /\ UNCHANGED <<disk, agent, wire, crashes, applied>>

(* Every result dealt with: one write, if anything changed.                *)
FinishReport ==
  /\ writer # Nobody
  /\ cur = NoOp
  /\ DOMAIN todo = {}
  /\ ops' = IF changed THEN mem ELSE ops
  /\ EndCall
  /\ UNCHANGED <<sched, audit, status, agent, wire, crashes, applied>>

(* The UI process dies, and with it the call and the requests it holds.    *)
(* The files stay as the last write left them.                             *)
Crash ==
  /\ crashes < MaxCrashes
  /\ crashes' = crashes + 1
  /\ EndCall
  /\ wire' = {rep \in wire : ~rep.admitted}
  /\ UNCHANGED <<disk, agent, applied>>

ProcessResult(o) ==
  \/ SkipResult(o)
  \/ NoteProgress(o)
  \/ ApplyFollowUp(o)
  \/ RecordOutcome(o)
  \/ FollowUpError(o)

----------------------------------------------------------------------------
(* Agents (another program).                                               *)

IssuedTo(a) == {o \in DOMAIN ops : ops[o].op.agent = a}

(* A poll is answered with AgentConfigFor.  Operations no longer published *)
(* are forgotten; whether the agent also forgets one it is still carrying  *)
(* out is up to it (lost).                                                 *)
Poll(a, lost) ==
  /\ writer = Nobody
  /\ status[a] = "enrolled"
  /\ lost \subseteq {o \in IssuedTo(a) : ledger[o] = "running"}
  /\ view' = [view EXCEPT ![a] = PublishedTo(a)]
  /\ ledger' = [o \in Ops |->
                  IF /\ o \in IssuedTo(a) \ PublishedTo(a)
                     /\ ledger[o] # "running" \/ o \in lost
                  THEN NoLedger ELSE ledger[o]]
  /\ UNCHANGED <<disk, call, busy, runs, wire, crashes, applied>>

(* Pick up an operation with no ledger entry: the entry, then the work.    *)
Start(o) ==
  /\ \E a \in Agents : o \in view[a]
  /\ ledger[o] = NoLedger
  /\ runs[o] < 2
  /\ ledger' = [ledger EXCEPT ![o] = "running"]
  /\ busy' = busy \cup {o}
  /\ runs' = [runs EXCEPT ![o] = @ + 1]
  /\ UNCHANGED <<disk, call, view, wire, crashes, applied>>

(* Past its deadline, or refused by the agent's own checks: never run.     *)
Decline(o, outcome) ==
  /\ \E a \in Agents : o \in view[a]
  /\ ledger[o] = NoLedger
  /\ outcome \in Failures
  /\ ledger' = [ledger EXCEPT ![o] = outcome]
  /\ UNCHANGED <<disk, call, view, busy, runs, wire, crashes, applied>>

(* The work ends; an agent restarted in the middle of it says "unknown".   *)
EndWork(o, outcome) ==
  /\ o \in busy
  /\ outcome \in Failures \cup {"done"}
  /\ busy' = busy \ {o}
  /\ ledger' = [ledger EXCEPT ![o] = IF @ = "running" THEN outcome ELSE @]
  /\ UNCHANGED <<disk, call, view, runs, wire, crashes, applied>>

(* Every report carries the whole ledger.                                  *)
SendReport(a) ==
  LET known == {o \in IssuedTo(a) : ledger[o] # NoLedger}
  IN  /\ status[a] # "absent"
      /\ known # {}
      /\ Cardinality(wire) < MaxInFlight
      /\ wire' = wire \cup {[from |-> a, results |-> [o \in known |-> ledger[o]],
                             admitted |-> FALSE]}
      /\ UNCHANGED <<disk, call, agent, crashes, applied>>

Work(o) ==
  \/ Start(o)
  \/ \E outcome \in Failures : Decline(o, outcome)
  \/ \E outcome \in Failures \cup {"done"} : EndWork(o, outcome)

Operator ==
  \/ \E o \in Ops, req \in Requests : CreateOperation(o, req)
  \/ \E o \in Ops : CancelOperation(o)
  \/ \E save \in Saves : SetScheduleEntry(save[1], save[2])
  \/ \E save \in Saves : DeleteScheduleEntry(save[1], save[2].vm)
  \/ \E a \in Agents : Enrol(a)
  \/ \E a \in Agents : Revoke(a)

Next ==
  \/ Operator
  \/ \E rep \in wire : AdmitReport(rep) \/ RejectReport(rep) \/ LoseReport(rep) \/ BeginReport(rep)
  \/ \E o \in Ops : ProcessResult(o)
  \/ FinishReport
  \/ Crash
  \/ \E a \in Agents : \E lost \in SUBSET Ops : Poll(a, lost)
  \/ \E a \in Agents : SendReport(a)
  \/ \E o \in Ops : Work(o)

Spec == Init /\ [][Next]_vars

----------------------------------------------------------------------------
(* Fairness.  The UI finishes what it starts; agents keep polling,         *)
(* reporting and working; a report that is sent again and again gets       *)
(* through.  Polls and reports queue for the mutex: Go's hands itself to   *)
(* the longest waiter, so an action enabled whenever the mutex is free is  *)
(* taken again and again (SF).  Operators are under no obligation.         *)

PollAnswered(a)   == \E lost \in SUBSET Ops : Poll(a, lost)
ReportAnswered(a) ==
  \E rep \in wire : rep.from = a /\ (AdmitReport(rep) \/ RejectReport(rep))
ReportTaken(a)    == \E rep \in wire : rep.from = a /\ BeginReport(rep)
CallProceeds      == (\E o \in Ops : ProcessResult(o)) \/ FinishReport

Fairness ==
  /\ WF_vars(CallProceeds)
  /\ \A a \in Agents : /\ SF_vars(PollAnswered(a))
                       /\ SF_vars(SendReport(a))
                       /\ SF_vars(ReportAnswered(a))
                       /\ SF_vars(ReportTaken(a))
  /\ \A o \in Ops : WF_vars(Work(o))

FairSpec == Spec /\ Fairness

----------------------------------------------------------------------------
(* Type correctness of every file, of the call in progress and of the      *)
(* agents' state.                                                          *)
TypeOK ==
  /\ ops \in [DOMAIN ops -> OperationRecord] /\ DOMAIN ops \subseteq Ops
  /\ sched \in [Agents -> SUBSET Entry]
  /\ audit \in [Ops -> {"none", "open"} \cup States]
  /\ status \in [Agents -> Statuses]
  /\ writer \in Agents \cup {Nobody}
  /\ mem \in [DOMAIN mem -> OperationRecord] /\ DOMAIN mem \subseteq Ops
  /\ todo \in [DOMAIN todo -> States] /\ DOMAIN todo \subseteq Ops
  /\ cur \in Ops \cup {NoOp}
  /\ changed \in BOOLEAN
  /\ wire \subseteq Report
  /\ view \in [Agents -> SUBSET Ops]
  /\ ledger \in [Ops -> {NoLedger} \cup States]
  /\ busy \subseteq Ops
  /\ crashes \in 0..MaxCrashes
  /\ runs \in [Ops -> 0..2]
  /\ applied \in [Ops -> {"no", "yes", "either", "stale"}]

(* An operation nobody withdrew and whose outcome is not kept.             *)
InFlight(o) == ~Loaded[o].cancelled /\ Loaded[o].result \notin Outcomes
SameVM(o, p) == Fold(ops[o].op.vm) = Fold(ops[p].op.vm)

(* README "Only one operation per VM may be in flight": however reports,   *)
(* crashes and cancels interleave, two operations for one VM (its name up  *)
(* to case) are never both waiting for an outcome.                         *)
OneInFlightPerVM ==
  \A o, p \in DOMAIN ops : InFlight(o) /\ InFlight(p) /\ SameVM(o, p) => o = p

(* README step 3, "executes it exactly once ever": no sequence of polls,   *)
(* reports, crashes and upgrades hands an operation to an agent that has   *)
(* already carried it out and forgotten it.                                *)
ExecutedAtMostOnce == \A o \in Ops : runs[o] <= 1

(* Two hypervisors work on one VM at once only after an operator cancelled *)
(* one of the operations, or one was lost by the previous build.           *)
RacingWorkNeedsCancel ==
  \A o, p \in busy :
    o # p /\ SameVM(o, p) =>
      \E q \in {o, p} : ops[q].cancelled \/ Loaded[q].result = "unknown"

(* RecordOperationResults and Pending: however reports are repeated, lost  *)
(* and taken out of order, an outcome on record is the one its agent came  *)
(* to, and what an agent carried out and has forgotten is on record,       *)
(* unless it was withdrawn.                                                *)
OutcomeNeverLost ==
  \A o \in DOMAIN ops :
    /\ Terminal(Loaded[o].result) => ledger[o] \in {Loaded[o].result, NoLedger}
    /\ runs[o] >= 1 /\ ledger[o] = NoLedger => ops[o].cancelled \/ Terminal(Loaded[o].result)

(* Un-publishing is the acknowledgement: once an operation is out of its   *)
(* agent's configuration it never comes back into it, because by then the  *)
(* agent may have dropped the ledger entry that guards against a replay.   *)
NeverRepublished ==
  [][\A o \in DOMAIN ops : ~Pending(Loaded[o]) => ~Pending(Loaded'[o])]_vars

(* RecordOperationResults: a success is acknowledged to the agent only     *)
(* after its consequences are in the schedule, whatever fails in between.  *)
ConsequencesBeforeAcknowledgement ==
  \A o \in DOMAIN ops : Loaded[o].result = "done" => applied[o] # "no"

(* README: a successful promotion disables the old source's entry (and a   *)
(* restore pauses it).  Until somebody edits the schedule again, no agent  *)
(* enrolled for that host has an enabled entry for the peer domain, unless *)
(* several were.                                                           *)
PromotionQuietsSource ==
  \A o \in DOMAIN ops :
    /\ Loaded[o].result = "done"
    /\ Loaded[o].op.kind \in {"promote", "restore"}
    /\ applied[o] = "yes"
    => \A a \in AgentsForHost(Loaded[o].op.peerHost) :
         \A e \in EntriesFor(sched, a, PeerVM(Loaded[o].op)) : ~e.enabled

(* moveScheduleEntryLocked: no report's consequences make a replicated VM  *)
(* look like one nobody asked to replicate.  They take an entry from an    *)
(* agent only for an inversion of that very VM, and then an agent of the   *)
(* host it was inverted to has it, under the name it has there, disabled   *)
(* and aimed back.                                                         *)
Turned(op, a, vm) ==
  /\ op.kind = "invert" /\ op.agent = a /\ op.vm = vm
  /\ \E b \in AgentsForHost(op.peerHost) : \E f \in EntriesFor(sched', b, PeerVM(op)) :
       f.target = HostOf[a] /\ ~f.enabled

DirectionNeverLost ==
  [][writer # Nobody =>
       \A a \in Agents : \A e \in sched[a] :
         \/ EntriesFor(sched', a, e.vm) # {}
         \/ cur' \in DOMAIN ops /\ Turned(ops[cur'].op, a, e.vm)]_vars

(* README: after a crash "the whole step simply runs again -- it is        *)
(* idempotent".  Re-running an operation's consequences on the schedule    *)
(* they left changes nothing, when there is one agent they can mean.       *)
RerunIsIdempotent ==
  [][\A o \in Ops : cur = NoOp /\ cur' = o /\ applied[o] = "yes" => sched' = sched]_vars

(* The same with the schedule edited since by somebody else.               *)
RerunKeepsLaterEdits ==
  [][\A o \in Ops : cur = NoOp /\ cur' = o /\ applied[o] = "stale" => sched' = sched]_vars

(* The audit entry of an operation closes with an outcome and with the one *)
(* its record keeps; "running" is a verdict only the previous build wrote. *)
AuditTellsTheOutcome ==
  \A o \in DOMAIN ops :
    /\ Loaded[o].result \in Outcomes =>
         audit[o] = Loaded[o].result \/ (audit[o] = "running" /\ Loaded[o].result = "unknown")
    /\ audit[o] = "running" => Loaded[o].result = "unknown"

(* The same machine as OperationLifecycle.                                 *)
PhaseOf(o) ==
  IF o \notin DOMAIN ops THEN "unissued"
  ELSE IF ops[o].cancelled THEN "withdrawn"
  ELSE IF Terminal(Loaded[o].result) THEN "closed"
  ELSE IF Started(Loaded[o]) THEN "running"
  ELSE "published"

Lifecycle == INSTANCE OperationLifecycle WITH
  phase <- [o \in Ops |-> PhaseOf(o)],
  vm <- [o \in Ops |-> IF o \in DOMAIN ops THEN Fold(ops[o].op.vm) ELSE NoVM],
  VMs <- {Fold(v) : v \in VMs}

(* The store implements the lifecycle it promises.                         *)
ImplementsLifecycle == Lifecycle!Spec

----------------------------------------------------------------------------
(* Liveness.                                                               *)

RevokedAgent(o) == status[ops[o].op.agent] = "revoked"

(* A report of o's agent carries a successful inversion towards a host     *)
(* with no enrolled agent, and is refused whole.                           *)
Jammed(o) ==
  \E p \in IssuedTo(ops[o].op.agent) :
    /\ ledger[p] = "done"
    /\ ops[p].op.kind = "invert"
    /\ ops[p].op.peerHost # NoHost
    /\ AgentsForHost(ops[p].op.peerHost) = {}

(* Every operation is answered or withdrawn, unless its agent is revoked   *)
(* or its reports are refused.                                             *)
EveryOperationAnswered ==
  \A o \in Ops :
    (o \in DOMAIN ops /\ InFlight(o)) ~>
      (o \in DOMAIN ops /\ (~InFlight(o) \/ RevokedAgent(o) \/ Jammed(o)))
==============================================================================
