# Verification of vmsync-ui

vmsync-ui is the console of a fleet of hypervisors that replicate virtual
machines to each other. It is one process with a directory of JSON files. It
cannot reach a hypervisor: agents connect to it, long-poll a configuration
document and post reports. This directory holds TLA+ models of that process,
the TLC runs that check them on small instances, and proofs of their main
properties for every instance.

## 1. The system

| part | state | operations | works with |
|---|---|---|---|
| store (`internal/store/store.go`) | one JSON file per concern: `agents`, `enrolment-tokens`, `reports/*`, `settings`, `schedules`, `audit`, `operations`; one mutex | every read and write of these; each write replaces ONE file atomically | called by every handler |
| operations (`internal/store/operations.go`) | `operations.json` | create, cancel, publish, record results, apply what follows, heal old records | schedules, audit, agents |
| agent API (`internal/api/agents.go`) | none | enrol, report, long-poll configuration | agents, store |
| forms (`internal/web/handlers.go`) | requests in progress | schedule, templates, estate defaults, operations, cancel, tokens, revocation | browsers, store |
| failover rules (`internal/web/failover.go`) | none: functions of a snapshot | which operation a row offers, what needs a decision | forms, pages |
| dashboard and schedule views (`view.go`, `schedule.go`) | none | pairing of domains with replicas, statuses | pages |
| sessions (`internal/auth/auth.go`) | sessions in memory | sign in and out, expiry, CSRF | forms |
| agents (`vmsync-agent`, another program) | durable ledger of operations, last configuration | poll, execute, report | agent API |

How they interact: an operator's form makes several calls to the store, each
atomic under the mutex, with other requests in between. A change reaches an
agent inside the document it long-polls. A report brings back the results of
operations, which the store follows through in `schedules.json` and
`audit.json` before it records them in `operations.json`: three files, three
writes, and a crash possible between any two.

What is hard: reports are repeated, lost, delayed and overtaken; an operation
is acknowledged by *not* being published any more; consequences and
acknowledgement live in different files; what a handler read may be old when
it writes; a revoked agent's work goes on; two hosts may use one VM name.

What makes each part correct:

- *operations*: at most one in flight per VM; carried out at most once; never
  published again after it was withdrawn or closed; closed only after its
  consequences are in the schedule; answered in the end; its audit entry tells
  its outcome; its consequences neither lose a schedule entry nor leave a
  superseded source enabled.
- *forms*: every change is bracketed by its audit entry; no form undoes
  another's change.
- *configuration*: every change reaches every agent; nothing changes for an
  agent when nothing was edited; revocation cuts an agent off.
- *enrolment*: a token enrols one agent, once.
- *failover rules*: no operation is offered that could overwrite a live VM;
  a row that needs a decision says so.
- *views*: two live copies are told, whoever was revoked, and only on current
  word; no replica is called missing that somebody reports, or gone on old word.
- *sessions*: a form acts for the admin its page was drawn for or not at all;
  a sign-in that is over has no effect any more.

## 2. Modules

| module | models | source |
|---|---|---|
| `Schedules` | the rewrites of `schedules.json` as operators on a table | `store.go` SetScheduleEntry, DeleteScheduleEntry, setScheduleEnabledLocked, moveScheduleEntryLocked |
| `OperationLifecycle` | abstract: what the console promises about operations | the README of the repository, "Operations" |
| `Operations` | operations from issue to outcome: forms, polls, reports, agents, crashes | `operations.go`, report path of `agents.go` |
| `MCOperations` | instances of `Operations` for TLC | |
| `MCReenrolled` | the same pair with one host enrolled a second time | |
| `OperationsProofs`, `ConsequencesProofs`, `OutcomeProofs` | theorems about `Operations` | |
| `EstateConfig` | the schedule, template, settings and revocation forms, call by call | `handlers.go`, `store.go` |
| `ConfigPoll` | `EstateConfig` composed with the agents' long polls | `store.go` AgentConfigFor, `agents.go` handleConfig |
| `MCConfigPoll` | instances of both for TLC | |
| `ConfigProofs` | theorems about `EstateConfig` and `ConfigPoll` | |
| `Enrolment` | abstract: what the console promises about tokens, identities and reports | EnrolmentToken, withAgent |
| `AgentRegistry` | tokens, enrolment, authentication, reports on file and the reads of a page | `store.go` CreateEnrolmentToken, Enrol, Authenticate, Revoke, SaveReport; `handlers.go` postEnrolmentToken, loadFleet |
| `MCAgentRegistry` | instances of it for TLC | |
| `RegistryProofs` | theorems about `AgentRegistry` | |
| `Fleet` | what the pages know of the fleet: reports, agents revoked or not heard from, the order they were read in | `store.go` Report, ReportDomain; `handlers.go` loadFleet |
| `FailoverRules` | what a row of the failover page permits and says, as operators on a fleet | `failover.go` BuildFailoverView, pickPromotedTarget, the Can… methods, rankRow |
| `DashboardRules` | which rows the dashboard draws and what they say of a pair | `view.go` BuildDashboard, Pair |
| `FleetPages` | composes the two: both pages and the failover form, on a fleet that goes on reporting | `handlers.go` loadFleet, getDashboard, getFailover, postFailoverOperation, refuseIneligible |
| `MCFleetPages` | instances of it for TLC | |
| `FailoverProofs`, `DashboardProofs` | theorems about `FleetPages` | |
| `SignIns` | abstract: what signing in promises, without cookies, pages, table and clock | `auth.go`, requireUser |
| `Sessions` | sign-ins, cookies, open pages and the checks before every handler | `auth.go`; `handlers.go` requireUser, requireAdmin, postLogin, postLogout |
| `MCSessions` | an instance of it for TLC | |
| `SessionsProofs` | theorems about `Sessions` | |

### Operations

State. `ops`, `sched`, `audit` and `status` are files. `writer`, `mem`,
`todo`, `cur` and `changed` are the locals of the one call that writes more
than one file, RecordOperationResults: whose report it is, its copy of
`operations.json`, the results still to do, the result whose consequences are
applied and not yet noted, and its flag. `writer # Nobody` is the mutex being
held. `wire` holds reports on their way. `view`, `ledger` and `busy` belong to
the agents. `runs` and `applied` are history for the properties; `applied` of
an operation is "either" when its consequences ran for one of several agents
of a host (`Ran`).

Actions. Every store operation but RecordOperationResults writes one file and
is one step, taken while the mutex is free. RecordOperationResults is cut
where the code writes: BeginReport (lock and load), per result SkipResult,
NoteProgress, ApplyFollowUp (writes `schedules.json`), RecordOutcome (writes
`audit.json`), FollowUpError (drops the call and all it had noted), and
FinishReport (writes `operations.json` if anything changed). Results are taken
in any order. Crash ends the call and the requests in hand wherever they are.
The handler's AppendAudit and CreateOperation are one action, since the entry
is of no use without the operation.

`Heal` is applied by `Load` at every read, as loadOperations does, so a record
on disk may be one the previous build left (`MaxLegacy` of them at the start).
agentIDForHostLocked takes the first of several enrolled agents of a host, in
an order the sort does not fix: `AgentsForHost` lets it be any. Names are
compared with `Fold` where the code uses EqualFold (the in-flight gate) and
exactly where it does not (schedules). singleDiskDirLocked is the constant
`DiskDir`, since reports' inventories do not change here.

The agent is external and modelled from what the store relies on: it writes
its ledger before it acts, reports the whole ledger, and forgets an entry when
the operation is no longer published to it. It may start an operation it saw
in an old configuration, after a cancel. Passing a deadline is one of the
outcomes it may decline with. `runs[o] < 2` in Start bounds a history counter,
and stands in the way of nothing the properties speak of (a second run is
already the violation).

### EstateConfig and ConfigPoll

A submission `r` has a form, and `pc[r]` names the store call its handler
makes next; `snap[r]` is what postSettings read. The order of the calls is the
handler's: the schedule form looks at the agent, then at the templates, then
appends to the audit log, writes and completes the entry; the template forms
write first and append afterwards. Validation of one form's text by itself
(numbers, profiles, presets) is left out; validation against stored state is
there, as is the refusal of estate limits out of range.

`Documents(a)` is the set of documents AgentConfigFor may build now. It has
several members exactly when two agents schedule a VM of one name at different
intervals, because the code fills the cadence map while it ranges over a Go
map. `ETag` stands for a digest of the content, with collisions left out. A
waiting poll looks at the files again and again; AnswerPoll is the look that
finds a document the agent does not hold, TimeoutPoll the last look, which
finds the known one. Operations ride in the same document and are left to
`Operations`, whose Poll is the same request seen from that side.

### AgentRegistry

`enrolling` and `saving` are the two calls that write two files under one hold
of the mutex (`Free`), cut between the writes: Enrol/SpendToken, and
SaveReport/StampAgent. SecondWriteFails is the disk refusing the second one,
and Crash ends whatever runs. The audit calls and the minting of a token are
three calls of one handler. An agent's bearer is its id; the host that enrolled
holds it once the answer arrives, if it does. A token's host is compared up to
case (`Fold`), and every refusal, being one error without effect, is left out.

Reports of an agent are numbered in the order they are saved; `reports[i]` is
the one on file and `agents[i].seen` the one that set LastSeenAt, which is how
a time is abstracted to what the pages compare it with. loadFleet is LoadAgents
and then LoadReport for each agent it read, one call each. `via` and `answered`
are history.

`Promise` maps all of this to `Enrolment`. A token's stage is read off its
record, its use and the call that has it in hand (`StageOf`): it is spent by the
second write, and a call that dies before it gives the token back. Identities
are those given away (`answered`), so the records of calls that died are in no
abstract state. An authenticated report is let in, and word is taken from it
when it is on file.

### Fleet, FailoverRules, DashboardRules and FleetPages

A domain is a pair of a host and a name, as references name it. An agent's
report maps names to what `ReportDomain` says of them, as far as a rule reads
it. A host that is enrolled again has several agents. What a page makes of
them depends on the order it reads them in, which the sort by host name leaves
open: `place` is that order, and `LastOf` who has the last word. The failover
page drops revoked agents first; the dashboard keeps them, and lets an
enrolled one outrank them in any order (`Witness`).

`Row` is BuildFailoverView's row of one domain: itself and its peer, which for
a source is the target `PickPromotedTarget` chooses. Each `Can…` operator is
the method of that name. `Pair` is BuildDashboard's row of a replica, and
`MissingTarget` its row of a target nobody reports. Names on one host are taken
to differ by more than case, so that EqualFold finds one row.

Age has two forms in the code: `silent` compares LastSeenAt when the agents
are read, `old` the age of a report when that is read. Both follow from one
set of agents not heard from lately, since LastSeenAt is set where a report is
saved. That a report ages past staleAfter between two reads of one call counts
as a change during it; that it does so between reading and drawing does not
occur (a call takes far less than five minutes).

`call` is a request: what it is for, and `fleet`, what loadFleet has read so
far, agent by agent, while reports, silences and revocations arrive in
between. A form may come at any time with any content; that is how a page drawn
long ago, a second click and a form sent by hand are covered. `since` and
`heard` are history: the reports on file at any time since the call came, and
the agents not silent at some time since. The properties speak of what was true
*all along* the call (`AllAlong`, `SaidBy`), which is the most a reader without
a common snapshot can promise. An answered call is kept until Finish so that
the properties can look at it; what becomes of the operation is in `Operations`.

### Sessions

A browser has one cookie (`jar`) and any number of pages open (`tabs`), which
outlive it: the session behind a page may expire, be signed out in another tab
or be forgotten by a restart, and somebody else may sign in. A request is sent
with the cookie the browser has then; Require is requireUser or requireAdmin
(expired sessions are dropped where they are looked up), Act the handler
behind it, which runs later. Replies arrive late, in another order or never.
A CSRF token is named by the session it was made with. Comparing passwords is
an outcome (`right`). A restart empties the sessions and may find other
accounts in the configuration file; browsers keep their cookies and pages.
`born`, `ended` and `late` are history.

`Promise` maps all of this to `SignIns`: a sign-in is over when it has expired,
was signed out or the process forgot it, whether it is still in the table or
not, and a request counts from when it has passed its checks to its reply. Every
browser's doing stutters.

### Definitions no specification uses

Beside some definitions stands a variant (`HealNothing` before `Heal`,
`StartPollUnchecked` before `StartPoll`) that makes one plausible mistake. It
replaces the original in a copy of the model to see that the property meant to
notice it does (`mutants` in PROJECT.json).

## 3. Runs

Model values stand for ids, names and hosts. Two agents, `prod` and `dr`, are
the two ends of a replicated pair.

| run | shows | bounds |
|---|---|---|
| `ops_protocol` | type correctness, one operation in flight per VM, executed once, work on one VM races only after a cancel, never published again, no outcome lost or rewritten, OperationLifecycle implemented | 2 operations for one VM spelt in two cases, 2 agents, 2 reports in flight, 1 record of the previous build |
| `ops_consequences` | consequences come before the acknowledgement, promotions quiet the old source, the audit log agrees, no schedule entry is lost, rerunning consequences changes nothing | 2 operations out of promote, invert and reinit, ends named differently, the source's host enrolled a second time, before or after its first agent is revoked, 1 crash anywhere, edits in between |
| `ops_liveness` | every operation is answered, unless its agent is revoked or its reports are refused | 1 operation, 2 reports in flight, 1 crash, 1 revocation, under fairness |
| `ops_rerun` | **violation**: consequences run again after a crash undo an operator's later edit | 1 operation, 1 crash |
| `config_delivery` | every change audited while it happens, delivered in the end, and not to revoked agents | any 2 of 8 forms at once, 1 crash, 2 agents polling, under fairness |
| `template_lost` | **violation**: a settings form drops a template saved meanwhile | 2 forms |
| `registry` | a token gives one identity away and makes few records; its trail resolves; pages date no report later than it is; Enrolment implemented | 2 tokens for one host spelt in two cases, another host, 2 agents, 2 reports each, 1 crash or refused write anywhere |
| `token_reused` | **violation**: a token enrols a second agent | 1 token, 2 agents, 1 crash |
| `polls_flap` | **violation**: agents are woken for ever with nothing edited | no forms, 2 agents, under fairness |
| `failover` | nothing is issued that overwrites, gives away or stops a copy known to hold live data; Invert and split brain are there when they must be; both pages alarm whoever was revoked, only on current word, and agree | a source with two replicas, each in three to five of the states a failover, fence, inversion or role set by hand leaves it in (`MCFleetPages` lists them), the source's host enrolled again or not, its two agents read in either order, 2 changes during a call, 1 agent revoked or silent, a role change typed and not |
| `fan_out_served` | **violation**: a full resync is issued from a source one of whose targets has served live | the same fleet, nothing changing |
| `sessions` | a form acts for the admin its page was drawn for or not at all; what is over is over; SignIns implemented | 2 people at 1 browser, 2 requests at once, 2 sign-ins that last 1 tick of 2, 1 restart, 2 configurations |

Why the bounds are enough. Everything the properties of operations compare is a
pair (two operations, an operation and a record, an edit and a rerun), and two
operations with two reports give every order of a pair of outcomes. Of the
failover page a row reads two hosts, and a fan-out of two targets has every
order of a copy that counts and one that does not; one change before and one
after a read make the mixture of old and new that the properties fear; a second
agent of one host is all it takes for the order of reading to matter. A form can
disagree with at most one other sign-in, so two of them, one after or beside the
other, are enough. A second crash repeats the first: it leaves files and the
agents' ledgers, which is where the first left off. More operations multiply
independent records. The theorems of section 5 do not depend on any bound.

Three cases rest on the theorems alone: that the failover page alarms only on
current word (no promoted running replica falls silent in `failover`), the
exception of `InvertOffered`, and the audit log under two reports in flight
(`ops_consequences` has one).

`ops_protocol` and `ops_liveness` say CHECK_DEADLOCK FALSE because ids,
crashes and forms are used up and every operation may be closed: the system
then rests. So do the other runs, whose forms, tokens or sign-ins are used up.

`Symmetry` permutes operation ids, or submissions, where a run has no temporal
property other than box-action ones.

## 4. Fairness

Operators and admins are under no obligation. The UI finishes a call it has
begun (weak fairness on the call), unless it crashes, which is bounded. Agents
go on polling, reporting and working; the network loses reports but not for
ever. Polls and reports queue for a `sync.Mutex`, which hands itself to its
longest waiter once one has waited a millisecond, so an action that is enabled
whenever the mutex is free is taken again and again: strong fairness on them,
per agent. `ConfigPoll` needs weak fairness on starting a poll and on its
deadline, and strong fairness on answering: a poll can be lost any number of
times, not always. Revoked agents owe nothing: RefusePoll has no fairness.

## 5. Proofs

`tlapm` checks every theorem down to its leaves. Assumptions are
`ConstantsOK` (in `Operations`), `EstateOK` (in `EstateConfig`), `DocumentOK`
(in `ConfigPoll`), `RegistryOK` and `NoCallOK` (in `AgentRegistry`), `FleetOK`
(in `Fleet`), `PagesOK` (in `FleetPages`), `SessionsOK` and `NoRequestOK` (in
`Sessions`), which say what kind of thing each constant is; TLC evaluates them in the runs.
`FleetOK` says in addition that no domain is both a replica and a source of
others (failover.go takes such a row for a replica; a comment in
failover_test.go speaks of a chain of three, another says the engine refuses
one), and `PagesOK` that no two agents are read at once.

*OperationsProofs.*
`TypeCorrect`: TypeOK is inductive except that RecordOutcome needs the result
it is at to be in the report: `CurOK` is added. `SafeInv` adds what the safety
theorems need: `RecordsOK` (every record a reader sees is `Settled`:
FollowUpDone is set exactly when its outcome is kept) and `CallOK` (so is every
record of the call's copy but the one in hand, and what is finished on disk is
untouched in it). `Grows` is what every step then keeps: no record is lost, and
what was asked, withdrawn, started or finished stays so.
From it come
`Unpublished` (an acknowledged operation is never published again) and
`OnePerVM`, whose only interesting step is CreateOperation.
`Once` (an operation is carried out at most once) needs `OnceInv`: an
operation that an agent has carried out is in its ledger as long as it is
published, so the agent forgets it only when it can no longer be handed it, and
by `Unpublished` never will. It covers old views, cancels that lose a race and
records of the previous build.
`Implementation`: the phases of the records refine OperationLifecycle. A
FinishReport may move several operations, and is one Advance; every step inside
a call stutters, which is where the copy in memory matters.

*ConsequencesProofs.* `ConsequencesFirst` (with `AppliedInv`: whatever is done
on disk or in the copy has had its consequences, and `cur` is between the
two), `DirectionKept` (who writes the schedule, what each rewrite keeps, and that
only an inversion of the VM itself takes its entry elsewhere)
and `AuditTrue` (with `AuditInv`: the entry of every record that is finished,
on disk or in the call's copy, is closed with the record's outcome; the audit
write comes first, so a call that dies leaves at most an entry closed before
its record).

*ConfigProofs.* `TypeCorrect`, `Audited` and `RevocationCutsOff` for the
composition. The invariant `EInv` says that a handler about to write has
opened its audit entry, and that postSettings has read; `PInv` that a revoked
agent with its one late answer has no poll waiting.
Two theorems say that the causes given in section 6 are the whole of it.
`OnlyOneWindow`: where no template is saved or deleted between postSettings'
reading and its writing (`NoneInBetween`, an assumption about the steps),
templates change by forms of their own only; the invariant is `Fresh`, what a
form half way has read is what is stored. `AgreementQuiets`: while the agents
that schedule a VM of one name agree on its interval, an agent that holds what
it should is told nothing else, since it has one document (`OneDocument`).

*RegistryProofs.* `OneIdentity` and `Trail` from `TInv`: a token that is on
disk was minted for its host by a request that has opened its audit entry; an
identity given away is the one its token names; and between Enrol's two writes
the token is still unspent, which is why a call that dies there gives nothing
away. `UsesBounded` counts: a token that is neither spent nor being spent
(`Taken`) has made no more records than there were failures. `SeenHonest` from
`SInv`: reports only grow newer, LastSeenAt follows them, and a page reads
agents first.
`Implementation`: every step is a step of `Enrolment` or a stutter, by one lemma
for each action of `Enrolment`. The interesting ones are that the second write
finds its token still open and its identity not given away (`TInv`), and that a
crash gives up a token and the reports in hand at once.

*OutcomeProofs.* `RacesAreExplained` from `ToldInv`: an agent never has two
outcomes of one operation to tell, and nothing the console holds on to is
picked up again. `RerunIsHarmless` and `SourceIsQuiet` from `RerunInv`, which
joins the invariants above with one schedule entry per VM and with what a call
has applied. agentIDForHostLocked finds one of the agents of a host: with
several enrolled at once a promotion disables the entry of one and a rerun may
find another, so neither can be promised then, and the history calls these
consequences "either". What is proved covers a host whose earlier agent was
revoked before the consequences ran, and revocations after they did; an
enrolment after them ends the promise, like an edit ("stale").
`OutcomesKept`: an outcome on record is the one its agent came to, and an agent
forgets only what is on record or withdrawn. The first half is `ToldInv`, where
a record counts as having been told; the second is `OnceInv`, by which an
operation that ran and is no longer in the ledger is not published any more.

*FailoverProofs* and *DashboardProofs.* All properties of the run `failover`,
for any fleet. The invariant is `ReadSince` (what a call has read was on file
since it came), `HeardSince` (an agent that is not silent was heard from since)
and `Judged` (what was answered was judged on all of it). The rest is about the
rules: who speaks for a domain among several agents (`Speaker`, `Witness`: the
last of a set, which an order of the agents always has), and which of several
targets a source's row is about (`Picked`: promoted if any target is, and else
one that has served and is no source if any such is). The code's loops over the
targets are "the least index such that", whence `LeastIn`, from the
well-foundedness of the order of the naturals. `PagesTellTheSame` relates the
two joins, on one and the same fleet.

*SessionsProofs.* The properties of the run, and `OnlyAdminsChange`, which
`SignIns` promises as well, from `SessionsInv`: a session says of its
user what the running process was configured with; a token that is over is no
session that is live; and a request that has passed its checks did so with a
session that was live, made for the person it acts as (`Sound`).
`Implementation`: every step is a step of `SignIns` or a stutter. Most steps
move stages no request is let in by (`OnlyStageMoves`); requireUser is where a
request comes in, and needs that the session it finds is not over.

Only model-checked: the liveness properties EveryOperationAnswered and
ChangesReachAgents, which are out of the prover's reach because they rest on
fairness and ENABLED.

## 6. What the violations say

- *ops_rerun.* `FollowUpDone` is written in the same write as the result, so
  it does not prevent what its comment says it prevents. Rerunning is harmless
  only while nobody edits the entry in between.
- *template_lost.* The settings form is a read-modify-write in a handler, the
  thing SetTemplate's comment avoids. `OnlyOneWindow` proves that nothing else
  loses a template.
- *token_reused.* Enrol writes the agent first and spends the token after. A
  token left unspent enrols another record; the first stays enrolled, never
  polls, and may be taken for its host's agent (agentIDForHostLocked).
- *polls_flap.* The cadence map depends on Go's iteration order. An entry of a
  revoked agent is enough: it is never removed, and the host enrolled again
  gets an entry of its own. `AgreementQuiets` proves that nothing else does it.
- *fan_out_served.* pickPromotedTarget passes over a target whose role is
  `source`, so a promoted copy that was given that role by hand, and never
  inverted, loses its row to the first target. The resync gate then asks the
  wrong copy. What the page still promises is ResyncSparesServed.

Seen while modelling, and not a run of its own:

- a running operation can be closed by its agent alone: revoking that agent
  leaves the VM without operations for good (the exception
  EveryOperationAnswered states);
- while two agents are enrolled for one host, consequences that run again after
  a crash may disable or move the entry of the other one (`operations.go:656`);
- a target that served and has no role takes the source's row and is offered no
  Invert, which asks for one of three roles (`InvertOffered` states it; the run's
  fleet has no such target, the theorem covers it);
- template forms write first and append to the audit log afterwards, so a crash
  between leaves a change without an entry (`handlers.go` calls the order
  deliberate);
- a promoted copy given the role `source` is offered no Invert from the other
  row, which the README of the repository recommends;
- the failover page drops revoked agents, so a source whose promoted peer's
  agent is revoked is offered a resync; the engine's own refusal is the guard;
- of two promoted targets the first listed is the row's peer even if only the
  second runs;
- names are compared in three ways: refuseIneligible looks a VM up by
  EqualFold, `covered` (MissingTargets) compares exactly, references fold the
  case of hosts alone;
- a source scheduled by a default template alone has no entry for a promotion
  to disable (`store.go:1113`);
- signing in twice leaves the first session without a browser that could sign
  it out, and an expired session nobody presents again stays in memory.

## 7. Not modelled

Errors of the disk other than between the two writes of one call (an audit
entry that cannot be closed is one: the code carries on); hash collisions;
wording, parsing and layout; the clock, other than a session's expiry, as a
deadline that may have passed at any time; roles of accounts spelt in another
case than the code compares (they fail closed); TLS, configuration files and
start-up; range checks on a form's text. Of an inventory only what the rules
of the two pages read is modelled: rows explain more than they permit (fence
wording, verification and rebuild markers, storage, figures), and that is left
out, as are the schedule page's rows and statuses and the list of recent runs,
which no control depends on. `Operations` leaves out SaveReport, which precedes
RecordOperationResults in the same request; the two meet in no state but the
agent.

## 8. Plan

Done: the modules above. In order of what is left:

1. The schedule page: which agent's entry a domain's row shows, and the
   statuses it derives from the last sync result, on the fleet of `FleetPages`.
2. Entries against templates: the verify cadence checked once when an entry is
   saved, and a template changed or deleted between the check and the write
   (`store.go:1648`, `store.go:1671`; `EstateConfig` reaches both).

New modules join the instances of the runs there are, or take the place of a
violation that is settled.
