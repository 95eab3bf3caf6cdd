---------------------------- MODULE EstateConfig -----------------------------
(***************************************************************************)
(* The forms through which an admin configures the estate, at work on      *)
(* settings.json, schedules.json, agents.json and audit.json.              *)
(*                                                                         *)
(* A handler of internal/web makes several calls to the store.  Each call  *)
(* is atomic (the store's mutex, one file written), the handler is not:    *)
(* other requests run between its calls, and the process may die there.    *)
(* What a handler read stays in its memory (snap), however old.            *)
(*                                                                         *)
(* A definition that varies the one following it in a single point         *)
(* (FirstStepUnread, FirstStepUnaudited) is a mistake the properties must  *)
(* notice; nothing uses it.                                                *)
(***************************************************************************)
EXTENDS Naturals, FiniteSets, Schedules

CONSTANTS
  Requests,      \* form submissions, each used once
  Agents,        \* enrolled agents
  VMs,           \* domain names
  Names,         \* names of templates
  Default,       \* DefaultTemplateName
  NoTemplate,    \* an entry that names no template
  Limits,        \* values of the estate-wide limits
  ValidLimits,   \* those the settings form accepts
  Intervals,     \* sync intervals
  Forms,         \* what may be submitted
  Settings0,     \* settings.json at the start
  Schedule0,     \* schedules.json at the start
  NoForm, NoSettings,
  MaxCrashes     \* bound: crashes of the UI

(* A verify cadence has two spellings, an interval (every) and a calendar; *)
(* verify says whether a verify mode is named.                             *)
Template == [interval : Intervals, verify : BOOLEAN, every : BOOLEAN, calendar : BOOLEAN]
Entry == [vm : VMs, enabled : BOOLEAN, interval : Intervals, template : Names \cup {NoTemplate},
          verify : BOOLEAN, every : BOOLEAN, calendar : BOOLEAN]
Settings == [limit : Limits, templates : UNION {[N -> Template] : N \in SUBSET Names}]

Form ==
  [kind : {"settings"}, limit : Limits]
    \cup [kind : {"schedule"}, agent : Agents, entry : Entry]
    \cup [kind : {"unschedule"}, agent : Agents, vm : VMs]
    \cup [kind : {"revoke"}, agent : Agents]
    \cup [kind : {"template"}, name : Names, body : Template]
    \cup [kind : {"drop"}, name : Names]

ASSUME EstateOK ==
  /\ Default \in Names /\ NoTemplate \notin Names
  /\ ValidLimits \subseteq Limits
  /\ Forms \subseteq Form /\ NoForm \notin Form
  /\ Settings0 \in Settings /\ NoSettings \notin Settings
  /\ Schedule0 \in [Agents -> SUBSET Entry] /\ OneEntryPerVM(Schedule0)
  /\ MaxCrashes \in Nat

VARIABLES
  settings,  \* settings.json
  sched,     \* schedules.json
  revoked,   \* agents.json: the revoked agents
  audit,     \* audit.json: the entry of each submission
  form,      \* what was submitted
  pc,        \* the call its handler makes next
  snap,      \* the settings postSettings read
  crashes    \* crashes so far

files == <<settings, sched, revoked>>
evars == <<files, audit, form, pc, snap, crashes>>

Steps == {"idle", "read", "agent", "cadence", "audit", "write", "close", "over"}

----------------------------------------------------------------------------
(* Validation.                                                             *)

ValidTemplate(name, t) ==
  /\ ~(t.every /\ t.calendar)
  /\ name = Default /\ (t.every \/ t.calendar) => t.verify

(* The verify mode in force: the entry's own, or that of the template it   *)
(* names, or the default's.                                                *)
ModeInForce(e, templates) ==
  LET name == IF e.template = NoTemplate THEN Default ELSE e.template
  IN  e.verify \/ (name \in DOMAIN templates /\ templates[name].verify)

(* ValidateEntryCadence. *)
ValidEntry(e, templates) ==
  /\ ~(e.every /\ e.calendar)
  /\ e.every \/ e.calendar => ModeInForce(e, templates)

UsedTemplate(name) == \E a \in Agents : \E e \in sched[a] : e.template = name

----------------------------------------------------------------------------
Init ==
  /\ settings = Settings0
  /\ sched = Schedule0
  /\ revoked = {}
  /\ audit = [r \in Requests |-> "none"]
  /\ form = [r \in Requests |-> NoForm]
  /\ pc = [r \in Requests |-> "idle"]
  /\ snap = [r \in Requests |-> NoSettings]
  /\ crashes = 0

FirstStepUnread(kind) ==
  CASE kind = "schedule"               -> "agent"
    [] kind \in {"settings", "unschedule", "revoke"} -> "audit"
    [] kind \in {"template", "drop"}   -> "write"

FirstStepUnaudited(kind) ==
  CASE kind = "settings"               -> "read"
    [] kind = "schedule"               -> "agent"
    [] kind = "revoke"                 -> "audit"
    [] kind \in {"template", "drop", "unschedule"} -> "write"

(* The first call of each handler. *)
FirstStep(kind) ==
  CASE kind = "settings"               -> "read"
    [] kind = "schedule"               -> "agent"
    [] kind \in {"unschedule", "revoke"} -> "audit"
    [] kind \in {"template", "drop"}   -> "write"

Submit(r, f) ==
  /\ pc[r] = "idle"
  /\ form' = [form EXCEPT ![r] = f]
  /\ pc' = [pc EXCEPT ![r] = FirstStep(f.kind)]
  /\ UNCHANGED <<files, audit, snap, crashes>>

At(r, step, kinds) == pc[r] = step /\ form[r].kind \in kinds
GoTo(r, step)      == pc' = [pc EXCEPT ![r] = step]

(* postSettings reads the whole file, then checks what was typed.          *)
ReadSettings(r) ==
  /\ At(r, "read", {"settings"})
  /\ snap' = [snap EXCEPT ![r] = settings]
  /\ GoTo(r, IF form[r].limit \in ValidLimits THEN "audit" ELSE "over")
  /\ UNCHANGED <<files, audit, form, crashes>>

(* postScheduleSave refuses a revoked agent ...                            *)
LookAtAgent(r) ==
  /\ At(r, "agent", {"schedule"})
  /\ GoTo(r, IF form[r].agent \in revoked THEN "over" ELSE "cadence")
  /\ UNCHANGED <<files, audit, form, snap, crashes>>

(* ... and a verify cadence without a verify mode: an interval needs one   *)
(* on the form itself, for a calendar the one in force will do.            *)
CheckCadence(r) ==
  /\ At(r, "cadence", {"schedule"})
  /\ LET e    == form[r].entry
         good == (e.every => e.verify) /\ ValidEntry(e, settings.templates)
     IN  GoTo(r, IF good THEN "audit" ELSE "over")
  /\ UNCHANGED <<files, audit, form, snap, crashes>>

(* AppendAudit: the intent first, except that the template forms come here *)
(* after their change, and are done.                                       *)
AppendAudit(r) ==
  /\ pc[r] = "audit"
  /\ audit' = [audit EXCEPT ![r] = "open"]
  /\ GoTo(r, IF form[r].kind \in {"template", "drop"} THEN "over" ELSE "write")
  /\ UNCHANGED <<files, form, snap, crashes>>

(* SetSettings with what postSettings read, its limits replaced.           *)
SetSettings(r) ==
  /\ At(r, "write", {"settings"})
  /\ settings' = [snap[r] EXCEPT !.limit = form[r].limit]
  /\ GoTo(r, "close")
  /\ UNCHANGED <<sched, revoked, audit, form, snap, crashes>>

SetScheduleEntry(r) ==
  /\ At(r, "write", {"schedule"})
  /\ sched' = SaveEntry(sched, form[r].agent, form[r].entry)
  /\ GoTo(r, "close")
  /\ UNCHANGED <<settings, revoked, audit, form, snap, crashes>>

DeleteScheduleEntry(r) ==
  /\ At(r, "write", {"unschedule"})
  /\ sched' = DropEntry(sched, form[r].agent, form[r].vm)
  /\ GoTo(r, "close")
  /\ UNCHANGED <<settings, revoked, audit, form, snap, crashes>>

Revoke(r) ==
  /\ At(r, "write", {"revoke"})
  /\ revoked' = revoked \cup {form[r].agent}
  /\ GoTo(r, "close")
  /\ UNCHANGED <<settings, sched, audit, form, snap, crashes>>

(* SetTemplate reads and writes under one lock.                            *)
SetTemplate(r) ==
  /\ At(r, "write", {"template"})
  /\ ValidTemplate(form[r].name, form[r].body)
  /\ settings' = [settings EXCEPT !.templates =
                    [n \in DOMAIN @ \cup {form[r].name} |->
                       IF n = form[r].name THEN form[r].body ELSE @[n]]]
  /\ GoTo(r, "audit")
  /\ UNCHANGED <<sched, revoked, audit, form, snap, crashes>>

(* DeleteTemplate: only a template no entry names.                         *)
DeleteTemplate(r) ==
  /\ At(r, "write", {"drop"})
  /\ ~UsedTemplate(form[r].name)
  /\ settings' = [settings EXCEPT !.templates =
                    [n \in DOMAIN @ \ {form[r].name} |-> @[n]]]
  /\ GoTo(r, "audit")
  /\ UNCHANGED <<sched, revoked, audit, form, snap, crashes>>

(* The store refuses a template, or its removal.                           *)
RefuseTemplate(r) ==
  /\ \/ At(r, "write", {"template"}) /\ ~ValidTemplate(form[r].name, form[r].body)
     \/ At(r, "write", {"drop"}) /\ UsedTemplate(form[r].name)
  /\ GoTo(r, "over")
  /\ UNCHANGED <<files, audit, form, snap, crashes>>

CompleteAudit(r) ==
  /\ pc[r] = "close"
  /\ audit' = [audit EXCEPT ![r] = "done"]
  /\ GoTo(r, "over")
  /\ UNCHANGED <<files, form, snap, crashes>>

(* The process dies, and with it every request it was serving.             *)
Crash ==
  /\ crashes < MaxCrashes
  /\ crashes' = crashes + 1
  /\ pc' = [r \in Requests |-> IF pc[r] = "idle" THEN "idle" ELSE "over"]
  /\ UNCHANGED <<files, audit, form, snap>>

Handle(r) ==
  \/ ReadSettings(r)
  \/ LookAtAgent(r)
  \/ CheckCadence(r)
  \/ AppendAudit(r)
  \/ SetSettings(r)
  \/ SetScheduleEntry(r)
  \/ DeleteScheduleEntry(r)
  \/ Revoke(r)
  \/ SetTemplate(r)
  \/ DeleteTemplate(r)
  \/ RefuseTemplate(r)
  \/ CompleteAudit(r)

Next ==
  \/ \E r \in Requests, f \in Forms : Submit(r, f)
  \/ \E r \in Requests : Handle(r)
  \/ Crash

Spec == Init /\ [][Next]_evars

----------------------------------------------------------------------------
(* Type correctness of the files and of the requests in progress.          *)
TypeOK ==
  /\ settings \in Settings
  /\ sched \in [Agents -> SUBSET Entry]
  /\ revoked \subseteq Agents
  /\ audit \in [Requests -> {"none", "open", "done"}]
  /\ form \in [Requests -> Form \cup {NoForm}]
  /\ pc \in [Requests -> Steps]
  /\ snap \in [Requests -> Settings \cup {NoSettings}]
  /\ crashes \in 0..MaxCrashes
  /\ \A r \in Requests : pc[r] \notin {"idle", "over"} => form[r] # NoForm
  /\ \A r \in Requests : At(r, "write", {"settings"}) => snap[r] # NoSettings

InProgress(r, kinds) == audit[r] = "open" /\ audit'[r] = "open" /\ form[r].kind \in kinds

(* AuditEntry, "written before the action and updated after": whatever     *)
(* requests overlap and wherever the process dies, the schedule, the       *)
(* agents and the estate defaults change only while the audit entry of a   *)
(* form that asks for that change is open.                                 *)
EveryChangeIsAudited ==
  [][/\ settings'.limit # settings.limit =>
          \E r \in Requests : InProgress(r, {"settings"}) /\ settings'.limit = form[r].limit
     /\ \A a \in Agents : sched'[a] # sched[a] =>
          \E r \in Requests : InProgress(r, {"schedule", "unschedule"}) /\ form[r].agent = a
     /\ \A a \in revoked' \ revoked :
          \E r \in Requests : InProgress(r, {"revoke"}) /\ form[r].agent = a]_evars

(* SetTemplate's comment: a template and the estate defaults share a file, *)
(* and neither save drops the other.  A template changes or goes only by a *)
(* form about that template.                                               *)
TemplatesOutliveOtherForms ==
  [][\A n \in DOMAIN settings.templates :
       \/ n \in DOMAIN settings'.templates /\ settings'.templates[n] = settings.templates[n]
       \/ \E r \in Requests :
            At(r, "write", {"template", "drop"}) /\ form[r].name = n]_evars
==============================================================================
