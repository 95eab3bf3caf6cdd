---------------------------- MODULE ConfigProofs -----------------------------
(***************************************************************************)
(* Proofs about EstateConfig and ConfigPoll for any number of requests,    *)
(* agents, VMs, templates and crashes.                                     *)
(***************************************************************************)
EXTENDS ConfigPoll, TLAPS

----------------------------------------------------------------------------
(* Forms and tables.                                                       *)

Kinds == {"settings", "schedule", "unschedule", "revoke", "template", "drop"}

(* What each kind of form carries.                                         *)
LEMMA FormType ==
  ASSUME NEW f \in Form
  PROVE  /\ f.kind \in Kinds
         /\ f.kind = "settings" => f.limit \in Limits
         /\ f.kind = "schedule" => f.agent \in Agents /\ f.entry \in Entry
         /\ f.kind = "unschedule" => f.agent \in Agents /\ f.vm \in VMs
         /\ f.kind = "revoke" => f.agent \in Agents
         /\ f.kind = "template" => f.name \in Names /\ f.body \in Template
         /\ f.kind = "drop" => f.name \in Names
BY DEF Form, Kinds

(* Each handler begins with a call of its own.                             *)
LEMMA FirstStepType ==
  ASSUME NEW k \in Kinds
  PROVE  /\ FirstStep(k) \in {"read", "agent", "audit", "write"}
         /\ k = "settings" => FirstStep(k) = "read"
         /\ FirstStep(k) = "write" => k \in {"template", "drop"}
BY DEF Kinds, FirstStep

(* SetScheduleEntry and DeleteScheduleEntry write tables.                  *)
LEMMA TableType ==
  ASSUME NEW t \in [Agents -> SUBSET Entry], NEW a \in Agents, NEW e \in Entry, NEW v
  PROVE  /\ SaveEntry(t, a, e) \in [Agents -> SUBSET Entry]
         /\ DropEntry(t, a, v) \in [Agents -> SUBSET Entry]
BY DEF SaveEntry, DropEntry

(* settings.json after SetTemplate.                                        *)
LEMMA TemplatesType ==
  ASSUME NEW s \in Settings, NEW n \in Names, NEW t \in Template
  PROVE  [s EXCEPT !.templates =
            [m \in DOMAIN @ \cup {n} |-> IF m = n THEN t ELSE @[m]]] \in Settings
<1> DEFINE T == s.templates
<1>1. PICK N \in SUBSET Names : T \in [N -> Template]
  BY DEF Settings
<1>2. [m \in DOMAIN T \cup {n} |-> IF m = n THEN t ELSE T[m]] \in [N \cup {n} -> Template]
  BY <1>1
<1>3. N \cup {n} \in SUBSET Names
  OBVIOUS
<1>4. [m \in DOMAIN T \cup {n} |-> IF m = n THEN t ELSE T[m]]
        \in UNION {[M -> Template] : M \in SUBSET Names}
  BY <1>2, <1>3
<1>5. QED
  BY <1>4 DEF Settings

(* settings.json after DeleteTemplate.                                     *)
LEMMA DropType ==
  ASSUME NEW s \in Settings, NEW n \in Names
  PROVE  [s EXCEPT !.templates = [m \in DOMAIN @ \ {n} |-> @[m]]] \in Settings
<1> DEFINE T == s.templates
<1>1. PICK N \in SUBSET Names : T \in [N -> Template]
  BY DEF Settings
<1>2. [m \in DOMAIN T \ {n} |-> T[m]] \in [N \ {n} -> Template]
  BY <1>1
<1>3. N \ {n} \in SUBSET Names
  OBVIOUS
<1>4. [m \in DOMAIN T \ {n} |-> T[m]] \in UNION {[M -> Template] : M \in SUBSET Names}
  BY <1>2, <1>3
<1>5. QED
  BY <1>4 DEF Settings

----------------------------------------------------------------------------
(* Requests in progress.  The invariant behind the properties: a handler   *)
(* that is about to write has done what precedes the write.                *)

(* postSettings has settings to write back. *)
HasRead(r) ==
  pc[r] \in {"audit", "write"} /\ form[r].kind = "settings" => snap[r] \in Settings

(* An audit entry is open around every write but those of templates. *)
HasAudited(r) ==
  /\ pc[r] = "write" /\ form[r].kind \notin {"template", "drop"} => audit[r] = "open"
  /\ pc[r] = "close" => audit[r] = "open"

EInv == TypeOK /\ \A r \in Requests : HasRead(r) /\ HasAudited(r)

(* The files found at the start. *)
LEMMA EstateInit == Init => EInv
<1> SUFFICES ASSUME Init PROVE EInv
  OBVIOUS
<1>1. TypeOK
  BY EstateOK DEF Init, TypeOK, Steps, At
<1>2. QED
  BY <1>1 DEF Init, EInv, HasRead, HasAudited

(* A request whose handler moves on leaves the others where they are.      *)
LEMMA Others ==
  ASSUME EInv, NEW r \in Requests,
         \A q \in Requests \ {r} : pc'[q] = pc[q] /\ form'[q] = form[q]
                                     /\ snap'[q] = snap[q] /\ audit'[q] = audit[q]
  PROVE  \A q \in Requests \ {r} :
           /\ HasRead(q)' /\ HasAudited(q)'
           /\ pc'[q] \notin {"idle", "over"} => form'[q] # NoForm
           /\ At(q, "write", {"settings"})' => snap'[q] # NoSettings
BY DEF EInv, TypeOK, HasRead, HasAudited, At

(* An admin submits a form. *)
LEMMA SubmitStep ==
  ASSUME EInv, NEW r \in Requests, NEW f \in Forms, Submit(r, f)
  PROVE  EInv'
<1>1. f \in Form /\ f # NoForm
  BY EstateOK
<1>2. /\ FirstStep(f.kind) \in {"read", "agent", "audit", "write"}
      /\ f.kind = "settings" => FirstStep(f.kind) = "read"
      /\ FirstStep(f.kind) = "write" => f.kind \in {"template", "drop"}
  BY <1>1, FormType, FirstStepType
<1>3. /\ pc' = [pc EXCEPT ![r] = FirstStep(f.kind)]
      /\ form' = [form EXCEPT ![r] = f]
      /\ UNCHANGED <<settings, sched, revoked, audit, snap, crashes>>
  BY DEF Submit, files
<1>4. /\ pc'[r] = FirstStep(f.kind) /\ form'[r] = f
      /\ \A q \in Requests \ {r} : pc'[q] = pc[q] /\ form'[q] = form[q]
                                     /\ snap'[q] = snap[q] /\ audit'[q] = audit[q]
  BY <1>3 DEF EInv, TypeOK
<1>5. HasRead(r)' /\ HasAudited(r)' /\ ~At(r, "write", {"settings"})'
  BY <1>2, <1>4 DEF HasRead, HasAudited, At
<1>6. /\ pc' \in [Requests -> Steps]
      /\ form' \in [Requests -> Form \cup {NoForm}]
  BY <1>1, <1>2, <1>3 DEF EInv, TypeOK, Steps
<1>7. TypeOK'
  BY <1>1, <1>3, <1>4, <1>5, <1>6, Others DEF EInv, TypeOK
<1>8. QED
  BY <1>4, <1>5, <1>7, Others DEF EInv

(* The calls that only read. *)
LEMMA ReadStep ==
  ASSUME EInv, NEW r \in Requests,
         ReadSettings(r) \/ LookAtAgent(r) \/ CheckCadence(r) \/ RefuseTemplate(r)
  PROVE  EInv'
<1>1. PICK s \in {"audit", "over", "cadence"} :
        /\ pc' = [pc EXCEPT ![r] = s]
        /\ \/ s = "audit" /\ form[r].kind = "settings" /\ snap' = [snap EXCEPT ![r] = settings]
           \/ s # "audit" /\ snap' = [snap EXCEPT ![r] = settings]
           \/ form[r].kind # "settings" /\ UNCHANGED snap
        /\ pc[r] \notin {"idle", "over"}
        /\ UNCHANGED <<settings, sched, revoked, audit, form, crashes>>
  <2>1. CASE ReadSettings(r)
    BY <2>1 DEF ReadSettings, At, GoTo, files
  <2>2. CASE LookAtAgent(r)
    BY <2>2 DEF LookAtAgent, At, GoTo, files
  <2>3. CASE CheckCadence(r)
    BY <2>3 DEF CheckCadence, At, GoTo, files
  <2>4. CASE RefuseTemplate(r)
    BY <2>4 DEF RefuseTemplate, At, GoTo, files
  <2>5. QED
    BY <2>1, <2>2, <2>3, <2>4
<1>2. /\ pc'[r] = s /\ form'[r] = form[r] /\ form[r] # NoForm
      /\ s = "audit" /\ form[r].kind = "settings" => snap'[r] \in Settings
      /\ \A q \in Requests \ {r} : pc'[q] = pc[q] /\ form'[q] = form[q]
                                     /\ snap'[q] = snap[q] /\ audit'[q] = audit[q]
  BY <1>1 DEF EInv, TypeOK
<1>3. HasRead(r)' /\ HasAudited(r)' /\ ~At(r, "write", {"settings"})'
  BY <1>1, <1>2 DEF HasRead, HasAudited, At
<1>4. /\ pc' \in [Requests -> Steps]
      /\ snap' \in [Requests -> Settings \cup {NoSettings}]
  BY <1>1 DEF EInv, TypeOK, Steps
<1>5. TypeOK'
  BY <1>1, <1>2, <1>3, <1>4, Others DEF EInv, TypeOK
<1>6. QED
  BY <1>2, <1>3, <1>5, Others DEF EInv

(* The calls that write audit.json. *)
LEMMA AuditLogStep ==
  ASSUME EInv, NEW r \in Requests, AppendAudit(r) \/ CompleteAudit(r)
  PROVE  EInv'
<1>1. PICK s \in {"write", "over"}, x \in {"open", "done"} :
        /\ pc' = [pc EXCEPT ![r] = s]
        /\ audit' = [audit EXCEPT ![r] = x]
        /\ pc[r] \in {"audit", "close"}
        /\ s = "write" => /\ x = "open" /\ pc[r] = "audit"
                          /\ form[r].kind \notin {"template", "drop"}
        /\ UNCHANGED <<settings, sched, revoked, snap, form, crashes>>
  BY DEF AppendAudit, CompleteAudit, GoTo, files
<1>2. /\ pc'[r] = s /\ form'[r] = form[r] /\ form[r] # NoForm /\ snap'[r] = snap[r] /\ audit'[r] = x
      /\ \A q \in Requests \ {r} : pc'[q] = pc[q] /\ form'[q] = form[q]
                                     /\ snap'[q] = snap[q] /\ audit'[q] = audit[q]
  BY <1>1 DEF EInv, TypeOK
<1>3. s = "write" /\ form[r].kind = "settings" => snap[r] \in Settings /\ snap[r] # NoSettings
  BY <1>1, EstateOK DEF EInv, HasRead
<1>4. /\ HasRead(r)' /\ HasAudited(r)'
      /\ At(r, "write", {"settings"})' => snap'[r] # NoSettings
  BY <1>1, <1>2, <1>3 DEF HasRead, HasAudited, At
<1>5. /\ pc' \in [Requests -> Steps]
      /\ audit' \in [Requests -> {"none", "open", "done"}]
  BY <1>1 DEF EInv, TypeOK, Steps
<1>6. TypeOK'
  BY <1>1, <1>2, <1>4, <1>5, Others DEF EInv, TypeOK
<1>7. QED
  BY <1>2, <1>4, <1>6, Others DEF EInv

(* The calls that write one of the other files. *)
LEMMA WriteStep ==
  ASSUME EInv, NEW r \in Requests,
         \/ SetSettings(r) \/ SetScheduleEntry(r) \/ DeleteScheduleEntry(r)
         \/ Revoke(r) \/ SetTemplate(r) \/ DeleteTemplate(r)
  PROVE  EInv'
<1>0. /\ pc[r] = "write" /\ form[r] \in Form
      /\ form[r].kind \in {"template", "drop"} \/ audit[r] = "open"
  <2>1. pc[r] = "write"
    BY DEF SetSettings, SetScheduleEntry, DeleteScheduleEntry, Revoke, SetTemplate,
           DeleteTemplate, At
  <2>2. QED
    BY <2>1 DEF EInv, TypeOK, HasAudited
<1>1. PICK s \in {"close", "audit"} :
        /\ pc' = [pc EXCEPT ![r] = s]
        /\ s = "audit" <=> form[r].kind \in {"template", "drop"}
        /\ UNCHANGED <<audit, form, snap, crashes>>
  <2>1. CASE SetSettings(r)
    BY <2>1 DEF SetSettings, At, GoTo
  <2>2. CASE SetScheduleEntry(r)
    BY <2>2 DEF SetScheduleEntry, At, GoTo
  <2>3. CASE DeleteScheduleEntry(r)
    BY <2>3 DEF DeleteScheduleEntry, At, GoTo
  <2>4. CASE Revoke(r)
    BY <2>4 DEF Revoke, At, GoTo
  <2>5. CASE SetTemplate(r)
    BY <2>5 DEF SetTemplate, At, GoTo
  <2>6. CASE DeleteTemplate(r)
    BY <2>6 DEF DeleteTemplate, At, GoTo
  <2>7. QED
    BY <2>1, <2>2, <2>3, <2>4, <2>5, <2>6
<1>2. /\ settings' \in Settings
      /\ sched' \in [Agents -> SUBSET Entry]
      /\ revoked' \subseteq Agents
  <2>1. CASE SetSettings(r)
    <3>1. snap[r] \in Settings /\ form[r].limit \in Limits
      BY <1>0, <2>1, FormType DEF SetSettings, At, EInv, HasRead
    <3>2. [snap[r] EXCEPT !.limit = form[r].limit] \in Settings
      BY <3>1 DEF Settings
    <3>3. QED
      BY <2>1, <3>2 DEF SetSettings, EInv, TypeOK
  <2>2. CASE SetScheduleEntry(r)
    <3>1. form[r].agent \in Agents /\ form[r].entry \in Entry
      BY <1>0, <2>2, FormType DEF SetScheduleEntry, At
    <3>2. QED
      BY <2>2, <3>1, TableType DEF SetScheduleEntry, EInv, TypeOK
  <2>3. CASE DeleteScheduleEntry(r)
    <3>1. form[r].agent \in Agents
      BY <1>0, <2>3, FormType DEF DeleteScheduleEntry, At
    <3>2. QED
      BY <2>3, <3>1 DEF DeleteScheduleEntry, DropEntry, EInv, TypeOK
  <2>4. CASE Revoke(r)
    <3>1. form[r].agent \in Agents
      BY <1>0, <2>4, FormType DEF Revoke, At
    <3>2. QED
      BY <2>4, <3>1 DEF Revoke, EInv, TypeOK
  <2>5. CASE SetTemplate(r)
    <3>1. form[r].name \in Names /\ form[r].body \in Template
      BY <1>0, <2>5, FormType DEF SetTemplate, At
    <3>2. QED
      BY <2>5, <3>1, TemplatesType DEF SetTemplate, EInv, TypeOK
  <2>6. CASE DeleteTemplate(r)
    <3>1. form[r].name \in Names
      BY <1>0, <2>6, FormType DEF DeleteTemplate, At
    <3>2. QED
      BY <2>6, <3>1, DropType DEF DeleteTemplate, EInv, TypeOK
  <2>7. QED
    BY <2>1, <2>2, <2>3, <2>4, <2>5, <2>6
<1>3. /\ pc'[r] = s /\ form'[r] = form[r] /\ form[r] # NoForm /\ snap'[r] = snap[r]
      /\ audit'[r] = audit[r]
      /\ \A q \in Requests \ {r} : pc'[q] = pc[q] /\ form'[q] = form[q]
                                     /\ snap'[q] = snap[q] /\ audit'[q] = audit[q]
  BY <1>0, <1>1 DEF EInv, TypeOK
<1>4. HasRead(r)' /\ HasAudited(r)' /\ ~At(r, "write", {"settings"})'
  BY <1>0, <1>1, <1>3 DEF HasRead, HasAudited, At
<1>5. pc' \in [Requests -> Steps]
  BY <1>1 DEF EInv, TypeOK, Steps
<1>6. TypeOK'
  BY <1>1, <1>2, <1>3, <1>4, <1>5, Others DEF EInv, TypeOK
<1>7. QED
  BY <1>3, <1>4, <1>6, Others DEF EInv

(* The UI dies. *)
LEMMA CrashStep ==
  ASSUME EInv, Crash
  PROVE  EInv'
<1>1. /\ crashes' \in 0..MaxCrashes
      /\ pc' \in [Requests -> Steps]
      /\ UNCHANGED <<settings, sched, revoked, audit, form, snap>>
      /\ \A q \in Requests : pc'[q] \in {"idle", "over"}
  BY EstateOK DEF Crash, EInv, TypeOK, Steps, files
<1>2. TypeOK'
  BY <1>1 DEF EInv, TypeOK, At
<1>3. QED
  BY <1>1, <1>2 DEF EInv, HasRead, HasAudited

(* Every step of the forms keeps the invariant.                            *)
LEMMA EstateStep ==
  ASSUME EInv, [Next]_evars
  PROVE  EInv'
<1>1. ASSUME NEW r \in Requests, Handle(r)
      PROVE  EInv'
  BY <1>1, ReadStep, AuditLogStep, WriteStep DEF Handle
<1>2. CASE UNCHANGED evars
  BY <1>2 DEF evars, files, EInv, TypeOK, HasRead, HasAudited, At
<1>3. QED
  BY <1>1, <1>2, SubmitStep, CrashStep DEF Next

(* A form's steps in the composition with the polls, and the polls', which *)
(* leave every file alone.                                                 *)
LEMMA EInvariant == PollSpec => []EInv
<1>1. PollInit => EInv
  BY EstateInit DEF PollInit
<1>2. EInv /\ [PollNext]_vars => EInv'
  <2>1. [PollNext]_vars => [Next]_evars
    BY DEF PollNext, vars, PollStep, StartPoll, RefusePoll, AnswerPoll, TimeoutPoll, LosePoll
  <2>2. QED
    BY <2>1, EstateStep
<1>3. QED
  BY <1>1, <1>2, PTL DEF PollSpec

(* Who wrote what: the only calls that change the estate defaults, the     *)
(* schedules or the revoked agents, each with its audit entry open.        *)
LEMMA AuditedStep ==
  ASSUME EInv, [Next]_evars
  PROVE  /\ settings'.limit # settings.limit =>
              \E r \in Requests : InProgress(r, {"settings"}) /\ settings'.limit = form[r].limit
         /\ \A a \in Agents : sched'[a] # sched[a] =>
              \E r \in Requests : InProgress(r, {"schedule", "unschedule"}) /\ form[r].agent = a
         /\ \A a \in revoked' \ revoked :
              \E r \in Requests : InProgress(r, {"revoke"}) /\ form[r].agent = a
<1> DEFINE Audited ==
      /\ settings'.limit # settings.limit =>
           \E r \in Requests : InProgress(r, {"settings"}) /\ settings'.limit = form[r].limit
      /\ \A a \in Agents : sched'[a] # sched[a] =>
           \E r \in Requests : InProgress(r, {"schedule", "unschedule"}) /\ form[r].agent = a
      /\ \A a \in revoked' \ revoked :
           \E r \in Requests : InProgress(r, {"revoke"}) /\ form[r].agent = a
<1>1. ASSUME UNCHANGED files
      PROVE  Audited
  BY <1>1 DEF files
<1>2. ASSUME NEW r \in Requests, pc[r] = "write", form[r].kind \notin {"template", "drop"}
      PROVE  audit[r] = "open"
  BY <1>2 DEF EInv, HasAudited
<1>3. ASSUME NEW r \in Requests, SetSettings(r)
      PROVE  Audited
  <2>1. snap[r] \in Settings /\ form[r].limit \in Limits
    <3>1. form[r] \in Form
      BY <1>3 DEF SetSettings, At, EInv, TypeOK
    <3>2. QED
      BY <1>3, <3>1, FormType DEF SetSettings, At, EInv, HasRead
  <2>2. settings'.limit = form[r].limit
    BY <1>3, <2>1 DEF SetSettings, Settings
  <2>3. InProgress(r, {"settings"})
    BY <1>2, <1>3 DEF SetSettings, At, InProgress
  <2>4. QED
    BY <1>3, <2>2, <2>3 DEF SetSettings
<1>4. ASSUME NEW r \in Requests, SetScheduleEntry(r) \/ DeleteScheduleEntry(r)
      PROVE  Audited
  <2>1. /\ \A a \in Agents : sched'[a] # sched[a] => form[r].agent = a
        /\ UNCHANGED <<settings, revoked>>
    BY <1>4 DEF SetScheduleEntry, DeleteScheduleEntry, SaveEntry, DropEntry, EInv, TypeOK
  <2>2. InProgress(r, {"schedule", "unschedule"})
    BY <1>2, <1>4 DEF SetScheduleEntry, DeleteScheduleEntry, At, InProgress
  <2>3. QED
    BY <2>1, <2>2
<1>5. ASSUME NEW r \in Requests, Revoke(r)
      PROVE  Audited
  <2>1. InProgress(r, {"revoke"})
    BY <1>2, <1>5 DEF Revoke, At, InProgress
  <2>2. QED
    BY <1>5, <2>1 DEF Revoke
<1>6. ASSUME NEW r \in Requests, SetTemplate(r) \/ DeleteTemplate(r)
      PROVE  Audited
  <2>1. settings'.limit = settings.limit
    BY <1>6 DEF SetTemplate, DeleteTemplate, EInv, TypeOK, Settings
  <2>2. QED
    BY <1>6, <2>1 DEF SetTemplate, DeleteTemplate
<1>7. ASSUME NEW r \in Requests, Handle(r)
      PROVE  Audited
  <2>1. CASE \/ ReadSettings(r) \/ LookAtAgent(r) \/ CheckCadence(r)
             \/ AppendAudit(r) \/ RefuseTemplate(r) \/ CompleteAudit(r)
    <3>1. UNCHANGED files
      BY <2>1 DEF ReadSettings, LookAtAgent, CheckCadence, AppendAudit, RefuseTemplate,
                  CompleteAudit
    <3>2. QED
      BY <1>1, <3>1
  <2>2. QED
    BY <1>3, <1>4, <1>5, <1>6, <1>7, <2>1 DEF Handle
<1>8. CASE Crash \/ (\E r \in Requests, f \in Forms : Submit(r, f)) \/ UNCHANGED evars
  <2>1. UNCHANGED files
    BY <1>8 DEF Crash, Submit, evars
  <2>2. QED
    BY <1>1, <2>1
<1>9. QED
  BY <1>7, <1>8 DEF Next

(* The schedule, the agents and the estate defaults change only while the  *)
(* audit entry of a form that asks for the change is open, in any          *)
(* interleaving of any number of requests, polls and crashes.              *)
THEOREM Audited == PollSpec => EveryChangeIsAudited
<1>1. [PollNext]_vars => [Next]_evars
  BY DEF PollNext, vars, PollStep, StartPoll, RefusePoll, AnswerPoll, TimeoutPoll, LosePoll
<1>2. EInv /\ [PollNext]_vars =>
        [/\ settings'.limit # settings.limit =>
              \E r \in Requests : InProgress(r, {"settings"}) /\ settings'.limit = form[r].limit
         /\ \A a \in Agents : sched'[a] # sched[a] =>
              \E r \in Requests : InProgress(r, {"schedule", "unschedule"}) /\ form[r].agent = a
         /\ \A a \in revoked' \ revoked :
              \E r \in Requests : InProgress(r, {"revoke"}) /\ form[r].agent = a]_evars
  BY <1>1, AuditedStep
<1>3. QED
  BY <1>2, EInvariant, PTL DEF PollSpec, EveryChangeIsAudited

----------------------------------------------------------------------------
(* Polls.                                                                  *)

(* An agent not revoked has had no late answer; a revoked one can have its *)
(* one answer only while the poll let in before is still waiting.          *)
PInv ==
  /\ poll \in [Agents -> {"none", "waiting", "refused"}]
  /\ held \in [Agents -> Document \cup {NoDocument}]
  /\ late \in [Agents -> Nat]
  /\ \A a \in Agents :
       /\ a \notin revoked => late[a] = 0
       /\ late[a] <= 1
       /\ late[a] = 1 => poll[a] # "waiting"

(* What AgentConfigFor builds is a document. *)
LEMMA DocumentType ==
  ASSUME EInv, NEW a \in Agents, NEW doc \in Documents(a)
  PROVE  doc \in Document
<1>1. PICK c \in Cadences : doc = [limit |-> settings.limit, templates |-> settings.templates,
                                   schedule |-> sched[a], cadence |-> c]
  BY DEF Documents
<1>2. Scheduled \subseteq Entry
  BY DEF Scheduled, EInv, TypeOK
<1>3. {e.vm : e \in Scheduled} \in SUBSET VMs
  BY <1>2 DEF Entry
<1>4. c \in [{e.vm : e \in Scheduled} -> Intervals]
  BY DEF Cadences
<1>5. c \in UNION {[V -> Intervals] : V \in SUBSET VMs}
  BY <1>3, <1>4
<1>6. settings \in Settings /\ sched[a] \in SUBSET Entry
  BY DEF EInv, TypeOK
<1>7. QED
  BY <1>1, <1>5, <1>6 DEF Document, Settings

(* Revocation is for ever. *)
LEMMA RevokedGrows ==
  ASSUME [Next]_evars
  PROVE  revoked \subseteq revoked'
BY DEF Next, evars, files, Submit, Handle, ReadSettings, LookAtAgent, CheckCadence, AppendAudit,
       SetSettings, SetScheduleEntry, DeleteScheduleEntry, Revoke, SetTemplate, DeleteTemplate,
       RefuseTemplate, CompleteAudit, Crash

(* Every step of the composition keeps the invariant of the polls.         *)
LEMMA PollKeeps ==
  ASSUME EInv, PInv, [PollNext]_vars
  PROVE  PInv'
<1>1. CASE Next /\ UNCHANGED pvars
  BY <1>1, RevokedGrows DEF pvars, PInv
<1>2. CASE UNCHANGED vars
  BY <1>2 DEF vars, evars, files, pvars, PInv
<1>3. ASSUME NEW a \in Agents, StartPoll(a)
      PROVE  PInv'
  BY <1>3 DEF StartPoll, PInv, evars, files
<1>4. ASSUME NEW a \in Agents, RefusePoll(a) \/ TimeoutPoll(a) \/ LosePoll(a)
      PROVE  PInv'
  BY <1>4 DEF RefusePoll, TimeoutPoll, LosePoll, PInv, evars, files
<1>5. ASSUME NEW a \in Agents, NEW doc \in Documents(a), AnswerPoll(a, doc)
      PROVE  PInv'
  <2>1. doc \in Document
    BY DocumentType
  <2>2. late[a] \in Nat /\ poll[a] = "waiting" /\ late[a] <= 1 /\ late[a] # 1
    BY <1>5 DEF AnswerPoll, PInv
  <2>3. late[a] = 0
    BY <2>2
  <2>4. /\ poll' = [poll EXCEPT ![a] = "none"]
        /\ held' = [held EXCEPT ![a] = doc]
        /\ late' = [late EXCEPT ![a] = IF a \in revoked THEN 1 ELSE 0]
        /\ revoked' = revoked
    BY <1>5, <2>3 DEF AnswerPoll, evars, files
  <2>5. /\ poll' \in [Agents -> {"none", "waiting", "refused"}]
        /\ held' \in [Agents -> Document \cup {NoDocument}]
        /\ late' \in [Agents -> Nat]
    BY <2>1, <2>4 DEF PInv
  <2>6. \A b \in Agents :
          /\ b \notin revoked' => late'[b] = 0
          /\ late'[b] <= 1
          /\ late'[b] = 1 => poll'[b] # "waiting"
    BY <2>4 DEF PInv
  <2>7. QED
    BY <2>5, <2>6 DEF PInv
<1>6. QED
  BY <1>1, <1>2, <1>3, <1>4, <1>5 DEF PollNext, PollStep

(* The polls keep their invariant, given that of the forms.                *)
LEMMA PInvariant == PollSpec => []PInv
<1>1. PollInit => PInv
  BY DEF PollInit, PInv, Init
<1>2. EInv /\ PInv /\ [PollNext]_vars => PInv'
  BY PollKeeps
<1>3. QED
  BY <1>1, <1>2, EInvariant, PTL DEF PollSpec

(* Files, requests, polls and held documents keep their types.             *)
THEOREM TypeCorrect == PollSpec => []PollTypeOK
<1>1. EInv /\ PInv => PollTypeOK
  BY DEF EInv, PInv, PollTypeOK
<1>2. QED
  BY <1>1, EInvariant, PInvariant, PTL

(* However many forms, polls and crashes overlap, a revoked agent receives *)
(* at most the one document its last admitted poll was waiting for.        *)
THEOREM RevocationCutsOff == PollSpec => []OneAnswerAfterRevocation
<1>1. PInv => OneAnswerAfterRevocation
  BY DEF PInv, OneAnswerAfterRevocation
<1>2. QED
  BY <1>1, PInvariant, PTL

----------------------------------------------------------------------------
(* What the two disagreements with the code's comments are due to, and     *)
(* what not: as long as their one cause is absent, the promise is kept.    *)

(* The agents that schedule a VM of one name agree on how often.           *)
CadencesAgree == \A e, f \in Scheduled : e.vm = f.vm => e.interval = f.interval

(* Then ranging over the schedules in any order gives one document.        *)
LEMMA OneDocument ==
  ASSUME CadencesAgree, NEW a \in Agents, NEW d \in Documents(a), NEW e \in Documents(a)
  PROVE  d = e
<1>1. PICK c \in Cadences : d = [limit |-> settings.limit, templates |-> settings.templates,
                                 schedule |-> sched[a], cadence |-> c]
  BY DEF Documents
<1>2. PICK k \in Cadences : e = [limit |-> settings.limit, templates |-> settings.templates,
                                 schedule |-> sched[a], cadence |-> k]
  BY DEF Documents
<1>3. /\ c \in [{x.vm : x \in Scheduled} -> Intervals]
      /\ k \in [{x.vm : x \in Scheduled} -> Intervals]
      /\ \A v \in DOMAIN c : \E x \in Scheduled : x.vm = v /\ x.interval = c[v]
      /\ \A v \in DOMAIN k : \E x \in Scheduled : x.vm = v /\ x.interval = k[v]
  BY DEF Cadences
<1>4. \A v \in {x.vm : x \in Scheduled} : c[v] = k[v]
  BY <1>3 DEF CadencesAgree
<1>5. c = k
  BY <1>3, <1>4
<1>6. QED
  BY <1>1, <1>2, <1>5

(* AgentConfigFor: while they agree, an agent that holds what it should is *)
(* told nothing else, whatever forms, polls and crashes go on.  So the map *)
(* that cadences are collected from is all that keeps agents busy in       *)
(* PollsQuiesce.                                                           *)
THEOREM AgreementQuiets ==
  PollSpec => [][\A a \in Agents :
                   CadencesAgree /\ held[a] \in Documents(a) => held'[a] = held[a]]_vars
<1>1. EInv /\ PInv /\ [PollNext]_vars =>
        [\A a \in Agents : CadencesAgree /\ held[a] \in Documents(a) => held'[a] = held[a]]_vars
  <2> SUFFICES ASSUME PInv, [PollNext]_vars, NEW a \in Agents,
                      CadencesAgree, held[a] \in Documents(a)
               PROVE  held'[a] = held[a]
    OBVIOUS
  <2>1. ASSUME NEW b \in Agents, NEW doc \in Documents(b), AnswerPoll(b, doc)
        PROVE  held'[a] = held[a]
    <3>1. CASE a = b
      <4>1. doc = held[a]
        BY <2>1, <3>1, OneDocument
      <4>2. held'[a] = doc
        BY <2>1, <3>1 DEF AnswerPoll, PInv
      <4>3. QED
        BY <4>1, <4>2
    <3>2. CASE a # b
      BY <2>1, <3>2 DEF AnswerPoll, PInv
    <3>3. QED
      BY <3>1, <3>2
  <2>2. CASE UNCHANGED held
    BY <2>2
  <2>3. QED
    BY <2>1, <2>2
       DEF PollNext, PollStep, StartPoll, RefusePoll, TimeoutPoll, LosePoll, vars, pvars
<1>2. QED
  BY <1>1, EInvariant, PInvariant, PTL DEF PollSpec

(* A settings form between its reading and its writing of settings.json,   *)
(* and the step that saves or deletes a template.                          *)
Halfway(r) == At(r, "audit", {"settings"}) \/ At(r, "write", {"settings"})

TemplateSaved == \E r \in Requests : SetTemplate(r) \/ DeleteTemplate(r)

(* No template is saved while a settings form is halfway.                  *)
NoneInBetween == [][(\E r \in Requests : Halfway(r)) => ~TemplateSaved]_vars

(* What a form holds halfway is then what the file says.                   *)
Fresh == \A r \in Requests : Halfway(r) => snap[r].templates = settings.templates

(* Every step but a template's own leaves the templates to which Fresh     *)
(* snapshots agree, and Fresh itself.                                      *)
LEMMA FreshStep ==
  ASSUME EInv, Fresh, [Next]_evars,
         (\E r \in Requests : Halfway(r)) => ~TemplateSaved
  PROVE  /\ Fresh'
         /\ ~TemplateSaved => settings'.templates = settings.templates
<1>0. /\ pc \in [Requests -> Steps] /\ snap \in [Requests -> Settings \cup {NoSettings}]
      /\ form \in [Requests -> Form \cup {NoForm}]
  BY DEF EInv, TypeOK
<1>1. ASSUME UNCHANGED settings, NEW r \in Requests,
             \A q \in Requests \ {r} : pc'[q] = pc[q] /\ form'[q] = form[q] /\ snap'[q] = snap[q],
             Halfway(r)' => snap'[r].templates = settings.templates
      PROVE  Fresh'
  BY <1>1 DEF Fresh, Halfway, At
<1>2. ASSUME NEW r \in Requests, NEW f \in Forms, Submit(r, f)
      PROVE  Fresh' /\ UNCHANGED settings
  <2>1. f \in Form
    BY EstateOK
  <2>2. f.kind = "settings" => FirstStep(f.kind) = "read"
    BY <2>1, FormType, FirstStepType
  <2>3. /\ pc'[r] = FirstStep(f.kind) /\ form'[r] = f /\ UNCHANGED <<settings, snap>>
        /\ \A q \in Requests \ {r} : pc'[q] = pc[q] /\ form'[q] = form[q] /\ snap'[q] = snap[q]
    BY <1>0, <1>2 DEF Submit, files
  <2>4. ~Halfway(r)'
    BY <2>2, <2>3 DEF Halfway, At
  <2>5. QED
    BY <1>1, <2>3, <2>4
<1>3. ASSUME NEW r \in Requests, ReadSettings(r)
      PROVE  Fresh' /\ UNCHANGED settings
  <2>1. /\ snap'[r] = settings /\ UNCHANGED <<settings, form>>
        /\ \A q \in Requests \ {r} : pc'[q] = pc[q] /\ form'[q] = form[q] /\ snap'[q] = snap[q]
    BY <1>0, <1>3 DEF ReadSettings, GoTo, files
  <2>2. QED
    BY <1>1, <2>1
<1>4. ASSUME NEW r \in Requests,
             \/ LookAtAgent(r) \/ CheckCadence(r) \/ RefuseTemplate(r) \/ AppendAudit(r)
             \/ CompleteAudit(r) \/ SetScheduleEntry(r) \/ DeleteScheduleEntry(r) \/ Revoke(r)
      PROVE  Fresh' /\ UNCHANGED settings
  <2>1. /\ UNCHANGED <<settings, snap, form>>
        /\ \E s \in Steps : pc' = [pc EXCEPT ![r] = s]
        /\ Halfway(r)' => Halfway(r)
    BY <1>0, <1>4 DEF LookAtAgent, CheckCadence, RefuseTemplate, AppendAudit, CompleteAudit,
         SetScheduleEntry, DeleteScheduleEntry, Revoke, GoTo, files, Halfway, At, Steps
  <2>2. \A q \in Requests \ {r} : pc'[q] = pc[q] /\ form'[q] = form[q] /\ snap'[q] = snap[q]
    BY <1>0, <2>1
  <2>3. Halfway(r)' => snap'[r].templates = settings.templates
    BY <2>1 DEF Fresh
  <2>4. QED
    BY <1>1, <2>1, <2>2, <2>3
<1>5. ASSUME NEW r \in Requests, SetSettings(r)
      PROVE  Fresh' /\ settings'.templates = settings.templates
  <2>1. /\ snap[r] \in Settings /\ Halfway(r) /\ settings' = [snap[r] EXCEPT !.limit = form[r].limit]
        /\ UNCHANGED <<snap, form>> /\ pc' = [pc EXCEPT ![r] = "close"]
    BY <1>5 DEF SetSettings, At, EInv, HasRead, Halfway, GoTo
  <2>2. settings'.templates = settings.templates
    BY <2>1 DEF Fresh, Settings
  <2>3. \A q \in Requests : Halfway(q)' => Halfway(q) /\ snap'[q] = snap[q]
    BY <1>0, <2>1 DEF Halfway, At
  <2>4. QED
    BY <2>2, <2>3 DEF Fresh
<1>6. ASSUME NEW r \in Requests, SetTemplate(r) \/ DeleteTemplate(r)
      PROVE  Fresh' /\ TemplateSaved
  <2>1. TemplateSaved /\ \A q \in Requests : ~Halfway(q)
    BY <1>6 DEF TemplateSaved
  <2>2. UNCHANGED <<form, snap>> /\ pc' = [pc EXCEPT ![r] = "audit"]
        /\ form[r].kind \in {"template", "drop"}
    BY <1>6 DEF SetTemplate, DeleteTemplate, At, GoTo
  <2>3. \A q \in Requests : ~Halfway(q)'
    BY <1>0, <2>1, <2>2 DEF Halfway, At
  <2>4. QED
    BY <2>1, <2>3 DEF Fresh
<1>7. CASE Crash
  <2>1. UNCHANGED settings /\ \A q \in Requests : pc'[q] \in {"idle", "over"}
    BY <1>7 DEF Crash, files
  <2>2. QED
    BY <2>1 DEF Fresh, Halfway, At
<1>8. CASE UNCHANGED evars
  BY <1>8 DEF evars, files, Fresh, Halfway, At
<1>9. QED
  BY <1>2, <1>3, <1>4, <1>5, <1>6, <1>7, <1>8 DEF Next, Handle

(* postSettings loses a template only to a save that falls between its     *)
(* reading and its writing: where none does, a template changes or goes by *)
(* a form of its own and by nothing else, however the rest overlaps.       *)
THEOREM OnlyOneWindow == PollSpec /\ NoneInBetween => TemplatesOutliveOtherForms
<1>1. [PollNext]_vars => [Next]_evars
  BY DEF PollNext, vars, PollStep, StartPoll, RefusePoll, AnswerPoll, TimeoutPoll, LosePoll
<1>2. PollInit => Fresh
  BY DEF PollInit, Init, Fresh, Halfway, At
<1>3. /\ EInv /\ Fresh /\ [PollNext]_vars
      /\ [(\E r \in Requests : Halfway(r)) => ~TemplateSaved]_vars
      => Fresh'
  <2>1. CASE UNCHANGED vars
    BY <2>1 DEF vars, evars, files, Fresh, Halfway, At
  <2>2. CASE (\E r \in Requests : Halfway(r)) => ~TemplateSaved
    BY <1>1, <2>2, FreshStep
  <2>3. QED
    BY <2>1, <2>2
<1>4. /\ EInv /\ Fresh /\ [PollNext]_vars
      /\ [(\E r \in Requests : Halfway(r)) => ~TemplateSaved]_vars
      => [\A n \in DOMAIN settings.templates :
            \/ n \in DOMAIN settings'.templates /\ settings'.templates[n] = settings.templates[n]
            \/ \E r \in Requests : At(r, "write", {"template", "drop"}) /\ form[r].name = n]_evars
  <2> SUFFICES ASSUME EInv, Fresh, [Next]_evars, ~UNCHANGED evars,
                      (\E r \in Requests : Halfway(r)) => ~TemplateSaved,
                      NEW n \in DOMAIN settings.templates
               PROVE  \/ n \in DOMAIN settings'.templates
                         /\ settings'.templates[n] = settings.templates[n]
                      \/ \E r \in Requests :
                           At(r, "write", {"template", "drop"}) /\ form[r].name = n
    BY <1>1 DEF vars
  <2>1. CASE ~TemplateSaved
    BY <2>1, FreshStep
  <2>2. ASSUME NEW r \in Requests, SetTemplate(r) \/ DeleteTemplate(r), form[r].name # n
        PROVE  n \in DOMAIN settings'.templates /\ settings'.templates[n] = settings.templates[n]
    <3>1. settings \in Settings
      BY DEF EInv, TypeOK
    <3>2. CASE SetTemplate(r)
      <4>1. settings'.templates = [m \in DOMAIN settings.templates \cup {form[r].name} |->
                                     IF m = form[r].name THEN form[r].body ELSE settings.templates[m]]
        BY <3>1, <3>2 DEF SetTemplate, Settings
      <4>2. QED
        BY <2>2, <4>1
    <3>3. CASE DeleteTemplate(r)
      <4>1. settings'.templates = [m \in DOMAIN settings.templates \ {form[r].name} |->
                                     settings.templates[m]]
        BY <3>1, <3>3 DEF DeleteTemplate, Settings
      <4>2. QED
        BY <2>2, <4>1
    <3>4. QED
      BY <2>2, <3>2, <3>3
  <2>3. \A r \in Requests :
          SetTemplate(r) \/ DeleteTemplate(r) => At(r, "write", {"template", "drop"})
    BY DEF SetTemplate, DeleteTemplate, At
  <2>4. QED
    BY <2>1, <2>2, <2>3 DEF TemplateSaved
<1>5. QED
  BY <1>2, <1>3, <1>4, EInvariant, PTL
     DEF PollSpec, NoneInBetween, TemplatesOutliveOtherForms
==============================================================================
