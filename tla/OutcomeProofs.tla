----------------------------- MODULE OutcomeProofs -----------------------------
(***************************************************************************)
(* Proofs about the outcomes of operations: an agent never has two to tell *)
(* of one operation and none while it works on it, so that two hypervisors *)
(* work on one VM only where an operator or the previous build let go of   *)
(* one of them; and consequences that ran leave a schedule that running    *)
(* them again leaves alone.                                                *)
(***************************************************************************)
EXTENDS ConsequencesProofs

----------------------------------------------------------------------------
(* An operation an agent has, or had and forgot, in its ledger: it will    *)
(* not be picked up again.                                                 *)
Forgotten(o) == ~Pending(Loaded[o]) /\ \A a \in Agents : o \notin view[a]

Locked(o) == o \in DOMAIN ops /\ (ledger[o] # NoLedger \/ Forgotten(o))

(* A result of an operation is anywhere at all: with its agent, on its     *)
(* way, being worked through, or kept.                                     *)
Heard(o, r) ==
  \/ \E rep \in wire : o \in DOMAIN rep.results /\ rep.results[o] = r
  \/ writer # Nobody /\ o \in DOMAIN todo /\ todo[o] = r

Kept(o, r) ==
  \/ o \in DOMAIN ops /\ Loaded[o].result = r
  \/ writer # Nobody /\ o \in DOMAIN mem /\ mem[o].result = r

Told(o, r) == ledger[o] = r \/ Heard(o, r) \/ Kept(o, r)

ToldInv ==
  /\ \A o \in Ops, r \in States : Told(o, r) => Locked(o)
  /\ \A o \in busy : Locked(o) /\ ledger[o] \in {NoLedger, "running"}
  /\ \A o \in busy, r \in Outcomes : Told(o, r) => r = "unknown"
  /\ \A o \in Ops, r \in Outcomes : Told(o, r) => ledger[o] \in {r, NoLedger}
  /\ \A o \in Ops, r, q \in Outcomes : Told(o, r) /\ Told(o, q) => r = q

(* What is in the ledger, or was and is forgotten, stays so.               *)
LEMMA LockedKept ==
  ASSUME SafeInv, OnceInv, [Next]_vars, NEW o \in Ops, Locked(o)
  PROVE  Locked(o)'
<1>0. TypeOK' /\ Grows /\ o \in DOMAIN ops' /\ (~Pending(Loaded[o]) => ~Pending(Loaded'[o]))
  BY SafeStep, PendingStep DEF SafeInv, Grows, Locked
<1>1. CASE UNCHANGED <<view, ledger>>
  BY <1>0, <1>1 DEF Locked, Forgotten
<1>2. ASSUME NEW a \in Agents, NEW lost \in SUBSET Ops, Poll(a, lost)
      PROVE  Locked(o)'
  <2>1. /\ UNCHANGED ops /\ Loaded' = Loaded
        /\ \A b \in Agents : view'[b] = IF b = a THEN PublishedTo(a) ELSE view[b]
        /\ ledger'[o] = ledger[o] \/ o \in IssuedTo(a) \ PublishedTo(a)
    BY <1>2 DEF Poll, disk, Loaded, Load, SafeInv, TypeOK
  <2>2. Loaded[o].op = ops[o].op /\ (o \in PublishedTo(a) => Pending(Loaded[o]))
    BY LoadedFacts DEF SafeInv, Locked, PublishedTo
  <2>3. CASE o \in IssuedTo(a) \ PublishedTo(a)
    <3>1. ~Pending(Loaded[o]) /\ ops[o].op.agent = a
      BY <2>2, <2>3 DEF IssuedTo, PublishedTo
    <3>2. \A b \in Agents : o \notin view'[b]
      BY <2>1, <2>3, <3>1 DEF OnceInv
    <3> QED BY <1>0, <2>1, <3>1, <3>2 DEF Locked, Forgotten
  <2>4. CASE ledger'[o] = ledger[o]
    BY <1>0, <2>1, <2>2, <2>4 DEF Locked, Forgotten
  <2> QED BY <2>1, <2>3, <2>4
<1>3. ASSUME NEW p \in Ops, Work(p)
      PROVE  Locked(o)'
  <2>1. UNCHANGED view /\ (ledger'[o] = ledger[o] \/ ledger'[o] # NoLedger)
    BY <1>3, ConstantsOK
    DEF Work, Start, Decline, EndWork, SafeInv, TypeOK, NoLedger, Outcomes, States
  <2> QED BY <1>0, <2>1 DEF Locked, Forgotten
<1> QED
  BY <1>1, <1>2, <1>3
  DEF Next, Operator, ProcessResult, CreateOperation, CancelOperation, SetScheduleEntry,
      DeleteScheduleEntry, Enrol, Revoke, AdmitReport, RejectReport, LoseReport,
      BeginReport, SkipResult, NoteProgress, ApplyFollowUp, RecordOutcome, FollowUpError,
      FinishReport, Crash, SendReport, agent, vars

(* Nothing locked is picked up or declined.                                *)
LEMMA LockedOut ==
  ASSUME NEW o, Locked(o)
  PROVE  ~Start(o) /\ \A outcome : ~Decline(o, outcome)
BY DEF Locked, Forgotten, Start, Decline

----------------------------------------------------------------------------
(* A result is told for the first time by the agent that works.            *)
LEMMA ToldStep ==
  ASSUME SafeInv, [Next]_vars, NEW o \in Ops, NEW r \in States, Told(o, r)'
  PROVE  Told(o, r) \/ (Work(o) /\ ledger'[o] = r)
<1>0. r # NoResult /\ r # NoLedger /\ DOMAIN ops \subseteq Ops /\ DOMAIN mem \subseteq Ops
  BY DEF States, NoResult, NoLedger, SafeInv, TypeOK
<1>1. ASSUME UNCHANGED <<ledger, wire, writer, todo, mem>>, NEW p \in Ops, NEW req \in Requests,
             CreateOperation(p, req)
      PROVE  Told(o, r)
  <2>1. DOMAIN ops' = DOMAIN ops \cup {p} /\ \A q \in DOMAIN ops : Loaded'[q] = Loaded[q]
    BY <1>1, CreateStep
  <2>2. Loaded'[p] = [op |-> req, result |-> NoResult, followUp |-> FALSE, cancelled |-> FALSE]
    BY <1>1, CreateStep
  <2>3. Loaded'[p].result = NoResult
    BY <2>2
  <2> QED BY <1>0, <1>1, <2>1, <2>3 DEF Told, Heard, Kept
<1>2. ASSUME UNCHANGED <<ledger, wire, writer, todo, mem>>, NEW p \in Ops, CancelOperation(p)
      PROVE  Told(o, r)
  <2>1. DOMAIN ops' = DOMAIN ops /\ \A q \in DOMAIN ops : Loaded'[q].result = Loaded[q].result
    BY <1>2, CancelStep
  <2> QED BY <1>2, <2>1 DEF Told, Heard, Kept
<1>3. ASSUME UNCHANGED <<ops, ledger, wire, writer, todo, mem>>
      PROVE  Told(o, r)
  <2>1. Loaded' = Loaded
    BY <1>3 DEF Loaded, Load
  <2> QED BY <1>3, <2>1 DEF Told, Heard, Kept
<1>4. ASSUME NEW rep \in wire, AdmitReport(rep)
      PROVE  Told(o, r)
  <2>1. Loaded' = Loaded /\ UNCHANGED <<ops, ledger, writer, todo, mem>>
    BY <1>4 DEF AdmitReport, disk, call, agent, Loaded, Load
  <2>2. rep \in Report
    BY DEF SafeInv, TypeOK
  <2>3. [rep EXCEPT !.admitted = TRUE].results = rep.results
    BY <2>2 DEF Report
  <2>4. \A x \in wire' : \E y \in wire : x.results = y.results
    BY <1>4, <2>3 DEF AdmitReport
  <2> QED BY <2>1, <2>4 DEF Told, Heard, Kept
<1>5. ASSUME UNCHANGED <<ops, ledger, writer, todo, mem>>, wire' \subseteq wire
      PROVE  Told(o, r)
  <2>1. Loaded' = Loaded
    BY <1>5 DEF Loaded, Load
  <2> QED BY <1>5, <2>1 DEF Told, Heard, Kept
<1>6. ASSUME NEW rep \in wire, BeginReport(rep)
      PROVE  Told(o, r)
  <2>1. /\ Loaded' = Loaded /\ UNCHANGED <<ops, ledger>> /\ wire' \subseteq wire
        /\ mem' = Loaded /\ todo' = rep.results /\ DOMAIN Loaded = DOMAIN ops
    BY <1>6, LoadedType DEF BeginReport, disk, agent, Loaded, Load, SafeInv
  <2> QED BY <2>1 DEF Told, Heard, Kept
<1>7. ASSUME NEW p \in Ops, ProcessResult(p), ~FollowUpError(p)
      PROVE  Told(o, r)
  <2>1. /\ Loaded' = Loaded /\ UNCHANGED <<ops, ledger, wire, writer>> /\ writer # Nobody
        /\ \A q \in DOMAIN todo' : q \in DOMAIN todo /\ todo'[q] = todo[q]
    BY <1>7 DEF ProcessResult, SkipResult, NoteProgress, ApplyFollowUp, RecordOutcome, NextResult,
       Done, disk, agent, Loaded, Load
  <2>2. CASE SkipResult(p)
    BY <2>1, <2>2 DEF SkipResult, Told, Heard, Kept
  <2>3. CASE NoteProgress(p) \/ ApplyFollowUp(p)
    <3>1. p \in DOMAIN mem /\ p \in DOMAIN todo /\ mem[p] \in OperationRecord
      BY <2>3, NotSkipped DEF NoteProgress, ApplyFollowUp, NextResult, SafeInv
    <3>2. DOMAIN mem' = DOMAIN mem /\ \A q \in DOMAIN mem \ {p} : mem'[q] = mem[q]
      BY <2>3 DEF NoteProgress, ApplyFollowUp
    <3>3. mem'[p].result = todo[p] \/ mem'[p].result = mem[p].result
      BY <2>3, <3>1 DEF NoteProgress, ApplyFollowUp, OperationRecord
    <3> QED BY <2>1, <3>1, <3>2, <3>3 DEF Told, Heard, Kept
  <2>4. CASE RecordOutcome(p)
    <3>1. p \in DOMAIN mem /\ p \in DOMAIN todo /\ mem[p] \in OperationRecord
      BY <2>4, ConstantsOK DEF RecordOutcome, SafeInv, CurOK, TypeOK
    <3>2. DOMAIN mem' = DOMAIN mem /\ \A q \in DOMAIN mem \ {p} : mem'[q] = mem[q]
      BY <2>4 DEF RecordOutcome
    <3>3. mem'[p].result = todo[p]
      BY <2>4, <3>1 DEF RecordOutcome, OperationRecord
    <3> QED BY <2>1, <3>1, <3>2, <3>3 DEF Told, Heard, Kept
  <2> QED BY <1>7, <2>2, <2>3, <2>4 DEF ProcessResult
<1>8. ASSUME EndCall, UNCHANGED <<ops, ledger>>, wire' \subseteq wire
      PROVE  Told(o, r)
  <2>1. Loaded' = Loaded /\ writer' = Nobody
    BY <1>8 DEF EndCall, Loaded, Load
  <2> QED BY <1>8, <2>1 DEF Told, Heard, Kept
<1>9. CASE FinishReport
  <2>1. UNCHANGED <<ledger, wire>> /\ writer' = Nobody /\ writer # Nobody /\ DOMAIN ops' = DOMAIN ops
        /\ DOMAIN mem = DOMAIN ops
    BY <1>9, FinishStep DEF FinishReport, EndCall, agent, SafeInv, CallOK
  <2>2. (\A q \in DOMAIN ops : Loaded'[q] = mem[q]) \/ Loaded' = Loaded
    BY <1>9, FinishStep DEF SafeInv, TypeOK, Loaded, Load
  <2> QED BY <2>1, <2>2 DEF Told, Heard, Kept
<1>10. ASSUME NEW a \in Agents, NEW lost \in SUBSET Ops, Poll(a, lost)
       PROVE  Told(o, r)
  <2>1. Loaded' = Loaded /\ UNCHANGED <<ops, wire, writer, todo, mem>>
        /\ (ledger'[o] = ledger[o] \/ ledger'[o] = NoLedger)
    BY <1>10 DEF Poll, disk, call, Loaded, Load, SafeInv, TypeOK
  <2> QED BY <1>0, <2>1 DEF Told, Heard, Kept
<1>11. ASSUME NEW a \in Agents, SendReport(a)
       PROVE  Told(o, r)
  <2> DEFINE known == {q \in IssuedTo(a) : ledger[q] # NoLedger}
             sent  == [from |-> a, results |-> [q \in known |-> ledger[q]], admitted |-> FALSE]
  <2>1. Loaded' = Loaded /\ UNCHANGED <<ops, ledger, writer, todo, mem>> /\ wire' = wire \cup {sent}
    BY <1>11 DEF SendReport, disk, call, agent, Loaded, Load
  <2>2. o \in DOMAIN sent.results => sent.results[o] = ledger[o]
    OBVIOUS
  <2> QED BY <2>1, <2>2 DEF Told, Heard, Kept
<1>12. ASSUME NEW p \in Ops, Work(p)
       PROVE  Told(o, r) \/ (Work(o) /\ ledger'[o] = r)
  <2>1. Loaded' = Loaded /\ UNCHANGED <<ops, wire, writer, todo, mem>>
        /\ \A q \in Ops \ {p} : ledger'[q] = ledger[q]
    BY <1>12 DEF Work, Start, Decline, EndWork, disk, call, Loaded, Load, SafeInv, TypeOK
  <2> QED BY <1>12, <2>1 DEF Told, Heard, Kept
<1> QED
  BY <1>1, <1>2, <1>3, <1>4, <1>5, <1>6, <1>7, <1>8, <1>9, <1>10, <1>11, <1>12
  DEF Next, Operator, ProcessResult, CreateOperation, CancelOperation, SetScheduleEntry,
      DeleteScheduleEntry, Enrol, Revoke, RejectReport, LoseReport, FollowUpError, Crash,
      disk, call, agent, vars

(* A step that is not the agent's own work on an operation leaves what it  *)
(* has to tell of it, or forgets it.                                       *)
LEMMA LedgerStep ==
  ASSUME SafeInv, [Next]_vars, NEW o \in Ops, ~Work(o)
  PROVE  /\ ledger'[o] \in {ledger[o], NoLedger}
         /\ o \in busy' => o \in busy
<1>1. ASSUME NEW p \in Ops, Work(p)
      PROVE  ledger'[o] = ledger[o] /\ (o \in busy' => o \in busy)
  BY <1>1 DEF Work, Start, Decline, EndWork, SafeInv, TypeOK
<1>2. ASSUME NEW a \in Agents, NEW lost \in SUBSET Ops, Poll(a, lost)
      PROVE  ledger'[o] \in {ledger[o], NoLedger} /\ UNCHANGED busy
  BY <1>2 DEF Poll
<1>3. CASE UNCHANGED <<ledger, busy>>
  BY <1>3
<1> QED
  BY <1>1, <1>2, <1>3
  DEF Next, Operator, ProcessResult, CreateOperation, CancelOperation, SetScheduleEntry,
      DeleteScheduleEntry, Enrol, Revoke, AdmitReport, RejectReport, LoseReport,
      BeginReport, SkipResult, NoteProgress, ApplyFollowUp, RecordOutcome, FollowUpError,
      FinishReport, Crash, SendReport, agent, vars

(* What the previous build left reads as "unknown", and nobody will pick   *)
(* it up again.                                                            *)
LEMMA ToldInit ==
  ASSUME Init
  PROVE  ToldInv
<1>1. SafeInv /\ writer = Nobody /\ wire = {} /\ busy \subseteq DOMAIN ops
      /\ (\A o \in Ops : ledger[o] = NoLedger) /\ (\A a \in Agents : view[a] = {})
  BY SafeInit DEF Init, Idle
<1>2. \A o \in DOMAIN ops : Loaded[o].result = "unknown" /\ Locked(o)
  BY <1>1, InitRecords DEF Locked, Forgotten, Pending
<1>3. \A o \in Ops, r \in States : Told(o, r) => r = "unknown" /\ Locked(o)
  BY <1>1, <1>2 DEF Told, Heard, Kept, States, NoLedger
<1> QED
  BY <1>1, <1>2, <1>3 DEF ToldInv, Outcomes, SafeInv, TypeOK

(* Picking an operation up, declining it and finishing it are the only     *)
(* steps that tell something new, and the last two only where nothing but  *)
(* "running" was told.                                                     *)
LEMMA ToldInvStep ==
  ASSUME SafeInv, OnceInv, ToldInv, [Next]_vars
  PROVE  ToldInv'
<1>0. Outcomes \subseteq States /\ "running" \in States /\ "running" \notin Outcomes
      /\ NoLedger \notin States /\ Failures \cup {"done"} \subseteq Outcomes
      /\ busy \subseteq Ops /\ ledger \in [Ops -> {NoLedger} \cup States]
  BY ConstantsOK DEF Outcomes, States, NoLedger, SafeInv, TypeOK
<1>1. SafeInv'
  BY SafeStep
<1>2. busy' \subseteq Ops
  BY <1>1 DEF SafeInv, TypeOK
<1> DEFINE Fine(o) ==
      /\ \A r \in States : Told(o, r) => Locked(o)
      /\ o \in busy => Locked(o) /\ ledger[o] \in {NoLedger, "running"}
      /\ o \in busy => \A r \in Outcomes : Told(o, r) => r = "unknown"
      /\ \A r \in Outcomes : Told(o, r) => ledger[o] \in {r, NoLedger}
      /\ \A r, q \in Outcomes : Told(o, r) /\ Told(o, q) => r = q
<1>3. ASSUME NEW o \in Ops
      PROVE  Fine(o)'
  <2>1. Fine(o)
    BY <1>0 DEF ToldInv
  <2>2. CASE ~Work(o)
    <3>1. \A r \in States : Told(o, r)' => Told(o, r)
      BY <2>2, ToldStep
    <3>2. Locked(o) => Locked(o)'
      BY LockedKept
    <3>3. ledger'[o] \in {ledger[o], NoLedger} /\ (o \in busy' => o \in busy)
      BY <2>2, LedgerStep
    <3> QED BY <1>0, <2>1, <3>1, <3>2, <3>3
  <2>3. ASSUME NEW r \in States, ledger[o] = NoLedger, \E a \in Agents : o \in view[a],
               ledger' = [ledger EXCEPT ![o] = r], Work(o),
               o \in busy' => o \in busy \/ r = "running"
        PROVE  Fine(o)'
    <3>1. ~Locked(o)
      BY <2>3 DEF Locked, Forgotten
    <3>2. ledger'[o] = r /\ o \in DOMAIN ops'
      BY <1>0, <2>3, SafeStep DEF OnceInv, Grows
    <3>3. \A q \in States : Told(o, q)' => q = r
      BY <2>1, <3>1, <3>2, ToldStep
    <3>4. Locked(o)'
      BY <1>0, <3>2 DEF Locked
    <3> QED BY <1>0, <2>1, <2>3, <3>1, <3>2, <3>3, <3>4
  <2>4. ASSUME NEW r \in Outcomes, EndWork(o, r)
        PROVE  Fine(o)'
    <3>1. o \in busy /\ busy' = busy \ {o}
          /\ ledger'[o] = (IF ledger[o] = "running" THEN r ELSE ledger[o])
      BY <1>0, <2>4 DEF EndWork
    <3>2. Locked(o)'
      BY <2>1, <3>1, LockedKept
    <3>3. \A q \in States : Told(o, q)' => Told(o, q) \/ ledger'[o] = q
      BY ToldStep
    <3> QED BY <1>0, <2>1, <3>1, <3>2, <3>3
  <2>5. CASE Start(o)
    BY <1>0, <2>3, <2>5 DEF Start, Work
  <2>6. ASSUME NEW r \in Failures, Decline(o, r)
        PROVE  Fine(o)'
    BY <1>0, <2>3, <2>6 DEF Decline, Work
  <2> QED BY <1>0, <2>2, <2>4, <2>5, <2>6 DEF Work
<1> QED
  BY <1>2, <1>3 DEF ToldInv

(* Two hypervisors work on one VM at once only where an operator withdrew  *)
(* one of the operations, or the previous build lost one.                  *)
THEOREM RacesAreExplained == Spec => []RacingWorkNeedsCancel
<1> DEFINE All == SafeInv /\ OnceInv /\ OneInFlightPerVM /\ ToldInv
<1>1. Init => All
  <2> SUFFICES ASSUME Init
               PROVE  OneInFlightPerVM
    BY SafeInit, OnceInit, ToldInit
  <2> QED BY InitRecords, InFlightIsPending DEF OneInFlightPerVM, Pending
<1>2. All /\ [Next]_vars => All'
  BY SafeStep, OnceStep, OneInFlightStep, ToldInvStep
<1>3. All => RacingWorkNeedsCancel
  <2> SUFFICES ASSUME All, NEW o \in busy, NEW p \in busy, o # p, SameVM(o, p),
                      \A q \in {o, p} : ~ops[q].cancelled /\ Loaded[q].result # "unknown"
               PROVE  FALSE
    BY DEF RacingWorkNeedsCancel
  <2>1. ASSUME NEW q \in {o, p}
        PROVE  q \in DOMAIN ops /\ InFlight(q)
    <3>1. q \in Ops /\ q \in busy /\ q \in DOMAIN ops
      BY DEF ToldInv, Locked, SafeInv, TypeOK
    <3>2. Loaded[q].cancelled = ops[q].cancelled
      BY <3>1, LoadedFacts DEF SafeInv
    <3>3. Loaded[q].result \notin Outcomes
      BY <3>1 DEF ToldInv, Told, Kept
    <3> QED BY <3>1, <3>2, <3>3 DEF InFlight
  <2> QED BY <2>1 DEF OneInFlightPerVM
<1> QED
  BY <1>1, <1>2, <1>3, PTL DEF Spec

----------------------------------------------------------------------------
(* Every agent's schedule holds one entry per VM, whoever rewrites it.     *)

(* SetScheduleEntry replaces the entry of the VM it saves.                 *)
LEMMA SaveOne ==
  ASSUME NEW t \in Table, OneEntryPerVM(t), NEW a \in Agents, NEW e \in Entry
  PROVE  OneEntryPerVM(SaveEntry(t, a, e))
BY DEF OneEntryPerVM, SaveEntry, Table

(* setScheduleEnabledLocked renames nothing.                              *)
LEMMA SetOne ==
  ASSUME NEW t \in Table, OneEntryPerVM(t), NEW a \in Agents, NEW v, NEW on \in BOOLEAN
  PROVE  OneEntryPerVM(SetEnabled(t, a, v, on))
<1> DEFINE flip(e) == IF e.vm = v THEN [e EXCEPT !.enabled = on] ELSE e
<1>1. \A e \in Entry : flip(e).vm = e.vm
  BY DEF Entry
<1>2. /\ SetEnabled(t, a, v, on)[a] = {flip(e) : e \in t[a]}
      /\ \A b \in Agents \ {a} : SetEnabled(t, a, v, on)[b] = t[b]
      /\ DOMAIN SetEnabled(t, a, v, on) = Agents
  BY DEF SetEnabled, Table
<1> HIDE DEF flip
<1>3. \A e, f \in t[a] : flip(e).vm = flip(f).vm => flip(e) = flip(f)
  BY <1>1 DEF OneEntryPerVM, Table
<1> QED
  BY <1>2, <1>3 DEF OneEntryPerVM, Table

(* moveScheduleEntryLocked replaces the destination's entry of that VM.    *)
LEMMA MoveOne ==
  ASSUME NEW t \in Table, OneEntryPerVM(t), NEW a \in Agents, NEW b \in Agents,
         NEW v, NEW w \in VMs, NEW h \in Hosts, NEW d \in SUBSET Dirs
  PROVE  OneEntryPerVM(MoveEntry(t, a, b, v, w, h, d))
<1> DEFINE moved == EntriesFor(t, a, v)
           x     == CHOOSE y \in moved : TRUE
           left  == [t EXCEPT ![a] = @ \ {x}]
<1>1. CASE moved = {}
  BY <1>1 DEF MoveEntry
<1>2. CASE moved # {}
  <2>1. x \in Entry
    BY <1>2 DEF EntriesFor, Table
  <2>2. left \in Table /\ OneEntryPerVM(left)
    BY DEF Table, OneEntryPerVM
  <2>3. Reversed(x, w, h, d) \in Entry
    BY <2>1, ReversedType
  <2>4. MoveEntry(t, a, b, v, w, h, d) = SaveEntry(left, b, Reversed(x, w, h, d))
    BY <1>2 DEF MoveEntry
  <2> QED BY <2>2, <2>3, <2>4, SaveOne
<1> QED
  BY <1>1, <1>2

(* What the follow-up of an operation does to the schedule.                *)
LEMMA FollowUpForms ==
  ASSUME sched \in Table, NEW op \in Requests, NEW state, NEW s \in FollowUps(op, state)
  PROVE  \/ s = sched
         \/ \E a \in Agents, on \in BOOLEAN : s = SetEnabled(sched, a, PeerVM(op), on)
         \/ \E a \in Agents : s = SetEnabled(sched, a, op.vm, TRUE)
         \/ \E a \in Agents : s = MoveEntry(sched, op.agent, a, op.vm, PeerVM(op),
                                            HostOf[op.agent], DiskDir[op.agent][op.vm])
<1>1. op.agent \in Agents /\ \A h : AgentsForHost(h) \subseteq Agents
  BY ConstantsOK DEF Operation, AgentsForHost
<1>2. CASE s \in PeerDisabled(op)
  BY <1>1, <1>2 DEF PeerDisabled
<1>3. CASE s \in Inverted(op)
  BY <1>1, <1>3 DEF Inverted
<1> QED
  BY <1>1, <1>2, <1>3 DEF FollowUps

(* No step gives a VM a second entry.                                      *)
LEMMA OneEntryStep ==
  ASSUME SafeInv, OneEntryPerVM(sched), [Next]_vars
  PROVE  OneEntryPerVM(sched)'
<1>0. sched \in Table
  BY DEF SafeInv, TypeOK, Table
<1>1. CASE UNCHANGED sched
  BY <1>1 DEF OneEntryPerVM
<1>2. ASSUME NEW save \in Saves, SetScheduleEntry(save[1], save[2])
      PROVE  OneEntryPerVM(sched)'
  <2>1. save[1] \in Agents /\ save[2] \in Entry
    BY ConstantsOK
  <2> QED BY <1>0, <1>2, <2>1, SaveOne DEF SetScheduleEntry
<1>3. ASSUME NEW save \in Saves, DeleteScheduleEntry(save[1], save[2].vm)
      PROVE  OneEntryPerVM(sched)'
  BY <1>0, <1>3 DEF DeleteScheduleEntry, DropEntry, OneEntryPerVM, Table
<1>4. ASSUME NEW o \in Ops, ApplyFollowUp(o)
      PROVE  OneEntryPerVM(sched)'
  <2>1. mem[o].op \in Requests /\ sched' \in FollowUps(mem[o].op, todo[o])
    BY <1>4, NotSkipped DEF ApplyFollowUp, SafeInv, OperationRecord
  <2>2. /\ mem[o].op.agent \in Agents /\ mem[o].op.vm \in VMs /\ PeerVM(mem[o].op) \in VMs
        /\ HostOf[mem[o].op.agent] \in Hosts
        /\ DiskDir[mem[o].op.agent][mem[o].op.vm] \in SUBSET Dirs
    BY <2>1, ConstantsOK DEF Operation, PeerVM
  <2>3. ASSUME NEW a \in Agents, NEW v, NEW on \in BOOLEAN, sched' = SetEnabled(sched, a, v, on)
        PROVE  OneEntryPerVM(sched)'
    BY <1>0, <2>3, SetOne
  <2>4. ASSUME NEW a \in Agents,
               sched' = MoveEntry(sched, mem[o].op.agent, a, mem[o].op.vm, PeerVM(mem[o].op),
                          HostOf[mem[o].op.agent], DiskDir[mem[o].op.agent][mem[o].op.vm])
        PROVE  OneEntryPerVM(sched)'
    BY <1>0, <2>2, <2>4, MoveOne
  <2> QED BY <1>0, <1>1, <2>1, <2>3, <2>4, FollowUpForms
<1> QED
  BY <1>1, <1>2, <1>3, <1>4
  DEF Next, Operator, ProcessResult, Work, CreateOperation, CancelOperation, Enrol, Revoke,
      AdmitReport, RejectReport, LoseReport, BeginReport, SkipResult, NoteProgress,
      RecordOutcome, FollowUpError, FinishReport, Crash, Poll, SendReport, Start, Decline,
      EndWork, vars, disk

----------------------------------------------------------------------------
(* Running the consequences of an outcome again, on the schedule they left *)
(* and with the same agents enrolled, changes nothing: provided one agent  *)
(* at most is enrolled for the host they follow to, for with two           *)
(* agentIDForHostLocked may settle on the other the second time.           *)

(* Setting a flag that is set changes nothing.                             *)
LEMMA SetTwice ==
  ASSUME NEW t \in Table, NEW a \in Agents, NEW v, NEW on \in BOOLEAN
  PROVE  SetEnabled(SetEnabled(t, a, v, on), a, v, on) = SetEnabled(t, a, v, on)
<1> DEFINE flip(e) == IF e.vm = v THEN [e EXCEPT !.enabled = on] ELSE e
           s       == SetEnabled(t, a, v, on)
<1>1. \A e \in Entry : flip(flip(e)) = flip(e)
  BY DEF Entry
<1>2. s = [t EXCEPT ![a] = {flip(e) : e \in t[a]}]
  BY DEF SetEnabled, Table
<1>3. SetEnabled(s, a, v, on) = [s EXCEPT ![a] = {flip(e) : e \in s[a]}]
  BY DEF SetEnabled
<1> HIDE DEF flip, s
<1>4. t[a] \subseteq Entry /\ s[a] = {flip(e) : e \in t[a]} /\ DOMAIN s = Agents
  BY <1>2 DEF Table
<1>5. {flip(e) : e \in s[a]} = s[a]
  BY <1>1, <1>4
<1>6. [s EXCEPT ![a] = s[a]] = s
  BY <1>2, <1>4 DEF Table
<1> QED
  BY <1>3, <1>5, <1>6 DEF s

(* A moved entry is not there to be moved again, unless it was moved onto  *)
(* itself; moving it again then leaves it as it is.                        *)
LEMMA MoveTwice ==
  ASSUME NEW t \in Table, OneEntryPerVM(t), NEW a \in Agents, NEW b \in Agents,
         NEW v, NEW w \in VMs, NEW h \in Hosts, NEW d \in SUBSET Dirs,
         NEW s, s = MoveEntry(t, a, b, v, w, h, d)
  PROVE  MoveEntry(s, a, b, v, w, h, d) = s
<1> DEFINE moved == EntriesFor(t, a, v)
           x     == CHOOSE y \in moved : TRUE
           left  == [t EXCEPT ![a] = @ \ {x}]
           r     == Reversed(x, w, h, d)
<1>1. CASE moved = {}
  BY <1>1 DEF MoveEntry
<1>2. CASE moved # {}
  <2>1. x \in moved /\ x \in Entry /\ moved = {x} /\ x \in t[a] /\ x.vm = v
    BY <1>2 DEF EntriesFor, Table, OneEntryPerVM
  <2>2. r \in Entry
    BY <2>1, ReversedType
  <2>3. r.vm = w /\ Reversed(r, w, h, d) = r
    <3>1. CASE d = {}
      BY <2>1, <2>2, <3>1 DEF Reversed, Entry
    <3>2. CASE d # {}
      <4>1. (CHOOSE y \in d : TRUE) \in Dirs
        BY <3>2
      <4> QED BY <2>1, <2>2, <3>2, <4>1 DEF Reversed, Entry
    <3> QED BY <3>1, <3>2
  <2>4. s = SaveEntry(left, b, r)
    BY <1>2 DEF MoveEntry
  <2>5. /\ s[b] = {y \in left[b] : y.vm # w} \cup {r}
        /\ \A k \in Agents \ {b} : s[k] = left[k]
        /\ left[a] = t[a] \ {x}
        /\ \A k \in Agents \ {a} : left[k] = t[k]
        /\ s \in [Agents -> SUBSET Entry]
    BY <2>2, <2>3, <2>4 DEF SaveEntry, Table
  <2> HIDE DEF left, r
  <2>6. \A y \in left[a] : y.vm # v
    BY <2>1, <2>5 DEF EntriesFor
  <2>7. CASE EntriesFor(s, a, v) = {}
    BY <2>7 DEF MoveEntry
  <2>8. CASE EntriesFor(s, a, v) # {}
    <3>1. a = b /\ v = w /\ EntriesFor(s, a, v) = {r}
      BY <2>3, <2>5, <2>6, <2>8 DEF EntriesFor
    <3>2. (CHOOSE y \in EntriesFor(s, a, v) : TRUE) = r
      BY <3>1
    <3>3. MoveEntry(s, a, b, v, w, h, d) = SaveEntry([s EXCEPT ![a] = @ \ {r}], b, r)
      BY <2>3, <2>8, <3>2 DEF MoveEntry
    <3>4. s[b] = {y \in s[b] \ {r} : y.vm # w} \cup {r}
      BY <2>5
    <3>5. SaveEntry([s EXCEPT ![a] = @ \ {r}], b, r) = [s EXCEPT ![b] = {y \in s[b] \ {r} : y.vm # w} \cup {r}]
      BY <2>3, <2>5, <3>1 DEF SaveEntry
    <3>6. [s EXCEPT ![b] = s[b]] = s
      BY <2>5
    <3> QED BY <3>3, <3>4, <3>5, <3>6
  <2> QED BY <2>7, <2>8
<1> QED
  BY <1>1, <1>2

(* A follow-up, run again on its own result, changes nothing.              *)
LEMMA FollowUpTwice ==
  ASSUME sched \in Table, OneEntryPerVM(sched), UNCHANGED status, NEW op \in Requests,
         \A a, b \in AgentsForHost(op.peerHost) : a = b,
         NEW state, sched' \in FollowUps(op, state)
  PROVE  FollowUps(op, state)' \subseteq {sched'}
<1>1. /\ op.agent \in Agents /\ op.vm \in VMs /\ PeerVM(op) \in VMs
      /\ HostOf[op.agent] \in Hosts /\ DiskDir[op.agent][op.vm] \in SUBSET Dirs
      /\ AgentsForHost(op.peerHost) \subseteq Agents
      /\ \A a, b \in AgentsForHost(op.peerHost) : a = b
  BY ConstantsOK DEF Operation, PeerVM, AgentsForHost
<1>2. AgentsForHost(op.peerHost)' = AgentsForHost(op.peerHost) /\ PeerVM(op)' = PeerVM(op)
  BY DEF AgentsForHost, PeerVM
<1>3. ASSUME sched' \in PeerDisabled(op)
      PROVE  PeerDisabled(op)' \subseteq {sched'}
  BY <1>1, <1>2, <1>3, SetTwice DEF PeerDisabled
<1>4. ASSUME sched' \in Inverted(op)
      PROVE  Inverted(op)' \subseteq {sched'}
  BY <1>1, <1>2, <1>4, MoveTwice DEF Inverted
<1>5. ASSUME sched' = SetEnabled(sched, op.agent, op.vm, TRUE)
      PROVE  SetEnabled(sched', op.agent, op.vm, TRUE) = sched'
  BY <1>1, <1>5, SetTwice
<1> QED
  BY <1>3, <1>4, <1>5 DEF FollowUps, Operation, Kinds

----------------------------------------------------------------------------
(* The consequences of an outcome stay in the schedule until somebody else *)
(* edits it or enrols an agent.                                            *)

AppliedOnce ==
  /\ \A o \in Ops : applied[o] # "no" => Locked(o) /\ ledger[o] # "running"
  /\ \A o \in Ops, r \in Outcomes :
       applied[o] = "yes" /\ Told(o, r) => FollowUps(ops[o].op, r) \subseteq {sched}

RerunInv == SafeInv /\ OnceInv /\ ToldInv /\ OneEntryPerVM(sched) /\ AppliedOnce

(* Revoking an agent only takes away from what a follow-up may lead to.    *)
LEMMA RevokeShrinks ==
  ASSUME NEW a \in Agents, Revoke(a), NEW op, NEW state,
         FollowUps(op, state) \subseteq {sched}
  PROVE  FollowUps(op, state)' \subseteq {sched'}
<1>1. /\ sched' = sched /\ PeerVM(op)' = PeerVM(op)
      /\ AgentsForHost(op.peerHost)' \subseteq AgentsForHost(op.peerHost)
  BY DEF Revoke, AgentsForHost, PeerVM
<1>2. PeerDisabled(op) \subseteq {sched} => PeerDisabled(op)' \subseteq {sched}
  BY <1>1 DEF PeerDisabled
<1>3. Inverted(op) \subseteq {sched} => Inverted(op)' \subseteq {sched}
  BY <1>1 DEF Inverted
<1> QED
  BY <1>1, <1>2, <1>3 DEF FollowUps

(* A result that reaches ApplyFollowUp is one its agent has told.          *)
LEMMA AppliedIsTold ==
  ASSUME SafeInv, NEW o \in Ops, ApplyFollowUp(o)
  PROVE  /\ todo[o] \in Outcomes /\ Told(o, todo[o]) /\ o \in DOMAIN ops
         /\ sched' \in FollowUps(ops[o].op, todo[o]) /\ ops[o].op \in Requests
         /\ ops' = ops /\ status' = status /\ ledger' = ledger
         /\ applied'[o] = "yes" => \A a, b \in AgentsForHost(ops[o].op.peerHost) : a = b
<1>1. o \in DOMAIN mem /\ o \in DOMAIN ops /\ mem[o].op = ops[o].op /\ ops[o] \in OperationRecord
  BY NotSkipped DEF ApplyFollowUp, SafeInv, CallOK, NextResult, TypeOK
<1>2. applied'[o] = Ran(ops[o].op)
  BY <1>1 DEF ApplyFollowUp, Edited
<1>3. applied'[o] = "yes" => \A a, b \in AgentsForHost(ops[o].op.peerHost) : a = b
  BY <1>2 DEF Ran
<1> QED
  BY <1>1, <1>3 DEF ApplyFollowUp, NextResult, Terminal, Told, Heard, OperationRecord, agent

(* Who changes the schedule, who changes the agents, and what the history  *)
(* says of it.                                                             *)
LEMMA AppliedFrame ==
  ASSUME SafeInv, [Next]_vars, NEW o \in Ops
  PROVE  \/ ApplyFollowUp(o)
         \/ /\ applied'[o] # "no" => applied[o] # "no"
            /\ applied'[o] = "yes" =>
                 applied[o] = "yes" /\ sched' = sched
                 /\ (status' = status \/ \E a \in Agents : Revoke(a))
<1>0. applied[o] \in {"no", "yes", "either", "stale"}
  BY DEF SafeInv, TypeOK
<1>1. ASSUME NEW p \in Ops, ApplyFollowUp(p), p # o
      PROVE  /\ applied'[o] # "no" => applied[o] # "no"
             /\ applied'[o] = "yes" => applied[o] = "yes" /\ sched' = sched
             /\ status' = status
  BY <1>0, <1>1 DEF ApplyFollowUp, Edited
<1>2. ASSUME NEW save \in Saves,
             SetScheduleEntry(save[1], save[2]) \/ DeleteScheduleEntry(save[1], save[2].vm)
      PROVE  /\ applied'[o] # "no" => applied[o] # "no"
             /\ applied'[o] = "yes" => applied[o] = "yes" /\ sched' = sched
             /\ status' = status
  BY <1>0, <1>2 DEF SetScheduleEntry, DeleteScheduleEntry, Edited
<1>3. ASSUME NEW a \in Agents, Enrol(a)
      PROVE  (applied'[o] # "no" => applied[o] # "no") /\ applied'[o] # "yes"
  BY <1>0, <1>3 DEF Enrol
<1>4. ASSUME NEW a \in Agents, Revoke(a)
      PROVE  UNCHANGED <<applied, sched>>
  BY <1>4 DEF Revoke
<1>5. CASE UNCHANGED <<applied, sched, status>>
  BY <1>5
<1> QED
  BY <1>1, <1>2, <1>3, <1>4, <1>5
  DEF Next, Operator, ProcessResult, Work, CreateOperation, CancelOperation, AdmitReport,
      RejectReport, LoseReport, BeginReport, SkipResult, NoteProgress, RecordOutcome,
      FollowUpError, FinishReport, Crash, Poll, SendReport, Start, Decline, EndWork, vars, disk

(* Every step keeps it: no new outcome is told of an operation whose       *)
(* consequences ran, and the schedule they left is left.                   *)
LEMMA AppliedOnceStep ==
  ASSUME RerunInv, [Next]_vars
  PROVE  AppliedOnce'
<1>0. /\ Outcomes \subseteq States /\ "running" \notin Outcomes /\ NoLedger # "running"
      /\ ledger \in [Ops -> {NoLedger} \cup States] /\ sched \in Table
      /\ SafeInv /\ OneEntryPerVM(sched)
  BY DEF Outcomes, States, NoLedger, RerunInv, SafeInv, TypeOK, Table
<1> DEFINE Fixed(o) ==
      \A r \in Outcomes :
        applied[o] = "yes" /\ Told(o, r) => FollowUps(ops[o].op, r) \subseteq {sched}
<1>1. ASSUME NEW o \in Ops
      PROVE  (applied[o] # "no" => Locked(o) /\ ledger[o] # "running")' /\ Fixed(o)'
  <2>1. CASE ApplyFollowUp(o)
    <3>1. /\ todo[o] \in Outcomes /\ Told(o, todo[o]) /\ o \in DOMAIN ops
          /\ sched' \in FollowUps(ops[o].op, todo[o]) /\ ops[o].op \in Requests
          /\ ops' = ops /\ status' = status /\ ledger' = ledger
          /\ applied'[o] = "yes" => \A a, b \in AgentsForHost(ops[o].op.peerHost) : a = b
      BY <1>0, <2>1, AppliedIsTold
    <3>2. ledger'[o] # "running" /\ Locked(o)'
      BY <1>0, <3>1, LockedKept DEF RerunInv, ToldInv
    <3>3. ASSUME NEW r \in Outcomes, Told(o, r)'
          PROVE  r = todo[o]
      <4>1. Told(o, r)
        BY <1>0, <3>1, <3>3, ToldStep DEF Told
      <4> QED BY <1>0, <3>1, <4>1 DEF RerunInv, ToldInv
    <3>4. ASSUME NEW op \in Requests, op = ops[o].op, NEW r \in Outcomes, r = todo[o],
                 applied'[o] = "yes"
          PROVE  FollowUps(ops[o].op, r)' \subseteq {sched'}
      <4>1. FollowUps(op, r)' \subseteq {sched'}
        BY <1>0, <3>1, <3>4, FollowUpTwice
      <4>2. (ops[o].op)' = op
        BY <3>1, <3>4
      <4> QED BY <4>1, <4>2
    <3>5. Fixed(o)'
      BY <3>1, <3>3, <3>4
    <3> QED BY <3>2, <3>5
  <2>2. CASE ~ApplyFollowUp(o)
    <3>1. /\ applied'[o] # "no" => applied[o] # "no"
          /\ applied'[o] = "yes" => applied[o] = "yes" /\ sched' = sched
               /\ (status' = status \/ \E a \in Agents : Revoke(a))
      BY <1>0, <2>2, AppliedFrame
    <3>2. applied[o] # "no" => /\ Locked(o) /\ Locked(o)'
                               /\ ledger[o] # "running" /\ ledger'[o] # "running"
      <4> SUFFICES ASSUME applied[o] # "no"
                   PROVE  Locked(o) /\ Locked(o)' /\ ledger[o] # "running" /\ ledger'[o] # "running"
        OBVIOUS
      <4>1. Locked(o) /\ Locked(o)' /\ ledger[o] # "running"
        BY LockedKept DEF RerunInv, AppliedOnce
      <4>2. CASE Work(o)
        BY <1>0, <4>1, <4>2, LockedOut DEF Work, EndWork
      <4>3. CASE ~Work(o)
        BY <1>0, <4>1, <4>3, LedgerStep
      <4> QED BY <4>1, <4>2, <4>3
    <3>3. ASSUME NEW r \in Outcomes, applied'[o] = "yes", Told(o, r)'
          PROVE  FollowUps(ops[o].op, r)' \subseteq {sched'}
      <4>1. applied[o] = "yes" /\ Locked(o) /\ ledger[o] # "running" /\ sched' = sched
        BY <3>1, <3>2, <3>3
      <4>2. Told(o, r)
        <5>1. CASE Work(o) /\ ledger'[o] = r
          <6>1. ledger'[o] = ledger[o]
            BY <1>0, <4>1, <5>1, LockedOut DEF Work, EndWork
          <6> QED BY <5>1, <6>1 DEF Told
        <5> QED BY <1>0, <3>3, <5>1, ToldStep
      <4>3. FollowUps(ops[o].op, r) \subseteq {sched}
        BY <4>1, <4>2 DEF RerunInv, AppliedOnce
      <4>4. ops'[o].op = ops[o].op
        BY <1>0, <4>1, SafeStep DEF Locked, Grows
      <4>5. CASE status' = status
        BY <4>1, <4>3, <4>4, <4>5
        DEF FollowUps, PeerDisabled, Inverted, AgentsForHost, PeerVM
      <4>6. ASSUME NEW a \in Agents, Revoke(a)
            PROVE  FollowUps(ops[o].op, r)' \subseteq {sched'}
        BY <4>3, <4>4, <4>6, RevokeShrinks
      <4> QED BY <3>1, <3>3, <4>5, <4>6
    <3> QED BY <3>1, <3>2, <3>3
  <2> QED BY <2>1, <2>2
<1> QED
  BY <1>1 DEF AppliedOnce

(* Nothing has run at the start.                                           *)
LEMMA RerunInit ==
  ASSUME Init
  PROVE  RerunInv
BY SafeInit, OnceInit, ToldInit, ConstantsOK DEF RerunInv, AppliedOnce, Init

(* The invariant is inductive.                                             *)
LEMMA RerunStep ==
  ASSUME RerunInv, [Next]_vars
  PROVE  RerunInv'
BY SafeStep, OnceStep, ToldInvStep, OneEntryStep, AppliedOnceStep DEF RerunInv

(* A crash between the schedule and the record only repeats what is there: *)
(* the follow-up that runs again, for the one agent it could mean, changes *)
(* nothing.                                                                *)
THEOREM RerunIsHarmless == Spec => RerunIsIdempotent
<1>1. Init => RerunInv
  BY RerunInit
<1>2. RerunInv /\ [Next]_vars => RerunInv'
  BY RerunStep
<1>3. RerunInv /\ [Next]_vars =>
        [\A o \in Ops : cur = NoOp /\ cur' = o /\ applied[o] = "yes" => sched' = sched]_vars
  <2> SUFFICES ASSUME RerunInv, [Next]_vars, NEW o \in Ops,
                      cur = NoOp, cur' = o, applied[o] = "yes"
               PROVE  sched' = sched
    OBVIOUS
  <2>1. ApplyFollowUp(o)
    BY ConstantsOK
    DEF Next, Operator, ProcessResult, Work, CreateOperation, CancelOperation,
        SetScheduleEntry, DeleteScheduleEntry, Enrol, Revoke, AdmitReport, RejectReport,
        LoseReport, BeginReport, SkipResult, NoteProgress, ApplyFollowUp, RecordOutcome,
        FollowUpError, FinishReport, EndCall, Crash, Poll, SendReport, Start, Decline,
        EndWork, vars, call
  <2>2. todo[o] \in Outcomes /\ Told(o, todo[o]) /\ sched' \in FollowUps(ops[o].op, todo[o])
    BY <2>1, AppliedIsTold DEF RerunInv
  <2> QED BY <2>2 DEF RerunInv, AppliedOnce
<1> QED
  BY <1>1, <1>2, <1>3, PTL DEF Spec, RerunIsIdempotent

(* Once a promotion or a restore is acknowledged, the source's entry is    *)
(* disabled for whoever is enrolled for its host, until somebody edits the *)
(* schedule or enrols an agent: unless two agents were enrolled for it.    *)
THEOREM SourceIsQuiet == Spec => []PromotionQuietsSource
<1>1. Init => RerunInv
  BY RerunInit
<1>2. RerunInv /\ [Next]_vars => RerunInv'
  BY RerunStep
<1>3. RerunInv => PromotionQuietsSource
  <2> SUFFICES ASSUME RerunInv, NEW o \in DOMAIN ops, Loaded[o].result = "done",
                      Loaded[o].op.kind \in {"promote", "restore"}, applied[o] = "yes",
                      NEW a \in AgentsForHost(Loaded[o].op.peerHost),
                      NEW e \in EntriesFor(sched, a, PeerVM(Loaded[o].op))
               PROVE  ~e.enabled
    BY DEF PromotionQuietsSource
  <2>1. o \in Ops /\ "done" \in Outcomes /\ Told(o, "done") /\ Loaded[o].op = ops[o].op
    BY LoadedFacts DEF RerunInv, SafeInv, TypeOK, Told, Kept, Outcomes, States
  <2>2. FollowUps(Loaded[o].op, "done") \subseteq {sched}
    BY <2>1 DEF RerunInv, AppliedOnce
  <2>3. PeerDisabled(Loaded[o].op) \subseteq {sched}
    BY <2>2 DEF FollowUps
  <2>4. SetEnabled(sched, a, PeerVM(Loaded[o].op), FALSE) = sched
    BY <2>3 DEF PeerDisabled
  <2>5. sched \in Table /\ a \in Agents /\ e \in sched[a] /\ e.vm = PeerVM(Loaded[o].op)
    BY DEF RerunInv, SafeInv, TypeOK, Table, AgentsForHost, EntriesFor
  <2> QED BY <2>4, <2>5 DEF SetEnabled, Table, Entry
<1> QED
  BY <1>1, <1>2, <1>3, PTL DEF Spec

(* An outcome on record is the one its agent came to, whatever was heard   *)
(* of it twice, late or never; and the agent forgets no outcome that is    *)
(* not on record, unless the operation was withdrawn.                      *)
THEOREM OutcomesKept == Spec => []OutcomeNeverLost
<1>1. Init => RerunInv
  BY RerunInit
<1>2. RerunInv /\ [Next]_vars => RerunInv'
  BY RerunStep
<1>3. RerunInv => OutcomeNeverLost
  <2> SUFFICES ASSUME RerunInv, NEW o \in DOMAIN ops
               PROVE  /\ Terminal(Loaded[o].result) => ledger[o] \in {Loaded[o].result, NoLedger}
                      /\ runs[o] >= 1 /\ ledger[o] = NoLedger =>
                           ops[o].cancelled \/ Terminal(Loaded[o].result)
    BY DEF OutcomeNeverLost
  <2>1. o \in Ops /\ Outcomes \subseteq States
    BY DEF RerunInv, SafeInv, TypeOK, Outcomes, States
  <2>2. ASSUME Terminal(Loaded[o].result)
        PROVE  ledger[o] \in {Loaded[o].result, NoLedger}
    <3>1. PICK r \in Outcomes : r = Loaded[o].result
      BY <2>2 DEF Terminal
    <3>2. Told(o, r)
      BY <2>1, <3>1, LoadedFacts DEF Told, Kept, RerunInv, SafeInv
    <3>3. QED
      BY <2>1, <3>1, <3>2 DEF RerunInv, ToldInv
  <2>3. ASSUME runs[o] >= 1, ledger[o] = NoLedger
        PROVE  ops[o].cancelled \/ Terminal(Loaded[o].result)
    <3>1. ~Pending(Loaded[o])
      BY <2>3 DEF RerunInv, OnceInv
    <3>2. Loaded[o].cancelled = ops[o].cancelled
      BY LoadedFacts DEF RerunInv, SafeInv
    <3>3. QED
      BY <3>1, <3>2 DEF Pending
  <2>4. QED
    BY <2>2, <2>3
<1> QED
  BY <1>1, <1>2, <1>3, PTL DEF Spec
==============================================================================
