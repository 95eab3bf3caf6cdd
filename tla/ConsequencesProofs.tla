-------------------------- MODULE ConsequencesProofs --------------------------
(***************************************************************************)
(* Proofs about what follows an operation's outcome: the consequences are  *)
(* in the schedule before the outcome is acknowledged, they lose no        *)
(* schedule entry, and the audit log closes with the outcome kept.         *)
(***************************************************************************)
EXTENDS OperationsProofs

(* A step either leaves the records alone, or is one of the three writes   *)
(* of operations.json.                                                     *)
LEMMA Writers ==
  ASSUME [Next]_vars
  PROVE  \/ \E o \in Ops, req \in Requests : CreateOperation(o, req)
         \/ \E o \in Ops : CancelOperation(o)
         \/ FinishReport
         \/ UNCHANGED ops /\ Loaded' = Loaded
<1>1. UNCHANGED ops => Loaded' = Loaded
  BY DEF Loaded, Load
<1>2. QED
  BY <1>1 DEF Next, Operator, ProcessResult, Work, SetScheduleEntry, DeleteScheduleEntry, Enrol,
     Revoke, AdmitReport, RejectReport, LoseReport, BeginReport, SkipResult, NoteProgress,
     ApplyFollowUp, RecordOutcome, FollowUpError, Crash, Poll, SendReport, Start, Decline,
     EndWork, vars, disk

(* A step either leaves the call's copy of the records alone, or ends the  *)
(* call, or is one of the four steps of a call that change it.             *)
LEMMA MemWriters ==
  ASSUME [Next]_vars
  PROVE  \/ UNCHANGED <<writer, mem, cur>>
         \/ EndCall
         \/ \E rep \in wire : BeginReport(rep)
         \/ \E o \in Ops : NoteProgress(o) \/ ApplyFollowUp(o) \/ RecordOutcome(o)
BY DEF Next, Operator, ProcessResult, Work, CreateOperation, CancelOperation, SetScheduleEntry,
   DeleteScheduleEntry, Enrol, Revoke, AdmitReport, RejectReport, LoseReport, SkipResult,
   FollowUpError, FinishReport, Crash, Poll, SendReport, Start, Decline, EndWork, vars, call

----------------------------------------------------------------------------
(* Consequences before the acknowledgement.                                *)

AppliedInv ==
  /\ \A o \in DOMAIN ops : Loaded[o].result = "done" => applied[o] # "no"
  /\ writer # Nobody =>
       \A o \in DOMAIN mem : mem[o].result = "done" => applied[o] # "no"
  /\ cur # NoOp => applied[cur] # "no"

(* Consequences once applied were applied. *)
LEMMA AppliedKept ==
  ASSUME TypeOK, [Next]_vars, NEW o \in Ops, applied[o] # "no"
  PROVE  applied'[o] # "no"
BY DEF TypeOK, Next, Operator, ProcessResult, Work, CreateOperation, CancelOperation,
   SetScheduleEntry, DeleteScheduleEntry, Edited, Ran, Enrol, Revoke, AdmitReport, RejectReport,
   LoseReport, BeginReport, SkipResult, NoteProgress, ApplyFollowUp, RecordOutcome,
   FollowUpError, FinishReport, Crash, Poll, SendReport, Start, Decline, EndWork, vars

(* Every step keeps the consequences ahead of the outcome: a result only   *)
(* becomes done through RecordOutcome, after ApplyFollowUp.                *)
LEMMA AppliedStep ==
  ASSUME SafeInv, AppliedInv, [Next]_vars
  PROVE  AppliedInv'
<1>0. /\ DOMAIN ops \subseteq Ops /\ DOMAIN mem \subseteq Ops /\ cur \in Ops \cup {NoOp}
      /\ \A o \in Ops : applied[o] # "no" => applied'[o] # "no"
  BY AppliedKept DEF SafeInv, TypeOK
<1>1. \A o \in DOMAIN ops' : Loaded'[o].result = "done" => applied'[o] # "no"
  <2>1. ASSUME NEW o \in Ops, NEW req \in Requests, CreateOperation(o, req)
        PROVE  \A p \in DOMAIN ops' : Loaded'[p].result = "done" => applied'[p] # "no"
    <3>1. /\ DOMAIN ops' = DOMAIN ops \cup {o}
          /\ Loaded'[o] = [op |-> req, result |-> NoResult, followUp |-> FALSE,
                           cancelled |-> FALSE]
          /\ \A p \in DOMAIN ops : Loaded'[p] = Loaded[p]
      BY <2>1, CreateStep
    <3>2. QED
      BY <1>0, <3>1 DEF AppliedInv, NoResult
  <2>2. ASSUME NEW o \in Ops, CancelOperation(o)
        PROVE  \A p \in DOMAIN ops' : Loaded'[p].result = "done" => applied'[p] # "no"
    <3>1. DOMAIN ops' = DOMAIN ops /\ \A p \in DOMAIN ops : Loaded'[p].result = Loaded[p].result
      BY <2>2, CancelStep
    <3>2. QED
      BY <1>0, <3>1 DEF AppliedInv
  <2>3. CASE FinishReport
    <3>1. DOMAIN ops' = DOMAIN ops /\ DOMAIN mem = DOMAIN ops /\ writer # Nobody
      BY <2>3, FinishStep DEF FinishReport, SafeInv, CallOK
    <3>2. CASE changed
      BY <1>0, <2>3, <3>1, <3>2, FinishStep DEF AppliedInv
    <3>3. CASE ~changed
      BY <1>0, <2>3, <3>1, <3>3, FinishStep DEF AppliedInv, Loaded, Load
    <3>4. QED
      BY <3>2, <3>3
  <2>4. CASE UNCHANGED ops /\ Loaded' = Loaded
    BY <1>0, <2>4 DEF AppliedInv
  <2>5. QED
    BY <2>1, <2>2, <2>3, <2>4, Writers
<1>2. /\ writer' # Nobody =>
           \A o \in DOMAIN mem' : mem'[o].result = "done" => applied'[o] # "no"
      /\ cur' # NoOp => applied'[cur'] # "no"
  <2>1. CASE UNCHANGED <<writer, mem, cur>>
    BY <1>0, <2>1 DEF AppliedInv
  <2>2. CASE EndCall
    BY <2>2 DEF EndCall
  <2>3. ASSUME NEW rep \in wire, BeginReport(rep)
        PROVE  <1>2!1 /\ <1>2!2
    BY <1>0, <2>3, LoadedType DEF BeginReport, AppliedInv, SafeInv, CurOK
  <2>4. ASSUME NEW o \in Ops, NoteProgress(o)
        PROVE  <1>2!1 /\ <1>2!2
    <3>1. /\ o \in DOMAIN mem /\ mem[o] \in OperationRecord /\ ~Terminal(todo[o])
          /\ mem' = [mem EXCEPT ![o].result = todo[o]] /\ cur' = NoOp
          /\ UNCHANGED writer /\ writer # Nobody
      BY <2>4, NotSkipped DEF NoteProgress, NextResult, SafeInv
    <3>2. mem'[o].result # "done"
      BY <3>1 DEF Terminal, Outcomes, States, OperationRecord
    <3>3. QED
      BY <1>0, <3>1, <3>2 DEF AppliedInv
  <2>5. ASSUME NEW o \in Ops, ApplyFollowUp(o)
        PROVE  <1>2!1 /\ <1>2!2
    <3>1. /\ o \in DOMAIN mem /\ mem[o] \in OperationRecord
          /\ mem' = [mem EXCEPT ![o].followUp = TRUE] /\ cur' = o
          /\ UNCHANGED writer /\ writer # Nobody
          /\ applied'[o] \in {"yes", "either"}
      BY <2>5, NotSkipped DEF ApplyFollowUp, NextResult, SafeInv, Edited, Ran, TypeOK
    <3>2. mem'[o].result = mem[o].result /\ \A p \in DOMAIN mem \ {o} : mem'[p] = mem[p]
      BY <3>1 DEF OperationRecord
    <3>3. QED
      BY <1>0, <3>1, <3>2 DEF AppliedInv
  <2>6. ASSUME NEW o \in Ops, RecordOutcome(o)
        PROVE  <1>2!1 /\ <1>2!2
    <3>1. /\ cur = o /\ cur' = NoOp /\ mem' = [mem EXCEPT ![o].result = todo[o]]
          /\ UNCHANGED writer /\ writer # Nobody
      BY <2>6 DEF RecordOutcome
    <3>2. applied'[o] # "no"
      BY <1>0, <3>1, ConstantsOK DEF AppliedInv
    <3>3. DOMAIN mem' = DOMAIN mem /\ \A p \in DOMAIN mem \ {o} : mem'[p] = mem[p]
      BY <3>1
    <3>4. QED
      BY <1>0, <3>1, <3>2, <3>3 DEF AppliedInv
  <2>7. QED
    BY <2>1, <2>2, <2>3, <2>4, <2>5, <2>6, MemWriters
<1>3. QED
  BY <1>1, <1>2 DEF AppliedInv

(* A success is acknowledged only with its consequences in the schedule.   *)
THEOREM ConsequencesFirst == Spec => []ConsequencesBeforeAcknowledgement
<1>1. Init => SafeInv /\ AppliedInv
  <2> SUFFICES ASSUME Init
               PROVE  AppliedInv
    BY SafeInit
  <2>1. QED
    BY InitRecords DEF AppliedInv, Init, Idle
<1>2. SafeInv /\ AppliedInv /\ [Next]_vars => SafeInv' /\ AppliedInv'
  BY SafeStep, AppliedStep
<1>3. AppliedInv => ConsequencesBeforeAcknowledgement
  BY DEF AppliedInv, ConsequencesBeforeAcknowledgement
<1>4. QED
  BY <1>1, <1>2, <1>3, PTL DEF Spec

----------------------------------------------------------------------------
(* No direction is lost.                                                   *)

(* Flipping a flag leaves every VM its entry.                              *)
LEMMA SetEnabledKeeps ==
  ASSUME NEW t \in Table, NEW a \in Agents, NEW b \in Agents, NEW v, NEW on \in BOOLEAN,
         NEW e \in t[a]
  PROVE  EntriesFor(SetEnabled(t, b, v, on), a, e.vm) # {}
<1> DEFINE flip(x) == IF x.vm = v THEN [x EXCEPT !.enabled = on] ELSE x
<1>1. e \in Entry
  BY DEF Table
<1>2. flip(e).vm = e.vm
  BY <1>1 DEF Entry
<1>3. CASE a = b
  <2>1. SetEnabled(t, b, v, on)[a] = {flip(x) : x \in t[a]}
    BY <1>3 DEF SetEnabled, Table
  <2>2. flip(e) \in SetEnabled(t, b, v, on)[a]
    BY <2>1
  <2>3. QED
    BY <1>2, <2>2 DEF EntriesFor
<1>4. CASE a # b
  BY <1>4 DEF SetEnabled, EntriesFor, Table
<1>5. QED
  BY <1>3, <1>4

(* Moving an entry takes it from one VM only, and it turns up at the other *)
(* end, disabled and aimed back.                                           *)
LEMMA MoveKeeps ==
  ASSUME NEW t \in Table, NEW a \in Agents, NEW b \in Agents, NEW c \in Agents,
         NEW v, NEW w \in VMs, NEW h \in Hosts, NEW d \in SUBSET Dirs, NEW e \in t[c],
         NEW new, new = MoveEntry(t, a, b, v, w, h, d)
  PROVE  \/ EntriesFor(new, c, e.vm) # {}
         \/ c = a /\ e.vm = v /\ \E f \in EntriesFor(new, b, w) : f.target = h /\ ~f.enabled
<1> DEFINE moved == EntriesFor(t, a, v)
           x     == CHOOSE y \in moved : TRUE
           left  == [t EXCEPT ![a] = @ \ {x}]
           r     == Reversed(x, w, h, d)
<1>1. CASE moved = {}
  BY <1>1 DEF MoveEntry, EntriesFor
<1>2. CASE moved # {}
  <2>1. x \in moved /\ x \in Entry
    BY <1>2 DEF EntriesFor, Table
  <2>2. r.vm = w /\ r.target = h /\ r.enabled = FALSE
    <3>1. CASE d = {}
      BY <2>1, <3>1 DEF Reversed, Entry
    <3>2. CASE d # {}
      BY <2>1, <3>2 DEF Reversed, Entry
    <3>3. QED
      BY <3>1, <3>2
  <2>3. new = SaveEntry(left, b, r)
    BY <1>2 DEF MoveEntry
  <2>4. /\ new[b] = {y \in left[b] : y.vm # w} \cup {r}
        /\ \A k \in Agents \ {b} : new[k] = left[k]
        /\ left[a] = t[a] \ {x}
        /\ \A k \in Agents \ {a} : left[k] = t[k]
    BY <2>2, <2>3 DEF SaveEntry, Table
  <2> HIDE DEF r, left
  <2>5. CASE c = a /\ e = x
    <3>1. e.vm = v
      BY <1>2, <2>5 DEF EntriesFor
    <3>2. r \in EntriesFor(new, b, w)
      BY <2>2, <2>4 DEF EntriesFor
    <3>3. QED
      BY <2>2, <2>5, <3>1, <3>2
  <2>6. CASE ~(c = a /\ e = x)
    <3>1. e \in left[c]
      BY <2>4, <2>6
    <3>2. CASE c = b
      <4>1. CASE e.vm = w
        BY <2>2, <2>4, <3>2, <4>1 DEF EntriesFor
      <4>2. CASE e.vm # w
        BY <2>4, <3>1, <3>2, <4>2 DEF EntriesFor
      <4>3. QED
        BY <4>1, <4>2
    <3>3. CASE c # b
      BY <2>4, <3>1, <3>3 DEF EntriesFor
    <3>4. QED
      BY <3>2, <3>3
  <2>7. QED
    BY <2>5, <2>6
<1>3. QED
  BY <1>1, <1>2

(* Nor do the consequences of any outcome.                                 *)
LEMMA FollowUpKeeps ==
  ASSUME sched \in Table, NEW op \in Requests, NEW state, NEW s \in FollowUps(op, state),
         NEW a \in Agents, NEW e \in sched[a]
  PROVE  \/ EntriesFor(s, a, e.vm) # {}
         \/ /\ op.kind = "invert" /\ op.agent = a /\ op.vm = e.vm
            /\ \E b \in AgentsForHost(op.peerHost) : \E f \in EntriesFor(s, b, PeerVM(op)) :
                 f.target = HostOf[a] /\ ~f.enabled
<1>0. /\ op \in Operation /\ op.agent \in Agents /\ op.vm \in VMs
      /\ HostOf[op.agent] \in Hosts /\ DiskDir[op.agent][op.vm] \in SUBSET Dirs
      /\ PeerVM(op) \in VMs
      /\ \A h : AgentsForHost(h) \subseteq Agents
  BY ConstantsOK DEF Operation, PeerVM, AgentsForHost
<1>1. EntriesFor(sched, a, e.vm) # {}
  BY DEF EntriesFor
<1>2. CASE s = sched
  BY <1>1, <1>2
<1>3. CASE s \in PeerDisabled(op)
  BY <1>0, <1>1, <1>3, SetEnabledKeeps DEF PeerDisabled
<1>4. CASE s \in Inverted(op) /\ s # sched /\ op.kind = "invert"
  <2>1. PICK b \in AgentsForHost(op.peerHost) :
          s = MoveEntry(sched, op.agent, b, op.vm, PeerVM(op), HostOf[op.agent],
                        DiskDir[op.agent][op.vm])
    BY <1>0, <1>4 DEF Inverted
  <2>2. QED
    BY <1>0, <1>4, <2>1, MoveKeeps
<1>5. CASE s = SetEnabled(sched, op.agent, op.vm, TRUE)
  BY <1>0, <1>5, SetEnabledKeeps
<1>6. QED
  BY <1>0, <1>2, <1>3, <1>4, <1>5 DEF FollowUps, Operation, Kinds

(* While a report is worked on, no entry vanishes: an agent loses one to   *)
(* an inversion of that VM alone, and an agent of the host it was inverted *)
(* to has it, disabled and aimed back.                                     *)
THEOREM DirectionKept == Spec => DirectionNeverLost
<1> DEFINE Kept ==
      writer # Nobody =>
        \A a \in Agents : \A e \in sched[a] :
          \/ EntriesFor(sched', a, e.vm) # {}
          \/ cur' \in DOMAIN ops /\ Turned(ops[cur'].op, a, e.vm)
<1>1. SafeInv /\ [Next]_vars => [Kept]_vars
  <2> SUFFICES ASSUME SafeInv, [Next]_vars, writer # Nobody,
                      NEW a \in Agents, NEW e \in sched[a]
               PROVE  \/ EntriesFor(sched', a, e.vm) # {}
                      \/ cur' \in DOMAIN ops /\ Turned(ops[cur'].op, a, e.vm)
    OBVIOUS
  <2>1. UNCHANGED sched \/ \E o \in Ops : ApplyFollowUp(o)
    BY DEF Next, Operator, ProcessResult, Work, CreateOperation, CancelOperation,
       SetScheduleEntry, DeleteScheduleEntry, Enrol, Revoke, AdmitReport, RejectReport,
       LoseReport, BeginReport, SkipResult, NoteProgress, RecordOutcome, FollowUpError,
       FinishReport, Crash, Poll, SendReport, Start, Decline, EndWork, vars, disk
  <2>2. CASE UNCHANGED sched
    BY <2>2 DEF EntriesFor
  <2>3. ASSUME NEW o \in Ops, ApplyFollowUp(o)
        PROVE  \/ EntriesFor(sched', a, e.vm) # {}
               \/ cur' \in DOMAIN ops /\ Turned(ops[cur'].op, a, e.vm)
    <3>1. /\ o \in DOMAIN ops /\ mem[o].op = ops[o].op /\ cur' = o
          /\ ops[o].op \in Requests /\ sched' \in FollowUps(ops[o].op, todo[o])
      BY <2>3, NotSkipped DEF ApplyFollowUp, NextResult, SafeInv, CallOK, TypeOK, OperationRecord
    <3>2. sched \in Table
      BY DEF SafeInv, TypeOK, Table
    <3>3. QED
      BY <3>1, <3>2, FollowUpKeeps DEF Turned
  <2>4. QED
    BY <2>1, <2>2, <2>3
<1>2. Init => SafeInv
  BY SafeInit
<1>3. SafeInv /\ [Next]_vars => SafeInv'
  BY SafeStep
<1>4. QED
  BY <1>1, <1>2, <1>3, PTL DEF Spec, DirectionNeverLost

----------------------------------------------------------------------------
(* The audit log closes with the outcome kept.                             *)

Closed(o, r) == audit[o] = r \/ (audit[o] = "running" /\ r = "unknown")

MemClosed == \A o \in DOMAIN mem : Terminal(mem[o].result) => Closed(o, mem[o].result)

AuditInv ==
  /\ AuditTellsTheOutcome
  /\ writer # Nobody => MemClosed

(* The audit log is opened by the request and closed by the outcome.       *)
LEMMA AuditWriters ==
  ASSUME [Next]_vars
  PROVE  \/ \E o \in Ops, req \in Requests : CreateOperation(o, req)
         \/ \E o \in Ops : RecordOutcome(o)
         \/ UNCHANGED audit
BY DEF Next, Operator, ProcessResult, Work, CancelOperation, SetScheduleEntry,
   DeleteScheduleEntry, Enrol, Revoke, AdmitReport, RejectReport, LoseReport, BeginReport,
   SkipResult, NoteProgress, ApplyFollowUp, FollowUpError, FinishReport, Crash, Poll,
   SendReport, Start, Decline, EndWork, vars, disk

(* Every step keeps audit.json in line with the outcomes on disk and in    *)
(* the call's copy.                                                        *)
LEMMA AuditStep ==
  ASSUME SafeInv, AuditInv, [Next]_vars
  PROVE  AuditInv'
<1>0. /\ DOMAIN ops \subseteq Ops /\ DOMAIN mem \subseteq Ops
      /\ audit \in [Ops -> {"none", "open"} \cup States]
  BY DEF SafeInv, TypeOK
<1>1. ASSUME NEW o \in Ops, NEW req \in Requests, CreateOperation(o, req)
      PROVE  AuditInv'
  <2>1. /\ DOMAIN ops' = DOMAIN ops \cup {o} /\ o \notin DOMAIN ops
        /\ Loaded'[o] = [op |-> req, result |-> NoResult, followUp |-> FALSE,
                         cancelled |-> FALSE]
        /\ \A p \in DOMAIN ops : Loaded'[p] = Loaded[p]
    BY <1>1, CreateStep DEF CreateOperation
  <2>2. /\ writer' = Nobody /\ audit'[o] = "open"
        /\ \A p \in DOMAIN ops : audit'[p] = audit[p]
    BY <1>0, <1>1, <2>1 DEF CreateOperation, call
  <2>3. Loaded'[o].result \notin Outcomes
    BY <2>1 DEF Outcomes, States, NoResult
  <2>4. AuditTellsTheOutcome'
    BY <2>1, <2>2, <2>3 DEF AuditInv, AuditTellsTheOutcome
  <2>5. QED
    BY <2>2, <2>4 DEF AuditInv
<1>2. ASSUME NEW o \in Ops, RecordOutcome(o)
      PROVE  AuditInv'
  <2>1. /\ cur = o /\ writer # Nobody /\ UNCHANGED ops
        /\ mem' = [mem EXCEPT ![o].result = todo[o]]
        /\ audit' = [audit EXCEPT ![o] = todo[o]]
    BY <1>2 DEF RecordOutcome
  <2>2. /\ o \in DOMAIN mem /\ mem[o] \in OperationRecord
        /\ Terminal(todo[o]) /\ ~Terminal(Loaded[o].result)
    BY <2>1, ConstantsOK DEF SafeInv, CurOK, HandOK, TypeOK
  <2>3. /\ audit'[o] = todo[o] /\ mem'[o].result = todo[o]
        /\ \A p \in Ops \ {o} : audit'[p] = audit[p]
        /\ DOMAIN mem' = DOMAIN mem /\ \A p \in DOMAIN mem \ {o} : mem'[p] = mem[p]
    BY <1>0, <2>1, <2>2 DEF OperationRecord
  <2>4. todo[o] # "running"
    BY <2>2 DEF Terminal, Outcomes
  <2>5. Loaded' = Loaded
    BY <2>1 DEF Loaded, Load
  <2>6. AuditTellsTheOutcome'
    BY <1>0, <2>1, <2>2, <2>3, <2>4, <2>5 DEF AuditInv, AuditTellsTheOutcome, Terminal
  <2>7. QED
    BY <1>0, <2>1, <2>3, <2>6 DEF AuditInv, MemClosed, Closed
<1>3. ASSUME UNCHANGED audit
      PROVE  AuditInv'
  <2>1. AuditTellsTheOutcome'
    <3>1. ASSUME NEW o \in Ops, NEW req \in Requests, CreateOperation(o, req)
          PROVE  AuditTellsTheOutcome'
      BY <1>1, <3>1 DEF AuditInv
    <3>2. ASSUME NEW o \in Ops, CancelOperation(o)
          PROVE  AuditTellsTheOutcome'
      <4>1. DOMAIN ops' = DOMAIN ops /\ \A p \in DOMAIN ops : Loaded'[p].result = Loaded[p].result
        BY <3>2, CancelStep
      <4>2. QED
        BY <1>3, <4>1 DEF AuditInv, AuditTellsTheOutcome
    <3>3. CASE FinishReport
      <4>1. /\ DOMAIN ops' = DOMAIN ops /\ DOMAIN mem = DOMAIN ops /\ writer # Nobody
            /\ \A o \in DOMAIN ops : Terminal(Loaded[o].result) => mem[o] = Loaded[o]
        BY <3>3, FinishStep DEF FinishReport, SafeInv, CallOK
      <4>2. CASE changed
        <5>1. \A o \in DOMAIN ops : Loaded'[o] = mem[o]
          BY <3>3, <4>2, FinishStep
        <5>2. \A o \in DOMAIN ops : audit[o] = "running" => mem[o].result = "unknown"
          BY <4>1 DEF AuditInv, AuditTellsTheOutcome, Terminal, Outcomes, States
        <5>3. QED
          BY <1>3, <4>1, <5>1, <5>2 DEF AuditInv, AuditTellsTheOutcome, Terminal, MemClosed, Closed
      <4>3. CASE ~changed
        BY <1>3, <3>3, <4>3, FinishStep DEF AuditInv, AuditTellsTheOutcome, Loaded, Load
      <4>4. QED
        BY <4>2, <4>3
    <3>4. CASE UNCHANGED ops /\ Loaded' = Loaded
      BY <1>3, <3>4 DEF AuditInv, AuditTellsTheOutcome
    <3>5. QED
      BY <3>1, <3>2, <3>3, <3>4, Writers
  <2>2. writer' # Nobody => MemClosed'
    <3>1. CASE UNCHANGED <<writer, mem, cur>>
      BY <1>3, <3>1 DEF AuditInv, MemClosed, Closed
    <3>2. CASE EndCall
      BY <3>2 DEF EndCall
    <3>3. ASSUME NEW rep \in wire, BeginReport(rep)
          PROVE  MemClosed'
      <4>1. mem' = Loaded /\ DOMAIN Loaded = DOMAIN ops
        BY <3>3, LoadedType DEF BeginReport, SafeInv
      <4>2. QED
        BY <1>3, <4>1 DEF AuditInv, AuditTellsTheOutcome, MemClosed, Closed, Terminal
    <3>4. ASSUME NEW o \in Ops, NoteProgress(o)
          PROVE  MemClosed'
      <4>1. /\ o \in DOMAIN mem /\ mem[o] \in OperationRecord /\ ~Terminal(todo[o])
            /\ mem' = [mem EXCEPT ![o].result = todo[o]] /\ writer # Nobody
        BY <3>4, NotSkipped DEF NoteProgress, NextResult, SafeInv
      <4>2. mem'[o].result = todo[o] /\ DOMAIN mem' = DOMAIN mem
            /\ \A p \in DOMAIN mem \ {o} : mem'[p] = mem[p]
        BY <4>1 DEF OperationRecord
      <4>3. QED
        BY <1>3, <4>1, <4>2 DEF AuditInv, MemClosed, Closed
    <3>5. ASSUME NEW o \in Ops, ApplyFollowUp(o)
          PROVE  MemClosed'
      <4>1. /\ o \in DOMAIN mem /\ mem[o] \in OperationRecord
            /\ mem' = [mem EXCEPT ![o].followUp = TRUE] /\ writer # Nobody
        BY <3>5, NotSkipped DEF ApplyFollowUp, NextResult, SafeInv
      <4>2. mem'[o].result = mem[o].result /\ DOMAIN mem' = DOMAIN mem
            /\ \A p \in DOMAIN mem \ {o} : mem'[p] = mem[p]
        BY <4>1 DEF OperationRecord
      <4>3. QED
        BY <1>3, <4>1, <4>2 DEF AuditInv, MemClosed, Closed
    <3>6. ASSUME NEW o \in Ops, RecordOutcome(o)
          PROVE  MemClosed'
      BY <1>2, <3>6 DEF AuditInv, RecordOutcome
    <3>7. QED
      BY <3>1, <3>2, <3>3, <3>4, <3>5, <3>6, MemWriters
  <2>3. QED
    BY <2>1, <2>2 DEF AuditInv
<1>4. QED
  BY <1>1, <1>2, <1>3, AuditWriters

(* The audit entry of an operation closes with the outcome its record      *)
(* keeps, and never with "running", but for what the previous build left.  *)
THEOREM AuditTrue == Spec => []AuditTellsTheOutcome
<1>1. Init => SafeInv /\ AuditInv
  <2> SUFFICES ASSUME Init
               PROVE  AuditInv
    BY SafeInit
  <2>1. writer = Nobody /\ \A o \in DOMAIN ops : audit[o] = "running"
    BY DEF Init, Idle
  <2>2. QED
    BY <2>1, InitRecords DEF AuditInv, AuditTellsTheOutcome
<1>2. SafeInv /\ AuditInv /\ [Next]_vars => SafeInv' /\ AuditInv'
  BY SafeStep, AuditStep
<1>3. AuditInv => AuditTellsTheOutcome
  BY DEF AuditInv
<1>4. QED
  BY <1>1, <1>2, <1>3, PTL DEF Spec
==============================================================================
