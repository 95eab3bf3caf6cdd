--------------------------- MODULE OperationsProofs ---------------------------
(***************************************************************************)
(* Proofs about Operations for every number of operations, agents, VMs,    *)
(* reports in flight, crashes and records of the previous build.           *)
(***************************************************************************)
EXTENDS Operations, TLAPS

----------------------------------------------------------------------------
(* Schedules keep their type under every rewrite.                          *)

Table == [Agents -> SUBSET Entry]

(* SetScheduleEntry writes a table. *)
LEMMA SaveEntryType ==
  ASSUME NEW t \in Table, NEW a \in Agents, NEW e \in Entry
  PROVE  SaveEntry(t, a, e) \in Table
BY DEF Table, SaveEntry

(* setScheduleEnabledLocked writes a table. *)
LEMMA SetEnabledType ==
  ASSUME NEW t \in Table, NEW a \in Agents, NEW v, NEW on \in BOOLEAN
  PROVE  SetEnabled(t, a, v, on) \in Table
<1>1. \A e \in t[a] : (IF e.vm = v THEN [e EXCEPT !.enabled = on] ELSE e) \in Entry
  BY DEF Table, Entry
<1>2. QED
  BY <1>1 DEF Table, SetEnabled

(* The reversed entry is an entry, whether or not the report names a       *)
(* directory.                                                              *)
LEMMA ReversedType ==
  ASSUME NEW e \in Entry, NEW v \in VMs, NEW h \in Hosts, NEW d \in SUBSET Dirs
  PROVE  Reversed(e, v, h, d) \in Entry
<1>1. CASE d = {}
  BY <1>1 DEF Reversed, Entry
<1>2. CASE d # {}
  <2>1. (CHOOSE x \in d : TRUE) \in Dirs
    BY <1>2
  <2>2. QED
    BY <1>2, <2>1 DEF Reversed, Entry
<1>3. QED
  BY <1>1, <1>2

(* moveScheduleEntryLocked writes a table. *)
LEMMA MoveEntryType ==
  ASSUME NEW t \in Table, NEW a \in Agents, NEW b \in Agents, NEW v,
         NEW w \in VMs, NEW h \in Hosts, NEW d \in SUBSET Dirs
  PROVE  MoveEntry(t, a, b, v, w, h, d) \in Table
<1> DEFINE moved == EntriesFor(t, a, v)
           e     == CHOOSE x \in moved : TRUE
           left  == [t EXCEPT ![a] = @ \ {e}]
<1>1. CASE moved = {}
  BY <1>1 DEF MoveEntry
<1>2. CASE moved # {}
  <2>1. e \in moved
    BY <1>2
  <2>2. e \in Entry
    BY <2>1 DEF EntriesFor, Table
  <2>3. left \in Table
    BY DEF Table
  <2>4. Reversed(e, w, h, d) \in Entry
    BY <2>2, ReversedType
  <2>5. SaveEntry(left, b, Reversed(e, w, h, d)) \in Table
    BY <2>3, <2>4, SaveEntryType
  <2>6. QED
    BY <1>2, <2>5 DEF MoveEntry
<1>3. QED
  BY <1>1, <1>2

(* Whatever follows an outcome, the schedule stays a table.                *)
LEMMA FollowUpsType ==
  ASSUME sched \in Table, NEW op \in Requests, NEW state, NEW s \in FollowUps(op, state)
  PROVE  s \in Table
<1>0. op \in Operation
  BY ConstantsOK
<1>1. PeerVM(op) \in VMs
  BY <1>0 DEF PeerVM, Operation
<1>2. \A h : AgentsForHost(h) \subseteq Agents
  BY DEF AgentsForHost
<1>3. \A r \in PeerDisabled(op) : r \in Table
  BY <1>2, SetEnabledType DEF PeerDisabled
<1>4. \A r \in Inverted(op) : r \in Table
  <2>1. HostOf[op.agent] \in Hosts /\ DiskDir[op.agent][op.vm] \in SUBSET Dirs
    BY <1>0, ConstantsOK DEF Operation
  <2>2. op.agent \in Agents
    BY <1>0 DEF Operation
  <2>3. \A a \in Agents :
          MoveEntry(sched, op.agent, a, op.vm, PeerVM(op), HostOf[op.agent],
                    DiskDir[op.agent][op.vm]) \in Table
    BY <1>1, <2>1, <2>2, MoveEntryType
  <2>4. QED
    BY <1>2, <2>3 DEF Inverted
<1>5. SetEnabled(sched, op.agent, op.vm, TRUE) \in Table
  BY <1>0, SetEnabledType DEF Operation
<1>6. s \in {sched} \cup PeerDisabled(op) \cup Inverted(op)
              \cup {SetEnabled(sched, op.agent, op.vm, TRUE)}
  BY <1>0 DEF FollowUps, Operation, Kinds
<1>7. QED
  BY <1>3, <1>4, <1>5, <1>6

----------------------------------------------------------------------------
(* Type correctness.  It needs to know that the result whose consequences  *)
(* have been applied is one the report in hand carries.                    *)

CurOK == cur # NoOp => writer # Nobody /\ cur \in DOMAIN todo /\ cur \in DOMAIN mem

(* A healed record is a record. *)
LEMMA HealType ==
  ASSUME NEW rec \in OperationRecord
  PROVE  Heal(rec) \in OperationRecord
BY DEF Heal, OperationRecord, States

(* loadOperations returns records, one for each record of the file.        *)
LEMMA LoadedType ==
  ASSUME TypeOK
  PROVE  /\ Loaded \in [DOMAIN ops -> OperationRecord]
         /\ DOMAIN Loaded = DOMAIN ops
         /\ \A o \in DOMAIN ops : Loaded[o] = Heal(ops[o])
<1>1. \A o \in DOMAIN ops : Heal(ops[o]) \in OperationRecord
  BY HealType DEF TypeOK
<1>2. QED
  BY <1>1 DEF Loaded, Load

(* Nothing issued, or only what the previous build left.                   *)
LEMMA TypeInit ==
  ASSUME Init
  PROVE  TypeOK
<1>0. PICK legacy \in SUBSET Ops :
        /\ \E asked \in [legacy -> {req \in Requests : req.agent \in Enrolled0}] :
             ops = [o \in legacy |-> LegacyRecord(asked[o])]
        /\ audit = [o \in Ops |-> IF o \in legacy THEN "running" ELSE "none"]
        /\ busy \in SUBSET legacy
        /\ runs = [o \in Ops |-> IF o \in legacy THEN 1 ELSE 0]
  BY DEF Init
<1>1. PICK asked \in [legacy -> Requests] :
        /\ ops = [o \in legacy |-> LegacyRecord(asked[o])]
        /\ audit = [o \in Ops |-> IF o \in legacy THEN "running" ELSE "none"]
        /\ busy \in SUBSET legacy
        /\ runs = [o \in Ops |-> IF o \in legacy THEN 1 ELSE 0]
  BY <1>0
<1>2. ops \in [DOMAIN ops -> OperationRecord] /\ DOMAIN ops \subseteq Ops
  BY <1>1 DEF LegacyRecord, OperationRecord, States
<1>3. audit \in [Ops -> {"none", "open"} \cup States]
  BY <1>1 DEF States
<1>4. busy \subseteq Ops /\ runs \in [Ops -> 0..2]
  BY <1>1
<1>5. sched \in [Agents -> SUBSET Entry] /\ status \in [Agents -> Statuses]
  BY ConstantsOK DEF Init, Statuses
<1>6. /\ writer \in Agents \cup {Nobody} /\ cur \in Ops \cup {NoOp} /\ changed \in BOOLEAN
      /\ mem \in [DOMAIN mem -> OperationRecord] /\ DOMAIN mem \subseteq Ops
      /\ todo \in [DOMAIN todo -> States] /\ DOMAIN todo \subseteq Ops
  BY DEF Init, Idle
<1>7. /\ wire \subseteq Report /\ view \in [Agents -> SUBSET Ops]
      /\ ledger \in [Ops -> {NoLedger} \cup States]
      /\ crashes \in 0..MaxCrashes /\ applied \in [Ops -> {"no", "yes", "either", "stale"}]
  BY ConstantsOK DEF Init
<1>8. QED
  BY <1>2, <1>3, <1>4, <1>5, <1>6, <1>7 DEF TypeOK

(* An ended call leaves nothing behind in memory.                          *)
LEMMA EndCallType ==
  ASSUME EndCall
  PROVE  /\ writer' \in Agents \cup {Nobody} /\ cur' \in Ops \cup {NoOp} /\ changed' \in BOOLEAN
         /\ mem' \in [DOMAIN mem' -> OperationRecord] /\ DOMAIN mem' \subseteq Ops
         /\ todo' \in [DOMAIN todo' -> States] /\ DOMAIN todo' \subseteq Ops
BY DEF EndCall

(* Every step keeps the types.                                             *)
LEMMA TypeStep ==
  ASSUME TypeOK, CurOK, [Next]_vars
  PROVE  TypeOK'
<1> USE DEF Table
<1>0. /\ Loaded \in [DOMAIN ops -> OperationRecord] /\ DOMAIN Loaded = DOMAIN ops
  BY LoadedType
<1>1. ASSUME NEW o \in Ops, NEW req \in Requests, CreateOperation(o, req)
      PROVE  TypeOK'
  <2>1. [op |-> req, result |-> NoResult, followUp |-> FALSE, cancelled |-> FALSE]
           \in OperationRecord
    BY DEF OperationRecord
  <2>2. ops' \in [DOMAIN ops' -> OperationRecord] /\ DOMAIN ops' \subseteq Ops
    BY <1>0, <1>1, <2>1 DEF CreateOperation, TypeOK
  <2>3. audit' \in [Ops -> {"none", "open"} \cup States]
    BY <1>1 DEF CreateOperation, TypeOK
  <2>4. QED
    BY <1>1, <2>2, <2>3 DEF CreateOperation, TypeOK, call, agent
<1>2. ASSUME NEW o \in Ops, CancelOperation(o)
      PROVE  TypeOK'
  <2>1. [Loaded[o] EXCEPT !.cancelled = TRUE] \in OperationRecord
    BY <1>0, <1>2 DEF OperationRecord, CancelOperation
  <2>2. ops' \in [DOMAIN ops' -> OperationRecord] /\ DOMAIN ops' \subseteq Ops
    BY <1>0, <1>2, <2>1 DEF CancelOperation, TypeOK
  <2>3. QED
    BY <1>2, <2>2 DEF CancelOperation, TypeOK, call, agent
<1>3. ASSUME NEW save \in Saves, SetScheduleEntry(save[1], save[2])
      PROVE  TypeOK'
  <2>1. save[1] \in Agents /\ save[2] \in Entry
    BY ConstantsOK
  <2>2. sched' \in Table
    BY <1>3, <2>1, SaveEntryType DEF SetScheduleEntry, TypeOK
  <2>3. applied' \in [Ops -> {"no", "yes", "either", "stale"}]
    BY <1>3 DEF SetScheduleEntry, Edited, TypeOK
  <2>4. QED
    BY <1>3, <2>2, <2>3 DEF SetScheduleEntry, TypeOK, call, agent
<1>4. ASSUME NEW save \in Saves, DeleteScheduleEntry(save[1], save[2].vm)
      PROVE  TypeOK'
  <2>1. save[1] \in Agents
    BY ConstantsOK
  <2>2. sched' \in Table
    BY <1>4, <2>1 DEF DeleteScheduleEntry, DropEntry, TypeOK
  <2>3. applied' \in [Ops -> {"no", "yes", "either", "stale"}]
    BY <1>4 DEF DeleteScheduleEntry, Edited, TypeOK
  <2>4. QED
    BY <1>4, <2>2, <2>3 DEF DeleteScheduleEntry, TypeOK, call, agent
<1>5. ASSUME NEW a \in Agents, Enrol(a)
      PROVE  TypeOK'
  BY <1>5 DEF Enrol, TypeOK, call, agent, Statuses
<1>6. ASSUME NEW a \in Agents, Revoke(a)
      PROVE  TypeOK'
  BY <1>6 DEF Revoke, TypeOK, call, agent, Statuses
<1>7. ASSUME NEW rep \in wire, AdmitReport(rep)
      PROVE  TypeOK'
  <2>0. rep \in Report
    BY DEF TypeOK
  <2>1. [rep EXCEPT !.admitted = TRUE] \in Report
    BY <2>0 DEF Report
  <2>2. QED
    BY <1>7, <2>1 DEF AdmitReport, TypeOK, disk, call, agent
<1>8. ASSUME NEW rep \in wire, RejectReport(rep) \/ LoseReport(rep)
      PROVE  TypeOK'
  BY <1>8 DEF RejectReport, LoseReport, TypeOK, disk, call, agent
<1>9. ASSUME NEW rep \in wire, BeginReport(rep)
      PROVE  TypeOK'
  <2>1. rep.from \in Agents /\ rep.results \in [DOMAIN rep.results -> States]
          /\ DOMAIN rep.results \subseteq Ops
    BY DEF TypeOK, Report
  <2>2. QED
    BY <1>0, <1>9, <2>1 DEF BeginReport, TypeOK, disk, agent
<1>10. ASSUME NEW o \in Ops, SkipResult(o)
       PROVE  TypeOK'
  BY <1>10 DEF SkipResult, NextResult, Done, TypeOK, disk, agent
<1>11. ASSUME NEW o \in Ops, NoteProgress(o)
       PROVE  TypeOK'
  <2>1. o \in DOMAIN mem /\ mem[o] \in OperationRecord /\ todo[o] \in States
    BY <1>11 DEF NoteProgress, NextResult, Skipped, TypeOK
  <2>2. [mem[o] EXCEPT !.result = todo[o]] \in OperationRecord
    BY <2>1 DEF OperationRecord
  <2>3. mem' \in [DOMAIN mem' -> OperationRecord] /\ DOMAIN mem' = DOMAIN mem
    BY <1>11, <2>1, <2>2 DEF NoteProgress, TypeOK
  <2>4. QED
    BY <1>11, <2>3 DEF NoteProgress, Done, TypeOK, disk, agent
<1>12. ASSUME NEW o \in Ops, ApplyFollowUp(o)
       PROVE  TypeOK'
  <2>1. o \in DOMAIN mem /\ mem[o] \in OperationRecord
    BY <1>12 DEF ApplyFollowUp, Skipped, TypeOK
  <2>2. [mem[o] EXCEPT !.followUp = TRUE] \in OperationRecord
    BY <2>1 DEF OperationRecord
  <2>3. mem' \in [DOMAIN mem' -> OperationRecord] /\ DOMAIN mem' = DOMAIN mem
    BY <1>12, <2>1, <2>2 DEF ApplyFollowUp, TypeOK
  <2>4. mem[o].op \in Requests
    BY <2>1 DEF TypeOK, OperationRecord
  <2>5. sched' \in Table
    BY <1>12, <2>4, FollowUpsType DEF ApplyFollowUp, TypeOK
  <2>6. applied' \in [Ops -> {"no", "yes", "either", "stale"}]
    BY <1>12 DEF ApplyFollowUp, Edited, Ran, TypeOK
  <2>7. QED
    BY <1>12, <2>3, <2>5, <2>6 DEF ApplyFollowUp, TypeOK, agent
<1>13. ASSUME NEW o \in Ops, RecordOutcome(o)
       PROVE  TypeOK'
  <2>0. o \in DOMAIN mem /\ o \in DOMAIN todo
    BY <1>13, ConstantsOK DEF RecordOutcome, CurOK
  <2>1. todo[o] \in States /\ mem[o] \in OperationRecord
    BY <2>0 DEF TypeOK
  <2>2. [mem[o] EXCEPT !.result = todo[o]] \in OperationRecord
    BY <2>1 DEF OperationRecord
  <2>3. mem' \in [DOMAIN mem' -> OperationRecord] /\ DOMAIN mem' = DOMAIN mem
    BY <1>13, <2>0, <2>2 DEF RecordOutcome, TypeOK
  <2>4. audit' \in [Ops -> {"none", "open"} \cup States]
    BY <1>13, <2>1 DEF RecordOutcome, TypeOK
  <2>5. QED
    BY <1>13, <2>3, <2>4 DEF RecordOutcome, Done, TypeOK, agent
<1>14. ASSUME NEW o \in Ops, FollowUpError(o)
       PROVE  TypeOK'
  BY <1>14, EndCallType DEF FollowUpError, TypeOK, disk, agent
<1>15. ASSUME FinishReport
       PROVE  TypeOK'
  <2>1. ops' \in [DOMAIN ops' -> OperationRecord] /\ DOMAIN ops' \subseteq Ops
    BY <1>15 DEF FinishReport, TypeOK
  <2>2. QED
    BY <1>15, <2>1, EndCallType DEF FinishReport, TypeOK, agent
<1>16. ASSUME Crash
       PROVE  TypeOK'
  <2>1. crashes' \in 0..MaxCrashes
    BY <1>16, ConstantsOK DEF Crash, TypeOK
  <2>2. QED
    BY <1>16, <2>1, EndCallType DEF Crash, TypeOK, disk, agent
<1>17. ASSUME NEW a \in Agents, NEW lost \in SUBSET Ops, Poll(a, lost)
       PROVE  TypeOK'
  <2>1. PublishedTo(a) \subseteq Ops
    BY DEF PublishedTo, TypeOK
  <2>2. view' \in [Agents -> SUBSET Ops]
    BY <1>17, <2>1 DEF Poll, TypeOK
  <2>3. ledger' \in [Ops -> {NoLedger} \cup States]
    BY <1>17 DEF Poll, TypeOK
  <2>4. QED
    BY <1>17, <2>2, <2>3 DEF Poll, TypeOK, disk, call
<1>18. ASSUME NEW a \in Agents, SendReport(a)
       PROVE  TypeOK'
  <2> DEFINE known == {o \in IssuedTo(a) : ledger[o] # NoLedger}
             rep   == [from |-> a, results |-> [o \in known |-> ledger[o]],
                       admitted |-> FALSE]
  <2>1. known \in SUBSET Ops
    BY DEF IssuedTo, TypeOK
  <2>2. [o \in known |-> ledger[o]] \in [known -> States]
    BY <2>1 DEF TypeOK
  <2>3. [o \in known |-> ledger[o]] \in UNION {[S -> States] : S \in SUBSET Ops}
    BY <2>1, <2>2
  <2>4. rep \in Report
    BY <2>3 DEF Report
  <2>5. wire' = wire \cup {rep}
    BY <1>18 DEF SendReport
  <2>6. QED
    BY <1>18, <2>4, <2>5 DEF SendReport, TypeOK, disk, call, agent
<1>19. ASSUME NEW o \in Ops, Start(o)
       PROVE  TypeOK'
  <2>1. ledger' \in [Ops -> {NoLedger} \cup States]
    BY <1>19 DEF Start, TypeOK, States
  <2>2. runs' \in [Ops -> 0..2]
    BY <1>19 DEF Start, TypeOK
  <2>3. QED
    BY <1>19, <2>1, <2>2 DEF Start, TypeOK, disk, call
<1>20. ASSUME NEW o \in Ops, NEW outcome \in Failures, Decline(o, outcome)
       PROVE  TypeOK'
  <2>1. outcome \in States
    BY ConstantsOK DEF Outcomes
  <2>2. QED
    BY <1>20, <2>1 DEF Decline, TypeOK, disk, call
<1>21. ASSUME NEW o \in Ops, NEW outcome \in Failures \cup {"done"}, EndWork(o, outcome)
       PROVE  TypeOK'
  <2>1. outcome \in States
    BY ConstantsOK DEF Outcomes, States
  <2>2. QED
    BY <1>21, <2>1 DEF EndWork, TypeOK, disk, call
<1>22. ASSUME UNCHANGED vars
       PROVE  TypeOK'
  BY <1>22 DEF vars, disk, call, agent, TypeOK
<1>23. QED
  BY <1>1, <1>2, <1>3, <1>4, <1>5, <1>6, <1>7, <1>8, <1>9, <1>10, <1>11, <1>12,
     <1>13, <1>14, <1>15, <1>16, <1>17, <1>18, <1>19, <1>20, <1>21, <1>22
  DEF Next, Operator, ProcessResult, Work

(* The result in hand is one of the report's.                              *)
LEMMA CurStep ==
  ASSUME CurOK, [Next]_vars
  PROVE  CurOK'
<1>1. ASSUME UNCHANGED call
      PROVE  CurOK'
  BY <1>1 DEF CurOK, call
<1>2. ASSUME EndCall
      PROVE  CurOK'
  BY <1>2 DEF CurOK, EndCall
<1>3. ASSUME NEW o \in Ops, ProcessResult(o)
      PROVE  CurOK'
  <2>1. CASE SkipResult(o)
    BY <2>1 DEF SkipResult, NextResult, CurOK
  <2>2. CASE NoteProgress(o)
    BY <2>2 DEF NoteProgress, NextResult, CurOK
  <2>3. CASE ApplyFollowUp(o)
    BY <2>3 DEF ApplyFollowUp, NextResult, Skipped, CurOK
  <2>4. CASE RecordOutcome(o)
    BY <2>4 DEF RecordOutcome, CurOK
  <2>5. CASE FollowUpError(o)
    BY <2>5, <1>2 DEF FollowUpError
  <2>6. QED
    BY <1>3, <2>1, <2>2, <2>3, <2>4, <2>5 DEF ProcessResult
<1>4. ASSUME NEW rep \in wire, BeginReport(rep)
      PROVE  CurOK'
  BY <1>4 DEF BeginReport, CurOK
<1>5. QED
  BY <1>1, <1>2, <1>3, <1>4
  DEF Next, Operator, Work, CreateOperation, CancelOperation, SetScheduleEntry,
      DeleteScheduleEntry, Enrol, Revoke, AdmitReport, RejectReport, LoseReport,
      FinishReport, Crash, Poll, SendReport, Start, Decline, EndWork, vars

(* Every file, the call in progress and the agents' state have their       *)
(* types, for every number of operations, agents, reports and crashes.     *)
THEOREM TypeCorrect == Spec => []TypeOK
<1>1. Init => TypeOK /\ CurOK
  BY TypeInit DEF Init, Idle, CurOK
<1>2. TypeOK /\ CurOK /\ [Next]_vars => TypeOK' /\ CurOK'
  BY TypeStep, CurStep
<1>3. QED
  BY <1>1, <1>2, PTL DEF Spec

----------------------------------------------------------------------------
(* What makes the protocol safe.                                           *)
(*                                                                         *)
(* A record is settled when FollowUpDone is set exactly once its outcome   *)
(* is kept.  Every record a reader sees is settled; while a report is      *)
(* worked on, every record but the one in hand is settled in memory, a     *)
(* record that is finished with on disk is untouched in memory, and what   *)
(* was asked and withdrawn is the same in both.                            *)

Settled(rec) == Terminal(rec.result) <=> rec.followUp

RecordsOK == \A o \in DOMAIN ops : Settled(Loaded[o])

CallOK ==
  writer # Nobody =>
    /\ DOMAIN mem = DOMAIN ops
    /\ \A o \in DOMAIN ops :
         /\ mem[o].op = ops[o].op /\ mem[o].cancelled = ops[o].cancelled
         /\ o # cur => Settled(mem[o])
         /\ Terminal(Loaded[o].result) => mem[o] = Loaded[o]
         /\ Started(Loaded[o]) => Started(mem[o])

HandOK ==
  cur # NoOp => /\ Terminal(todo[cur]) /\ mem[cur].followUp
                /\ ~Terminal(mem[cur].result) /\ ~Terminal(Loaded[cur].result)

SafeInv == TypeOK /\ CurOK /\ RecordsOK /\ CallOK /\ HandOK

(* Healing touches nothing but a result, and no settled record.            *)
LEMMA HealFacts ==
  ASSUME NEW rec \in OperationRecord
  PROVE  /\ Heal(rec).op = rec.op /\ Heal(rec).cancelled = rec.cancelled
         /\ Heal(rec).followUp = rec.followUp
         /\ Started(Heal(rec)) <=> Started(rec)
         /\ Settled(rec) => Heal(rec) = rec
         /\ Terminal(rec.result) => Heal(rec) = rec
         /\ Heal(Heal(rec)) = Heal(rec)
<1>1. CASE rec.result = "running" /\ rec.followUp
  <2>1. Heal(rec) = [rec EXCEPT !.result = "unknown"]
    BY <1>1 DEF Heal
  <2>2. /\ Heal(rec).op = rec.op /\ Heal(rec).cancelled = rec.cancelled
        /\ Heal(rec).followUp = rec.followUp /\ Heal(rec).result = "unknown"
    BY <2>1 DEF OperationRecord
  <2>3. Heal(Heal(rec)) = Heal(rec)
    BY <2>2 DEF Heal
  <2>4. QED
    BY <1>1, <2>2, <2>3 DEF Started, Settled, Terminal, Outcomes, NoResult
<1>2. CASE ~(rec.result = "running" /\ rec.followUp)
  <2>1. Heal(rec) = rec
    BY <1>2 DEF Heal
  <2>2. QED
    BY <2>1
<1>3. QED
  BY <1>1, <1>2

(* The same of the records a reader sees.                                  *)
LEMMA LoadedFacts ==
  ASSUME TypeOK, NEW o \in DOMAIN ops
  PROVE  /\ Loaded[o] \in OperationRecord /\ Heal(Loaded[o]) = Loaded[o]
         /\ Loaded[o].op = ops[o].op /\ Loaded[o].cancelled = ops[o].cancelled
<1>1. ops[o] \in OperationRecord /\ Loaded[o] = Heal(ops[o])
  BY LoadedType DEF TypeOK
<1>2. QED
  BY <1>1, HealFacts, HealType

(* No step of a call takes in a report on a record that is finished with.  *)
LEMMA NotSkipped ==
  ASSUME TypeOK, CallOK, NEW o \in Ops, NextResult(o), ~Skipped(o)
  PROVE  /\ o \in DOMAIN mem /\ o \in DOMAIN ops /\ mem[o] \in OperationRecord
         /\ ~Terminal(mem[o].result) /\ ~mem[o].followUp /\ ~Terminal(Loaded[o].result)
<1>1. /\ o \in DOMAIN mem /\ o \in DOMAIN ops /\ o # cur /\ Settled(mem[o])
      /\ Terminal(Loaded[o].result) => mem[o] = Loaded[o]
  BY ConstantsOK DEF NextResult, Skipped, CallOK
<1>2. mem[o] \in OperationRecord
  BY <1>1 DEF TypeOK
<1>3. ~Terminal(mem[o].result)
  BY <1>1, <1>2 DEF Skipped, Settled, Terminal, Outcomes, States, NoResult
<1>4. ~mem[o].followUp
  BY <1>1, <1>2, <1>3 DEF Settled, OperationRecord
<1>5. QED
  BY <1>1, <1>2, <1>3, <1>4

(* How a step may change the records a reader sees: none is lost, and what *)
(* was asked, withdrawn, started or finished stays so.                     *)
Grows ==
  \A o \in DOMAIN ops :
    /\ o \in DOMAIN ops' /\ ops'[o].op = ops[o].op
    /\ ops[o].cancelled => ops'[o].cancelled
    /\ Started(Loaded[o]) => Started(Loaded'[o])
    /\ Terminal(Loaded[o].result) => Loaded'[o].result = Loaded[o].result

(* A step of the call leaves the files it does not rewrite alone.          *)
LEMMA SameRecords ==
  ASSUME TypeOK, UNCHANGED ops
  PROVE  /\ Loaded' = Loaded /\ Grows
         /\ RecordsOK => RecordsOK'
<1>1. Loaded' = Loaded
  BY DEF Loaded, Load
<1>2. QED
  BY <1>1 DEF Grows, RecordsOK

(* Outside a call there is nothing to keep about one.                      *)
LEMMA NoCall ==
  ASSUME EndCall
  PROVE  CurOK' /\ CallOK' /\ HandOK'
BY DEF EndCall, CurOK, CallOK, HandOK

(* The steps that leave operations.json and the call in progress alone.    *)
LEMMA QuietStep ==
  ASSUME SafeInv, UNCHANGED <<ops, call>>
  PROVE  RecordsOK' /\ CallOK' /\ HandOK' /\ Grows
<1>1. Loaded' = Loaded /\ Grows /\ RecordsOK'
  BY SameRecords DEF SafeInv
<1>2. CallOK' /\ HandOK'
  BY <1>1 DEF SafeInv, CallOK, HandOK, call
<1>3. QED
  BY <1>1, <1>2

(* CreateOperation adds an open record and keeps the others.               *)
LEMMA CreateStep ==
  ASSUME SafeInv, NEW o \in Ops, NEW req \in Requests, CreateOperation(o, req)
  PROVE  /\ RecordsOK' /\ CallOK' /\ HandOK' /\ Grows
         /\ DOMAIN ops' = DOMAIN ops \cup {o}
         /\ \A p \in DOMAIN ops : Loaded'[p] = Loaded[p]
         /\ Loaded'[o] = ops'[o]
         /\ ops'[o] = [op |-> req, result |-> NoResult, followUp |-> FALSE, cancelled |-> FALSE]
<1> DEFINE new == [op |-> req, result |-> NoResult, followUp |-> FALSE, cancelled |-> FALSE]
<1>1. /\ DOMAIN ops' = DOMAIN ops \cup {o} /\ o \notin DOMAIN ops
      /\ ops'[o] = new
      /\ \A p \in DOMAIN ops : ops'[p] = Loaded[p]
  BY DEF CreateOperation
<1>2. \A p \in DOMAIN ops' : Loaded'[p] = Heal(ops'[p])
  BY DEF Loaded, Load
<1>3. \A p \in DOMAIN ops : Loaded'[p] = Loaded[p]
  BY <1>1, <1>2, LoadedFacts DEF SafeInv
<1>4. Loaded'[o] = new
  <2>1. new.followUp = FALSE
    OBVIOUS
  <2>2. Heal(new) = new
    BY <2>1 DEF Heal
  <2>3. QED
    BY <1>1, <1>2, <2>2
<1>5. Settled(new)
  BY DEF Settled, Terminal, Outcomes, States, NoResult
<1>6. RecordsOK'
  BY <1>1, <1>3, <1>4, <1>5 DEF RecordsOK, SafeInv
<1>7. Grows
  BY <1>1, <1>3, LoadedFacts DEF Grows, SafeInv
<1>8. CallOK' /\ HandOK'
  BY DEF CreateOperation, call, CallOK, HandOK, SafeInv, CurOK
<1>9. QED
  BY <1>1, <1>3, <1>4, <1>6, <1>7, <1>8

(* CancelOperation marks one record and keeps the others.                  *)
LEMMA CancelStep ==
  ASSUME SafeInv, NEW o \in Ops, CancelOperation(o)
  PROVE  /\ RecordsOK' /\ CallOK' /\ HandOK' /\ Grows
         /\ DOMAIN ops' = DOMAIN ops
         /\ \A p \in DOMAIN ops \ {o} : Loaded'[p] = Loaded[p] /\ ops'[p] = Loaded[p]
         /\ ops'[o].cancelled /\ Loaded'[o].result = Loaded[o].result
<1>1. /\ o \in DOMAIN ops /\ DOMAIN ops' = DOMAIN ops
      /\ ops' = [Loaded EXCEPT ![o] = [Loaded[o] EXCEPT !.cancelled = TRUE]]
  BY LoadedType DEF CancelOperation, SafeInv
<1>2. \A p \in DOMAIN ops' : Loaded'[p] = Heal(ops'[p])
  BY DEF Loaded, Load
<1>3. \A p \in DOMAIN ops \ {o} : ops'[p] = Loaded[p] /\ Loaded'[p] = Loaded[p]
  BY <1>1, <1>2, LoadedFacts, LoadedType DEF SafeInv
<1>4. /\ ops'[o].op = Loaded[o].op /\ ops'[o].cancelled
      /\ ops'[o].result = Loaded[o].result /\ ops'[o].followUp = Loaded[o].followUp
      /\ ops'[o] \in OperationRecord
  <2>1. Loaded[o] \in OperationRecord /\ o \in DOMAIN Loaded
    BY <1>1, LoadedFacts, LoadedType DEF SafeInv
  <2>2. ops'[o] = [Loaded[o] EXCEPT !.cancelled = TRUE]
    BY <1>1, <2>1
  <2>3. QED
    BY <2>1, <2>2 DEF OperationRecord
<1>5. Settled(ops'[o])
  BY <1>1, <1>4 DEF SafeInv, RecordsOK, Settled
<1>6. Loaded'[o] = ops'[o]
  BY <1>1, <1>2, <1>4, <1>5, HealFacts
<1>7. RecordsOK'
  BY <1>1, <1>3, <1>5, <1>6 DEF RecordsOK, SafeInv
<1>8. Grows
  BY <1>1, <1>3, <1>4, <1>6, LoadedFacts DEF Grows, SafeInv, Started
<1>9. CallOK' /\ HandOK'
  BY DEF CancelOperation, call, CallOK, HandOK, SafeInv, CurOK
<1>10. QED
  BY <1>1, <1>3, <1>4, <1>6, <1>7, <1>8, <1>9

(* BeginReport starts from the records a reader sees.                      *)
LEMMA BeginStep ==
  ASSUME SafeInv, NEW rep \in wire, BeginReport(rep)
  PROVE  RecordsOK' /\ CallOK' /\ HandOK' /\ Grows
<1>1. Loaded' = Loaded /\ Grows /\ RecordsOK' /\ UNCHANGED ops
  BY SameRecords DEF SafeInv, BeginReport, disk
<1>2. cur = NoOp /\ cur' = NoOp
  BY DEF SafeInv, CurOK, BeginReport
<1>3. DOMAIN mem' = DOMAIN ops' /\ mem' = Loaded'
  BY <1>1, LoadedType DEF BeginReport, SafeInv
<1>4. \A o \in DOMAIN ops' :
        /\ mem'[o] = Loaded[o]
        /\ Loaded[o].op = ops[o].op /\ Loaded[o].cancelled = ops[o].cancelled
        /\ Settled(Loaded[o])
  BY <1>1, <1>3, LoadedFacts DEF SafeInv, RecordsOK
<1>5. CallOK'
  BY <1>1, <1>3, <1>4 DEF CallOK
<1>6. QED
  BY <1>1, <1>2, <1>5 DEF HandOK

(* Working through a report: operations.json is not written, and memory    *)
(* keeps what it must.                                                     *)
LEMMA WorkStep ==
  ASSUME SafeInv, NEW o \in Ops, ProcessResult(o)
  PROVE  RecordsOK' /\ CallOK' /\ HandOK' /\ Grows
<1>1. Loaded' = Loaded /\ Grows /\ RecordsOK' /\ UNCHANGED ops
  BY SameRecords
  DEF SafeInv, ProcessResult, SkipResult, NoteProgress, ApplyFollowUp, RecordOutcome,
      FollowUpError, disk
<1>2. CASE SkipResult(o)
  BY <1>1, <1>2 DEF SkipResult, NextResult, SafeInv, CallOK, HandOK
<1>3. CASE NoteProgress(o)
  <2>1. /\ NextResult(o) /\ ~Skipped(o) /\ UNCHANGED <<writer, cur>>
        /\ mem' = [mem EXCEPT ![o].result = todo[o]] /\ ~Terminal(todo[o])
        /\ cur = NoOp
    BY <1>3 DEF NoteProgress, NextResult
  <2>2. /\ o \in DOMAIN mem /\ o \in DOMAIN ops /\ mem[o] \in OperationRecord
        /\ ~Terminal(mem[o].result) /\ ~mem[o].followUp /\ ~Terminal(Loaded[o].result)
    BY <2>1, NotSkipped DEF SafeInv
  <2>3. /\ mem'[o].op = mem[o].op /\ mem'[o].cancelled = mem[o].cancelled
        /\ mem'[o].followUp = mem[o].followUp /\ mem'[o].result = todo[o]
        /\ DOMAIN mem' = DOMAIN mem
        /\ \A p \in DOMAIN mem \ {o} : mem'[p] = mem[p]
    BY <2>1, <2>2 DEF OperationRecord
  <2>4. Settled(mem'[o])
    BY <2>1, <2>2, <2>3 DEF Settled
  <2>5. Started(mem'[o])
    <3>1. todo[o] \in States
      BY <2>1 DEF NextResult, SafeInv, TypeOK
    <3>2. QED
      BY <2>3, <3>1 DEF Started, States, NoResult
  <2>6. CallOK'
    BY <1>1, <2>1, <2>2, <2>3, <2>4, <2>5 DEF SafeInv, CallOK, NextResult
  <2>7. QED
    BY <1>1, <2>1, <2>6 DEF HandOK
<1>4. CASE ApplyFollowUp(o)
  <2>1. /\ NextResult(o) /\ ~Skipped(o) /\ UNCHANGED <<writer, todo>> /\ cur' = o
        /\ mem' = [mem EXCEPT ![o].followUp = TRUE] /\ Terminal(todo[o])
        /\ cur = NoOp
    BY <1>4 DEF ApplyFollowUp, NextResult
  <2>2. /\ o \in DOMAIN mem /\ o \in DOMAIN ops /\ mem[o] \in OperationRecord
        /\ ~Terminal(mem[o].result) /\ ~mem[o].followUp /\ ~Terminal(Loaded[o].result)
    BY <2>1, NotSkipped DEF SafeInv
  <2>3. /\ mem'[o].op = mem[o].op /\ mem'[o].cancelled = mem[o].cancelled
        /\ mem'[o].followUp /\ mem'[o].result = mem[o].result
        /\ DOMAIN mem' = DOMAIN mem
        /\ \A p \in DOMAIN mem \ {o} : mem'[p] = mem[p]
    BY <2>1, <2>2 DEF OperationRecord
  <2>4. Started(mem[o]) <=> Started(mem'[o])
    BY <2>3 DEF Started
  <2>. \A p \in DOMAIN ops : p # cur
    BY <2>1, ConstantsOK DEF SafeInv, TypeOK
  <2>5. CallOK'
    BY <1>1, <2>1, <2>2, <2>3, <2>4 DEF SafeInv, CallOK
  <2>6. HandOK'
    BY <1>1, <2>1, <2>2, <2>3 DEF HandOK
  <2>7. QED
    BY <1>1, <2>5, <2>6
<1>5. CASE RecordOutcome(o)
  <2>1. /\ writer # Nobody /\ UNCHANGED writer /\ cur = o /\ cur' = NoOp
        /\ mem' = [mem EXCEPT ![o].result = todo[o]]
    BY <1>5 DEF RecordOutcome
  <2>2. /\ o \in DOMAIN mem /\ o \in DOMAIN ops /\ mem[o] \in OperationRecord
        /\ mem[o].followUp /\ Terminal(todo[o]) /\ ~Terminal(Loaded[o].result)
    BY <2>1, ConstantsOK DEF SafeInv, CurOK, CallOK, HandOK, TypeOK
  <2>3. /\ mem'[o].op = mem[o].op /\ mem'[o].cancelled = mem[o].cancelled
        /\ mem'[o].followUp = mem[o].followUp /\ mem'[o].result = todo[o]
        /\ DOMAIN mem' = DOMAIN mem
        /\ \A p \in DOMAIN mem \ {o} : mem'[p] = mem[p]
    BY <2>1, <2>2 DEF OperationRecord
  <2>4. Settled(mem'[o]) /\ Started(mem'[o])
    BY <2>2, <2>3 DEF Settled, Started, Terminal, Outcomes, States, NoResult
  <2>5. CallOK'
    BY <1>1, <2>1, <2>2, <2>3, <2>4 DEF SafeInv, CallOK
  <2>6. QED
    BY <1>1, <2>1, <2>5 DEF HandOK
<1>6. CASE FollowUpError(o)
  BY <1>1, <1>6, NoCall DEF FollowUpError
<1>7. QED
  BY <1>2, <1>3, <1>4, <1>5, <1>6 DEF ProcessResult

(* The write at the end of a call takes nothing back.                      *)
LEMMA FinishStep ==
  ASSUME SafeInv, FinishReport
  PROVE  /\ RecordsOK' /\ CallOK' /\ HandOK' /\ Grows
         /\ DOMAIN ops' = DOMAIN ops
         /\ \A o \in DOMAIN ops : ops'[o].cancelled = ops[o].cancelled
         /\ changed => \A o \in DOMAIN ops : Loaded'[o] = mem[o]
         /\ ~changed => UNCHANGED ops
<1>1. CallOK' /\ HandOK'
  BY NoCall DEF FinishReport
<1>2. CASE ~changed
  <2>1. UNCHANGED ops
    BY <1>2 DEF FinishReport
  <2>2. QED
    BY <1>1, <1>2, <2>1, SameRecords DEF SafeInv
<1>3. CASE changed
  <2>1. /\ ops' = mem /\ cur = NoOp /\ DOMAIN mem = DOMAIN ops
    BY <1>3 DEF FinishReport, SafeInv, CallOK
  <2>2. \A o \in DOMAIN ops :
          /\ mem[o].op = ops[o].op /\ mem[o].cancelled = ops[o].cancelled
          /\ Settled(mem[o]) /\ mem[o] \in OperationRecord
          /\ Terminal(Loaded[o].result) => mem[o] = Loaded[o]
          /\ Started(Loaded[o]) => Started(mem[o])
    BY <2>1, ConstantsOK DEF FinishReport, SafeInv, CallOK, TypeOK
  <2>3. \A o \in DOMAIN ops' : Loaded'[o] = Heal(ops'[o])
    BY DEF Loaded, Load
  <2>4. \A o \in DOMAIN ops : Loaded'[o] = mem[o]
    BY <2>1, <2>2, <2>3, HealFacts
  <2>5. RecordsOK'
    BY <2>1, <2>2, <2>4 DEF RecordsOK
  <2>6. Grows
    BY <2>1, <2>2, <2>4 DEF Grows
  <2>7. QED
    BY <1>1, <1>3, <2>1, <2>2, <2>4, <2>5, <2>6
<1>4. QED
  BY <1>2, <1>3 DEF SafeInv, TypeOK

(* The invariant is inductive, and every step only adds to what is known.  *)
LEMMA SafeStep ==
  ASSUME SafeInv, [Next]_vars
  PROVE  /\ SafeInv' /\ Grows
         /\ \/ DOMAIN ops' = DOMAIN ops
            \/ \E o \in Ops, req \in Requests : CreateOperation(o, req)
<1>1. TypeOK' /\ CurOK'
  BY TypeStep, CurStep DEF SafeInv
<1> DEFINE Goal == /\ RecordsOK' /\ CallOK' /\ HandOK' /\ Grows
                   /\ \/ DOMAIN ops' = DOMAIN ops
                      \/ \E o \in Ops, req \in Requests : CreateOperation(o, req)
<1>2. ASSUME NEW o \in Ops, NEW req \in Requests, CreateOperation(o, req)
      PROVE  Goal
  BY <1>2, CreateStep
<1>3. ASSUME NEW o \in Ops, CancelOperation(o)
      PROVE  Goal
  BY <1>3, CancelStep
<1>4. ASSUME UNCHANGED <<ops, call>>
      PROVE  Goal
  BY <1>4, QuietStep
<1>5. ASSUME NEW rep \in wire, BeginReport(rep)
      PROVE  Goal
  BY <1>5, BeginStep DEF BeginReport, disk
<1>6. ASSUME NEW o \in Ops, ProcessResult(o)
      PROVE  Goal
  <2>1. UNCHANGED ops
    BY <1>6 DEF ProcessResult, SkipResult, NoteProgress, ApplyFollowUp, RecordOutcome,
                FollowUpError, disk
  <2>2. QED
    BY <1>6, <2>1, WorkStep
<1>7. ASSUME FinishReport
      PROVE  Goal
  BY <1>7, FinishStep
<1>8. ASSUME Crash
      PROVE  Goal
  <2>1. UNCHANGED ops
    BY <1>8 DEF Crash, disk
  <2>2. RecordsOK' /\ Grows
    BY <2>1, SameRecords DEF SafeInv
  <2>3. CallOK' /\ HandOK'
    BY <1>8, NoCall DEF Crash
  <2>4. QED
    BY <2>1, <2>2, <2>3
<1>9. ASSUME NEW save \in Saves,
             \/ SetScheduleEntry(save[1], save[2])
             \/ DeleteScheduleEntry(save[1], save[2].vm)
      PROVE  Goal
  BY <1>4, <1>9 DEF SetScheduleEntry, DeleteScheduleEntry
<1>10. ASSUME NEW a \in Agents, Enrol(a) \/ Revoke(a) \/ SendReport(a)
       PROVE  Goal
  BY <1>4, <1>10 DEF Enrol, Revoke, SendReport, disk
<1>11. ASSUME NEW rep \in wire, AdmitReport(rep) \/ RejectReport(rep) \/ LoseReport(rep)
       PROVE  Goal
  BY <1>4, <1>11 DEF AdmitReport, RejectReport, LoseReport, disk
<1>12. ASSUME NEW a \in Agents, NEW lost \in SUBSET Ops, Poll(a, lost)
       PROVE  Goal
  BY <1>4, <1>12 DEF Poll, disk
<1>13. ASSUME NEW o \in Ops, Work(o)
       PROVE  Goal
  BY <1>4, <1>13 DEF Work, Start, Decline, EndWork, disk
<1>14. ASSUME UNCHANGED vars
       PROVE  Goal
  BY <1>4, <1>14 DEF vars, disk
<1>15. Goal
  <2> HIDE DEF Goal
  <2> QED
    BY <1>2, <1>3, <1>5, <1>6, <1>7, <1>8, <1>9, <1>10, <1>11, <1>12, <1>13, <1>14
    DEF Next, Operator
<1>16. QED
  BY <1>1, <1>15 DEF SafeInv

(* Whatever the previous build left reads as an outcome that was lost.     *)
LEMMA InitRecords ==
  ASSUME Init, NEW o \in DOMAIN ops
  PROVE  /\ ~ops[o].cancelled /\ ops[o] \in OperationRecord
         /\ Loaded[o].result = "unknown" /\ Loaded[o].followUp
         /\ Terminal(Loaded[o].result)
<1>1. ops[o].result = "running" /\ ops[o].followUp /\ ~ops[o].cancelled
  BY DEF Init, LegacyRecord
<1>2. ops[o] \in OperationRecord /\ Loaded[o] = Heal(ops[o])
  BY TypeInit, LoadedType DEF TypeOK
<1>3. Loaded[o] = [ops[o] EXCEPT !.result = "unknown"]
  BY <1>1, <1>2 DEF Heal
<1>4. Loaded[o].result = "unknown" /\ Loaded[o].followUp
  BY <1>1, <1>2, <1>3 DEF OperationRecord
<1>5. QED
  BY <1>1, <1>2, <1>4 DEF Terminal, Outcomes, States

(* The files found at the start satisfy the invariant, the previous        *)
(* build's records included.                                               *)
LEMMA SafeInit ==
  ASSUME Init
  PROVE  SafeInv
<1>1. TypeOK /\ CurOK
  BY TypeInit DEF Init, Idle, CurOK
<1>2. CallOK /\ HandOK
  BY DEF Init, Idle, CallOK, HandOK
<1>3. RecordsOK
  BY InitRecords DEF RecordsOK, Settled
<1>4. QED
  BY <1>1, <1>2, <1>3 DEF SafeInv

(* A record and its withdrawal, as a reader sees them after a step.        *)
LEMMA CancelKept ==
  ASSUME SafeInv, TypeOK', Grows, NEW o \in DOMAIN ops
  PROVE  /\ o \in DOMAIN ops' /\ Loaded'[o].op = Loaded[o].op
         /\ Loaded'[o].op = ops'[o].op /\ Loaded'[o].cancelled = ops'[o].cancelled
         /\ Loaded[o].cancelled => Loaded'[o].cancelled
<1>1. /\ o \in DOMAIN ops' /\ ops'[o].op = ops[o].op
      /\ ops[o].cancelled => ops'[o].cancelled
  BY DEF Grows
<1>2. Loaded'[o] = Heal(ops'[o]) /\ ops'[o] \in OperationRecord
  BY <1>1 DEF Loaded, Load, TypeOK
<1>3. Loaded'[o].op = ops'[o].op /\ Loaded'[o].cancelled = ops'[o].cancelled
  BY <1>2, HealFacts
<1>4. Loaded[o].op = ops[o].op /\ Loaded[o].cancelled = ops[o].cancelled
  BY LoadedFacts DEF SafeInv
<1>5. QED
  BY <1>1, <1>3, <1>4

(* No step puts an operation back into its agent's configuration.          *)
LEMMA PendingStep ==
  ASSUME SafeInv, TypeOK', Grows, NEW o \in DOMAIN ops, ~Pending(Loaded[o])
  PROVE  ~Pending(Loaded'[o])
<1>1. Terminal(Loaded[o].result) => Loaded'[o].result = Loaded[o].result
  BY DEF Grows
<1>2. QED
  BY <1>1, CancelKept DEF Pending

(* NeverRepublished, for every number of agents, reports and crashes.      *)
THEOREM Unpublished == Spec => NeverRepublished
<1>1. Init => SafeInv
  BY SafeInit
<1>2. SafeInv /\ [Next]_vars => SafeInv'
  BY SafeStep
<1>3. SafeInv /\ [Next]_vars =>
        [\A o \in DOMAIN ops : ~Pending(Loaded[o]) => ~Pending(Loaded'[o])]_vars
  BY SafeStep, PendingStep DEF SafeInv
<1>4. QED
  BY <1>1, <1>2, <1>3, PTL DEF Spec, NeverRepublished

----------------------------------------------------------------------------
(* One operation in flight per VM.                                         *)

(* What is in flight is what is published.                                 *)
LEMMA InFlightIsPending ==
  ASSUME NEW o
  PROVE  InFlight(o) <=> Pending(Loaded[o])
BY DEF InFlight, Pending, Terminal

(* CreateOperation is the only step that adds an operation in flight, and  *)
(* it looks for another one of the same VM first.                          *)
LEMMA OneInFlightStep ==
  ASSUME SafeInv, OneInFlightPerVM, [Next]_vars
  PROVE  OneInFlightPerVM'
<1>1. TypeOK' /\ Grows
  BY SafeStep DEF SafeInv
<1> SUFFICES ASSUME NEW o \in DOMAIN ops', NEW p \in DOMAIN ops',
                    InFlight(o)', InFlight(p)', SameVM(o, p)'
             PROVE  o = p
  BY DEF OneInFlightPerVM
<1>2. Pending(Loaded'[o]) /\ Pending(Loaded'[p])
  BY DEF InFlight, Pending, Terminal
<1>3. \A q \in DOMAIN ops :
        /\ ops'[q].op = ops[q].op
        /\ Pending(Loaded'[q]) => Pending(Loaded[q])
  BY <1>1, PendingStep DEF Grows
<1>4. CASE DOMAIN ops' = DOMAIN ops
  BY <1>2, <1>3, <1>4, InFlightIsPending DEF OneInFlightPerVM, SameVM
<1>5. ASSUME NEW new \in Ops, NEW req \in Requests, CreateOperation(new, req)
      PROVE  o = p
  <2>1. /\ DOMAIN ops' = DOMAIN ops \cup {new}
        /\ ops'[new].op = req
        /\ \A q \in DOMAIN ops : ops'[q].op = Loaded[q].op
    BY <1>5, LoadedFacts DEF CreateOperation, SafeInv
  <2>2. \A q \in DOMAIN ops : Pending(Loaded[q]) => Fold(ops'[q].op.vm) # Fold(ops'[new].op.vm)
    BY <1>5, <2>1 DEF CreateOperation
  <2>3. CASE o \in DOMAIN ops /\ p \in DOMAIN ops
    BY <1>2, <1>3, <2>3, InFlightIsPending DEF OneInFlightPerVM, SameVM
  <2>4. CASE o = new /\ p # new
    BY <1>2, <1>3, <2>1, <2>2, <2>4 DEF SameVM
  <2>5. CASE p = new /\ o # new
    BY <1>2, <1>3, <2>1, <2>2, <2>5 DEF SameVM
  <2>6. QED
    BY <2>1, <2>3, <2>4, <2>5
<1>6. QED
  BY <1>4, <1>5, SafeStep

(* At most one operation is in flight for a VM, whatever reports, crashes  *)
(* and cancels interleave and whatever the previous build left.            *)
THEOREM OnePerVM == Spec => []OneInFlightPerVM
<1>1. Init => SafeInv /\ OneInFlightPerVM
  <2> SUFFICES ASSUME Init
               PROVE  OneInFlightPerVM
    BY SafeInit
  <2>1. QED
    BY InitRecords, InFlightIsPending DEF OneInFlightPerVM, Pending
<1>2. SafeInv /\ OneInFlightPerVM /\ [Next]_vars => SafeInv' /\ OneInFlightPerVM'
  BY SafeStep, OneInFlightStep
<1>3. QED
  BY <1>1, <1>2, PTL DEF Spec

----------------------------------------------------------------------------
(* Executed exactly once.  The agent's ledger forgets an operation only    *)
(* once it is unpublished; what it has carried out and forgotten is        *)
(* therefore in no configuration it holds or will ever be given.           *)

OnceInv ==
  /\ \A o \in Ops : runs[o] <= 1
  /\ \A o \in Ops : runs[o] >= 1 => o \in DOMAIN ops
  /\ \A a \in Agents : \A o \in view[a] : o \in DOMAIN ops /\ ops[o].op.agent = a
  /\ \A o \in DOMAIN ops :
       runs[o] >= 1 /\ ledger[o] = NoLedger =>
         ~Pending(Loaded[o]) /\ \A a \in Agents : o \notin view[a]

(* At the start no agent has carried anything out.                         *)
LEMMA OnceInit ==
  ASSUME Init
  PROVE  OnceInv
<1>1. \A o \in DOMAIN ops : ~Pending(Loaded[o])
  BY InitRecords DEF Pending
<1>2. \A o \in Ops : runs[o] \in {0, 1} /\ (runs[o] = 1 => o \in DOMAIN ops)
  BY DEF Init
<1>3. \A a \in Agents : view[a] = {}
  BY DEF Init
<1>4. QED
  BY <1>1, <1>2, <1>3 DEF OnceInv

(* Steps that leave the agents alone.                                      *)
LEMMA OnceQuiet ==
  ASSUME SafeInv, TypeOK', OnceInv, Grows, UNCHANGED <<view, ledger, runs>>
  PROVE  OnceInv'
<1>1. \A o \in DOMAIN ops : o \in DOMAIN ops' /\ ops'[o].op = ops[o].op
  BY DEF Grows
<1>2. \A o \in DOMAIN ops : ~Pending(Loaded[o]) => ~Pending(Loaded'[o])
  BY PendingStep
<1>3. DOMAIN ops' \subseteq Ops
  BY DEF TypeOK
<1>4. \A o \in DOMAIN ops' : runs[o] >= 1 => o \in DOMAIN ops
  BY <1>3 DEF OnceInv
<1>5. QED
  BY <1>1, <1>2, <1>3, <1>4 DEF OnceInv

(* Neither a poll nor any work makes a second run possible.                *)
LEMMA OnceStep ==
  ASSUME SafeInv, OnceInv, [Next]_vars
  PROVE  OnceInv'
<1>0. SafeInv' /\ TypeOK' /\ Grows
  BY SafeStep DEF SafeInv
<1>1. ASSUME UNCHANGED <<view, ledger, runs>>
      PROVE  OnceInv'
  BY <1>0, <1>1, OnceQuiet
<1>2. ASSUME NEW a \in Agents, NEW lost \in SUBSET Ops, Poll(a, lost)
      PROVE  OnceInv'
  <2>1. /\ UNCHANGED <<ops, runs>> /\ Loaded' = Loaded
        /\ view' = [view EXCEPT ![a] = PublishedTo(a)]
        /\ \A o \in Ops : ledger'[o] = NoLedger =>
             ledger[o] = NoLedger \/ o \in IssuedTo(a) \ PublishedTo(a)
    BY <1>2 DEF Poll, disk, Loaded, Load
  <2>2. \A o \in DOMAIN ops : Loaded[o].op = ops[o].op
    BY LoadedFacts DEF SafeInv
  <2>3. \A o \in PublishedTo(a) : o \in DOMAIN ops /\ ops[o].op.agent = a /\ Pending(Loaded[o])
    BY <2>2 DEF PublishedTo
  <2>4. \A b \in Agents : view'[b] = IF b = a THEN PublishedTo(a) ELSE view[b]
    BY <2>1 DEF SafeInv, TypeOK
  <2>5. ASSUME NEW o \in DOMAIN ops, runs[o] >= 1, ledger'[o] = NoLedger
        PROVE  ~Pending(Loaded[o]) /\ \A b \in Agents : o \notin view'[b]
    <3>1. o \in Ops
      BY DEF SafeInv, TypeOK
    <3>2. CASE ledger[o] = NoLedger
      BY <2>3, <2>4, <2>5, <3>2 DEF OnceInv
    <3>3. CASE o \in IssuedTo(a) \ PublishedTo(a)
      <4>1. ops[o].op.agent = a /\ ~Pending(Loaded[o])
        BY <2>2, <3>3 DEF IssuedTo, PublishedTo
      <4>2. \A b \in Agents \ {a} : o \notin view[b]
        BY <4>1 DEF OnceInv
      <4>3. QED
        BY <2>4, <3>3, <4>1, <4>2
    <3>4. QED
      BY <2>1, <2>5, <3>1, <3>2, <3>3
  <2>6. QED
    BY <2>1, <2>3, <2>4, <2>5 DEF OnceInv
<1>3. ASSUME NEW o \in Ops, Work(o)
      PROVE  OnceInv'
  <2>1. UNCHANGED <<ops, view>> /\ Loaded' = Loaded
    BY <1>3 DEF Work, Start, Decline, EndWork, disk, Loaded, Load
  <2>2. o \in DOMAIN ledger /\ o \in DOMAIN runs /\ runs[o] \in Nat /\ "running" # NoLedger
    BY DEF SafeInv, TypeOK, NoLedger
  <2>3. CASE Start(o)
    <3>1. o \in DOMAIN ops /\ ledger[o] = NoLedger /\ ~(runs[o] >= 1)
      BY <2>3 DEF Start, OnceInv
    <3>2. runs[o] = 0 /\ runs'[o] = 1 /\ ledger'[o] # NoLedger
      BY <2>2, <2>3, <3>1 DEF Start
    <3>3. \A p \in Ops \ {o} : runs'[p] = runs[p] /\ ledger'[p] = ledger[p]
      BY <2>3 DEF Start, SafeInv, TypeOK
    <3>4. DOMAIN ops \subseteq Ops
      BY DEF SafeInv, TypeOK
    <3>5. QED
      BY <2>1, <3>1, <3>2, <3>3, <3>4 DEF OnceInv
  <2>4. CASE UNCHANGED runs /\ \A p \in Ops : ledger'[p] = NoLedger => ledger[p] = NoLedger
    <3>1. DOMAIN ops \subseteq Ops
      BY DEF SafeInv, TypeOK
    <3>2. QED
      BY <2>1, <2>4, <3>1 DEF OnceInv
  <2>5. \A outcome \in Failures \cup {"done"} : outcome # NoLedger
    BY ConstantsOK DEF Outcomes, States, NoLedger
  <2>6. ASSUME NEW outcome \in Failures \cup {"done"}, Decline(o, outcome) \/ EndWork(o, outcome)
        PROVE  UNCHANGED runs /\ \A p \in Ops : ledger'[p] = NoLedger => ledger[p] = NoLedger
    BY <2>2, <2>5, <2>6 DEF Decline, EndWork, SafeInv, TypeOK
  <2>7. QED
    BY <1>3, <2>3, <2>4, <2>6 DEF Work
<1>4. QED
  BY <1>1, <1>2, <1>3
  DEF Next, Operator, ProcessResult, CreateOperation, CancelOperation, SetScheduleEntry,
      DeleteScheduleEntry, Enrol, Revoke, AdmitReport, RejectReport, LoseReport,
      BeginReport, SkipResult, NoteProgress, ApplyFollowUp, RecordOutcome, FollowUpError,
      FinishReport, Crash, SendReport, agent, vars

(* No operation is carried out twice, whatever is lost, repeated, delayed, *)
(* withdrawn or interrupted.                                               *)
THEOREM Once == Spec => []ExecutedAtMostOnce
<1>1. Init => SafeInv /\ OnceInv
  BY SafeInit, OnceInit
<1>2. SafeInv /\ OnceInv /\ [Next]_vars => SafeInv' /\ OnceInv'
  BY SafeStep, OnceStep
<1>3. OnceInv => ExecutedAtMostOnce
  BY DEF OnceInv, ExecutedAtMostOnce
<1>4. QED
  BY <1>1, <1>2, <1>3, PTL DEF Spec

----------------------------------------------------------------------------
(* The store implements OperationLifecycle.                                *)

VMOf(o) == IF o \in DOMAIN ops THEN Fold(ops[o].op.vm) ELSE NoVM

(* The phase of an operation, in the words of its record.                  *)
LEMMA PhaseFacts ==
  ASSUME NEW o
  PROVE  /\ PhaseOf(o) \in Lifecycle!Phases
         /\ PhaseOf(o) = "unissued" <=> o \notin DOMAIN ops
         /\ PhaseOf(o) = "withdrawn" <=> o \in DOMAIN ops /\ ops[o].cancelled
         /\ PhaseOf(o) = "closed" <=>
              o \in DOMAIN ops /\ ~ops[o].cancelled /\ Terminal(Loaded[o].result)
         /\ PhaseOf(o) = "running" <=>
              /\ o \in DOMAIN ops /\ ~ops[o].cancelled
              /\ ~Terminal(Loaded[o].result) /\ Started(Loaded[o])
         /\ PhaseOf(o) = "published" <=>
              /\ o \in DOMAIN ops /\ ~ops[o].cancelled
              /\ ~Terminal(Loaded[o].result) /\ ~Started(Loaded[o])
BY DEF PhaseOf, Lifecycle!Phases

(* The files found at the start map to an initial state of the lifecycle:  *)
(* what the previous build left is closed.                                 *)
LEMMA LifecycleInit ==
  ASSUME Init
  PROVE  Lifecycle!Init
<1>1. \A o \in DOMAIN ops : PhaseOf(o) = "closed"
  BY InitRecords DEF PhaseOf
<1>2. \A o \in Ops : o \notin DOMAIN ops => PhaseOf(o) = "unissued"
  BY DEF PhaseOf
<1>3. \A o \in DOMAIN ops : ops[o].op.vm \in VMs
  BY InitRecords, ConstantsOK DEF OperationRecord, Operation
<1>4. \A o \in DOMAIN ops : VMOf(o) \in {Fold(v) : v \in VMs} /\ VMOf(o) # NoVM
  BY <1>3, ConstantsOK DEF VMOf
<1>5. \A o \in Ops : o \notin DOMAIN ops => VMOf(o) = NoVM
  BY DEF VMOf
<1>6. [o \in Ops |-> PhaseOf(o)] \in [Ops -> {"unissued", "closed"}]
  BY <1>1, <1>2
<1>7. [o \in Ops |-> VMOf(o)] \in [Ops -> {Fold(v) : v \in VMs} \cup {NoVM}]
  BY <1>4, <1>5
<1>8. \A o \in Ops : VMOf(o) = NoVM <=> PhaseOf(o) = "unissued"
  BY <1>1, <1>2, <1>4, <1>5
<1>9. QED
  BY <1>6, <1>7, <1>8 DEF Lifecycle!Init, VMOf

(* A step that leaves operations.json alone is invisible.                  *)
LEMMA LifecycleStutter ==
  ASSUME UNCHANGED ops
  PROVE  UNCHANGED Lifecycle!vars
<1>1. Loaded' = Loaded
  BY DEF Loaded, Load
<1>2. \A o \in Ops : PhaseOf(o)' = PhaseOf(o)
  BY <1>1 DEF PhaseOf
<1>3. QED
  BY <1>2 DEF Lifecycle!vars

(* CreateOperation issues.                                                 *)
LEMMA LifecycleIssue ==
  ASSUME SafeInv, SafeInv', NEW o \in Ops, NEW req \in Requests, CreateOperation(o, req)
  PROVE  Lifecycle!Issue(o, Fold(req.vm))
<1>1. /\ DOMAIN ops' = DOMAIN ops \cup {o} /\ o \notin DOMAIN ops
      /\ Loaded'[o] = ops'[o] /\ ops'[o].op = req /\ ~ops'[o].cancelled
      /\ ops'[o].result = NoResult
      /\ \A p \in DOMAIN ops :
           /\ Loaded'[p] = Loaded[p] /\ ops'[p] = Loaded[p]
           /\ ops'[p].op = ops[p].op /\ ops'[p].cancelled = ops[p].cancelled
  BY CreateStep, LoadedFacts DEF CreateOperation, SafeInv
<1>2. PhaseOf(o) = "unissued" /\ PhaseOf(o)' = "published"
  BY <1>1 DEF PhaseOf, Started, Terminal, Outcomes, States, NoResult
<1>3. \A p \in Ops \ {o} : PhaseOf(p)' = PhaseOf(p) /\ VMOf(p)' = VMOf(p)
  BY <1>1 DEF PhaseOf, VMOf
<1>4. VMOf(o)' = Fold(req.vm)
  BY <1>1 DEF VMOf
<1>5. ASSUME NEW p \in Ops, PhaseOf(p) \in {"published", "running"}
      PROVE  VMOf(p) # Fold(req.vm)
  <2>1. p \in DOMAIN ops /\ ~ops[p].cancelled /\ ~Terminal(Loaded[p].result)
    BY <1>5, PhaseFacts
  <2>2. Pending(Loaded[p]) /\ Loaded[p].op = ops[p].op
    BY <2>1, LoadedFacts DEF Pending, SafeInv
  <2>3. QED
    BY <2>1, <2>2 DEF CreateOperation, VMOf
<1>6. [p \in Ops |-> PhaseOf(p)]' = [[p \in Ops |-> PhaseOf(p)] EXCEPT ![o] = "published"]
  BY <1>2, <1>3
<1>7. [p \in Ops |-> VMOf(p)]' = [[p \in Ops |-> VMOf(p)] EXCEPT ![o] = Fold(req.vm)]
  BY <1>3, <1>4
<1>8. QED
  BY <1>2, <1>5, <1>6, <1>7 DEF Lifecycle!Issue, Lifecycle!InFlight, VMOf

(* CancelOperation withdraws. *)
LEMMA LifecycleWithdraw ==
  ASSUME SafeInv, NEW o \in Ops, CancelOperation(o)
  PROVE  Lifecycle!Withdraw(o)
<1>1. /\ DOMAIN ops' = DOMAIN ops /\ o \in DOMAIN ops /\ ops'[o].cancelled
      /\ \A p \in DOMAIN ops \ {o} :
           /\ Loaded'[p] = Loaded[p] /\ ops'[p].op = ops[p].op
           /\ ops'[p].cancelled = ops[p].cancelled
      /\ ops'[o].op = ops[o].op
  BY CancelStep, LoadedFacts DEF CancelOperation, SafeInv, Grows
<1>2. Loaded[o].cancelled = ops[o].cancelled
  BY <1>1, LoadedFacts DEF SafeInv
<1>3. PhaseOf(o) = "published"
  BY <1>1, <1>2 DEF CancelOperation, PhaseOf, Pending
<1>4. PhaseOf(o)' = "withdrawn"
  BY <1>1 DEF PhaseOf
<1>5. \A p \in Ops : (p # o => PhaseOf(p)' = PhaseOf(p)) /\ VMOf(p)' = VMOf(p)
  BY <1>1 DEF PhaseOf, VMOf
<1>6. [p \in Ops |-> PhaseOf(p)]' = [[p \in Ops |-> PhaseOf(p)] EXCEPT ![o] = "withdrawn"]
  BY <1>4, <1>5
<1>7. [p \in Ops |-> VMOf(p)]' = [p \in Ops |-> VMOf(p)]
  BY <1>5
<1>8. QED
  BY <1>3, <1>6, <1>7 DEF Lifecycle!Withdraw, VMOf

(* The end of a call advances every operation its report told us about.    *)
LEMMA LifecycleAdvance ==
  ASSUME SafeInv, FinishReport
  PROVE  Lifecycle!Advance
<1>1. /\ Grows /\ DOMAIN ops' = DOMAIN ops
      /\ \A o \in DOMAIN ops : ops'[o].cancelled = ops[o].cancelled
  BY FinishStep
<1>2. ASSUME NEW o \in Ops, PhaseOf(o)' # PhaseOf(o)
      PROVE  \/ PhaseOf(o) = "published" /\ PhaseOf(o)' \in {"running", "closed"}
             \/ PhaseOf(o) = "running" /\ PhaseOf(o)' = "closed"
  <2>1. o \in DOMAIN ops /\ o \in DOMAIN ops' /\ ops'[o].cancelled = ops[o].cancelled
    BY <1>1, <1>2 DEF PhaseOf
  <2>2. /\ Started(Loaded[o]) => Started(Loaded'[o])
        /\ Terminal(Loaded[o].result) => Terminal(Loaded'[o].result)
    BY <1>1, <2>1 DEF Grows
  <2>3. QED
    BY <1>2, <2>1, <2>2 DEF PhaseOf
<1>3. \A o \in Ops : PhaseOf(o)' \in Lifecycle!Phases
  BY DEF PhaseOf, Lifecycle!Phases
<1>4. \A o \in Ops : VMOf(o)' = VMOf(o)
  BY <1>1 DEF Grows, VMOf
<1>5. [o \in Ops |-> VMOf(o)]' = [o \in Ops |-> VMOf(o)]
  BY <1>4
<1>6. QED
  BY <1>2, <1>3, <1>5 DEF Lifecycle!Advance, VMOf

(* Every step of the store and its agents is a step of the lifecycle it    *)
(* promises, or invisible to it.                                           *)
LEMMA LifecycleStep ==
  ASSUME SafeInv, [Next]_vars
  PROVE  [Lifecycle!Next]_(Lifecycle!vars)
<1>1. ASSUME NEW o \in Ops, NEW req \in Requests, CreateOperation(o, req)
      PROVE  Lifecycle!Next
  <2>1. Fold(req.vm) \in {Fold(v) : v \in VMs}
    BY ConstantsOK DEF Operation
  <2>2. Lifecycle!Issue(o, Fold(req.vm))
    BY <1>1, SafeStep, LifecycleIssue
  <2>3. QED
    BY <2>1, <2>2 DEF Lifecycle!Next
<1>2. ASSUME NEW o \in Ops, CancelOperation(o)
      PROVE  Lifecycle!Next
  BY <1>2, LifecycleWithdraw DEF Lifecycle!Next
<1>3. ASSUME FinishReport
      PROVE  Lifecycle!Next
  BY <1>3, LifecycleAdvance DEF Lifecycle!Next
<1>4. ASSUME UNCHANGED ops
      PROVE  UNCHANGED Lifecycle!vars
  BY <1>4, LifecycleStutter
<1>5. \/ \E o \in Ops, req \in Requests : CreateOperation(o, req)
      \/ \E o \in Ops : CancelOperation(o)
      \/ FinishReport
      \/ UNCHANGED ops
  BY DEF Next, Operator, ProcessResult, Work, SetScheduleEntry, DeleteScheduleEntry, Enrol,
         Revoke, AdmitReport, RejectReport, LoseReport, BeginReport, SkipResult, NoteProgress,
         ApplyFollowUp, RecordOutcome, FollowUpError, Crash, Poll, SendReport, Start, Decline,
         EndWork, vars, disk
<1>6. QED
  BY <1>1, <1>2, <1>3, <1>4, <1>5

(* ImplementsLifecycle, for every value of the constants.                  *)
THEOREM Implementation == Spec => ImplementsLifecycle
<1>1. Init => SafeInv /\ Lifecycle!Init
  BY SafeInit, LifecycleInit
<1>2. SafeInv /\ [Next]_vars => SafeInv'
  BY SafeStep
<1>3. SafeInv /\ [Next]_vars => [Lifecycle!Next]_(Lifecycle!vars)
  BY LifecycleStep
<1>4. QED
  BY <1>1, <1>2, <1>3, PTL DEF Spec, ImplementsLifecycle, Lifecycle!Spec
==============================================================================
