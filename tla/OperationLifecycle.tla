-------------------------- MODULE OperationLifecycle --------------------------
(***************************************************************************)
(* What the console promises about operations, with files, reports, agents *)
(* and crashes left out:                                                   *)
(*                                                                         *)
(*   unissued -> published -> running -> closed                            *)
(*                   |  \_______________/                                  *)
(*                   +--> withdrawn                                        *)
(*                                                                         *)
(* An operation is issued only while no other is in flight for its VM; it  *)
(* can be withdrawn until its agent says anything; closed and withdrawn    *)
(* are for ever.  One report may move several operations at once.          *)
(***************************************************************************)
CONSTANTS Ops, VMs, NoVM

VARIABLES
  phase,  \* how far each operation is
  vm      \* the VM each issued operation is for

vars == <<phase, vm>>

Phases   == {"unissued", "published", "running", "closed", "withdrawn"}
InFlight == {o \in Ops : phase[o] \in {"published", "running"}}

TypeOK ==
  /\ phase \in [Ops -> Phases]
  /\ vm \in [Ops -> VMs \cup {NoVM}]

(* The records of an earlier build are closed from the start.              *)
Init ==
  /\ phase \in [Ops -> {"unissued", "closed"}]
  /\ vm \in [Ops -> VMs \cup {NoVM}]
  /\ \A o \in Ops : vm[o] = NoVM <=> phase[o] = "unissued"

Issue(o, v) ==
  /\ phase[o] = "unissued"
  /\ \A p \in InFlight : vm[p] # v
  /\ phase' = [phase EXCEPT ![o] = "published"]
  /\ vm' = [vm EXCEPT ![o] = v]

Withdraw(o) ==
  /\ phase[o] = "published"
  /\ phase' = [phase EXCEPT ![o] = "withdrawn"]
  /\ UNCHANGED vm

(* A report is taken in: operations in flight move forward.                *)
Advance ==
  /\ phase' \in [Ops -> Phases]
  /\ \A o \in Ops :
       phase'[o] # phase[o] =>
         \/ phase[o] = "published" /\ phase'[o] \in {"running", "closed"}
         \/ phase[o] = "running" /\ phase'[o] = "closed"
  /\ UNCHANGED vm

Next ==
  \/ \E o \in Ops, v \in VMs : Issue(o, v)
  \/ \E o \in Ops : Withdraw(o)
  \/ Advance

Spec == Init /\ [][Next]_vars

(* At most one operation is in flight for a VM.                            *)
OneInFlight == \A o, p \in InFlight : vm[o] = vm[p] => o = p
==============================================================================
