------------------------------ MODULE Schedules ------------------------------
(***************************************************************************)
(* schedules.json and the four ways the store rewrites it.                 *)
(*                                                                         *)
(* A schedule table maps each agent to its entries; an entry is a record   *)
(* with the fields vm, enabled, target and dir (TargetDiskPath).  The rest *)
(* of a ScheduleEntry (interval, windows, profile) is carried along        *)
(* unchanged by everything here and is left out.  The code keeps a slice   *)
(* sorted by VM, which is a set once no VM has two entries; that no        *)
(* operation below gives a VM two entries is OneEntryPerVM.                *)
(*                                                                         *)
(* Every operator is a whole read-modify-write of the file made under the  *)
(* store's mutex, and ends in ONE atomic write.                            *)
(***************************************************************************)

EntriesFor(table, agent, vm) == {e \in table[agent] : e.vm = vm}

OneEntryPerVM(table) ==
  \A agent \in DOMAIN table :
    \A e, f \in table[agent] : e.vm = f.vm => e = f

(* SetScheduleEntry: add an entry or replace the one with the same VM.     *)
SaveEntry(table, agent, entry) ==
  [table EXCEPT ![agent] = {e \in @ : e.vm # entry.vm} \cup {entry}]

(* DeleteScheduleEntry. *)
DropEntry(table, agent, vm) ==
  [table EXCEPT ![agent] = {e \in @ : e.vm # vm}]

(* setScheduleEnabledLocked: flip one flag, leave the entry otherwise      *)
(* alone; with nothing scheduled there is nothing to flip.                 *)
SetEnabled(table, agent, vm, on) ==
  [table EXCEPT ![agent] =
     {IF e.vm = vm THEN [e EXCEPT !.enabled = on] ELSE e : e \in @}]

(* What the moved entry becomes: renamed to the promoted domain, aimed     *)
(* back at the old source's host, disabled, and its directory re-aimed     *)
(* when the old source's report names a single one (dirs is then that      *)
(* directory alone, and empty when the report cannot name one).            *)
Reversed(entry, newVM, host, dirs) ==
  [entry EXCEPT !.vm = newVM, !.target = host, !.enabled = FALSE,
                !.dir = IF dirs = {} THEN @ ELSE CHOOSE d \in dirs : TRUE]

(* A version that drops the old entry and keeps whatever the new source    *)
(* already had.                                                            *)
MoveEntryKeepsOld(table, from, to, vm, newVM, host, dirs) ==
  LET moved == EntriesFor(table, from, vm)
      left  == [table EXCEPT ![from] = @ \ moved]
  IN  IF EntriesFor(table, to, newVM) # {} THEN left
      ELSE [left EXCEPT ![to] = @ \cup {Reversed(e, newVM, host, dirs) : e \in moved}]

(* A version that forgets the early return and clears the destination even *)
(* when there is nothing to move.                                          *)
MoveEntryNoReturn(table, from, to, vm, newVM, host, dirs) ==
  LET moved == EntriesFor(table, from, vm)
      left  == [table EXCEPT ![from] = @ \ moved]
  IN  [left EXCEPT ![to] = {e \in @ : e.vm # newVM}
                             \cup {Reversed(e, newVM, host, dirs) : e \in moved}]

(* moveScheduleEntryLocked: one write, so that no crash leaves the entry   *)
(* under neither agent.                                                    *)
MoveEntry(table, from, to, vm, newVM, host, dirs) ==
  LET moved == EntriesFor(table, from, vm)
  IN  IF moved = {} THEN table
      ELSE LET e    == CHOOSE x \in moved : TRUE
               left == [table EXCEPT ![from] = @ \ {e}]
           IN  SaveEntry(left, to, Reversed(e, newVM, host, dirs))
==============================================================================
