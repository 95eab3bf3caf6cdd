------------------------------- MODULE SignIns --------------------------------
(***************************************************************************)
(* What sign-in promises, with cookies on their way, tabs, the table of    *)
(* sessions and the clock left out.  A sign-in belongs to one person for   *)
(* ever and ends once, by time, by signing out or with the process.  A     *)
(* request is let in under one sign-in, in the name of its person and for  *)
(* a page drawn for it, while that sign-in lasts; and to change something  *)
(* only when that person is an admin in the accounts in force.             *)
(***************************************************************************)
CONSTANTS
  Configs,   \* what the accounts may be, each with its role
  Tokens,    \* sign-ins
  Requests

VARIABLES
  accounts,  \* the accounts in force
  who,       \* whose each sign-in is
  over,      \* the sign-ins that have ended
  doing      \* the requests let in and not answered yet

vars == <<accounts, who, over, doing>>

Init ==
  /\ accounts \in Configs
  /\ who = <<>> /\ over = {} /\ doing = <<>>

Make(t) ==
  /\ t \notin DOMAIN who
  /\ \E n \in DOMAIN accounts :
       who' = [u \in DOMAIN who \cup {t} |-> IF u = t THEN n ELSE who[u]]
  /\ UNCHANGED <<accounts, over, doing>>

(* Time passes, or somebody signs out. *)
Lapse ==
  /\ over \subseteq over' /\ over' \subseteq DOMAIN who
  /\ UNCHANGED <<accounts, who, doing>>

LetIn(r) ==
  /\ r \notin DOMAIN doing
  /\ \E t \in DOMAIN who \ over, changes \in BOOLEAN :
       /\ changes => who[t] \in DOMAIN accounts /\ accounts[who[t]] = "admin"
       /\ doing' = [q \in DOMAIN doing \cup {r} |->
                      IF q = r
                      THEN [actor |-> who[t], signIn |-> t, page |-> t, changes |-> changes]
                      ELSE doing[q]]
  /\ UNCHANGED <<accounts, who, over>>

Answer(r) ==
  /\ r \in DOMAIN doing
  /\ doing' = [q \in DOMAIN doing \ {r} |-> doing[q]]
  /\ UNCHANGED <<accounts, who, over>>

(* The process goes and comes back. *)
Restart ==
  /\ accounts' \in Configs
  /\ over' = DOMAIN who
  /\ doing' = <<>>
  /\ UNCHANGED who

Next ==
  \/ \E t \in Tokens : Make(t)
  \/ \E r \in Requests : LetIn(r) \/ Answer(r)
  \/ Lapse
  \/ Restart

Spec == Init /\ [][Next]_vars
==============================================================================
