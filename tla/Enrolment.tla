------------------------------ MODULE Enrolment -------------------------------
(***************************************************************************)
(* What the console promises about enrolment, with the audit log, the      *)
(* agent records nobody holds, pages and half-written files left out:      *)
(*                                                                         *)
(*   unminted -> open <-> exchanging -> spent                              *)
(*                                                                         *)
(* An exchange begins only in the token's time.  It may come to nothing    *)
(* and leave the token open; if it ends, one identity has been given away, *)
(* to the host the token names, and never another.  Reports are taken from *)
(* identities given away and not barred when they came.                    *)
(***************************************************************************)
EXTENDS Naturals

CONSTANTS
  Tokens, Ids,
  HostOf    \* the host each token was minted for, up to case

VARIABLES
  stage,    \* how far each token is
  overdue,  \* the tokens whose time has passed
  owner,    \* the identities given away, each with its token and its host
  barred,   \* the identities revoked
  letIn,    \* the identities with a report let in
  word      \* the reports of each identity that were taken

vars == <<stage, overdue, owner, barred, letIn, word>>

Stages == {"unminted", "open", "exchanging", "spent"}

Init ==
  /\ stage = [t \in Tokens |-> "unminted"]
  /\ overdue = {}
  /\ owner = <<>>
  /\ barred = {} /\ letIn = {}
  /\ word = [i \in Ids |-> 0]

Move(t, from, to) == stage[t] = from /\ stage' = [stage EXCEPT ![t] = to]

Mint(t) ==
  /\ Move(t, "unminted", "open")
  /\ UNCHANGED <<overdue, owner, barred, letIn, word>>

Pass(t) ==
  /\ stage[t] # "unminted"
  /\ overdue' = overdue \cup {t}
  /\ UNCHANGED <<stage, owner, barred, letIn, word>>

BeginExchange(t) ==
  /\ t \notin overdue
  /\ Move(t, "open", "exchanging")
  /\ UNCHANGED <<overdue, owner, barred, letIn, word>>

GiveAway(t, i) ==
  /\ i \notin DOMAIN owner
  /\ Move(t, "exchanging", "spent")
  /\ owner' = [j \in DOMAIN owner \cup {i} |->
                 IF j = i THEN [token |-> t, host |-> HostOf[t]] ELSE owner[j]]
  /\ UNCHANGED <<overdue, barred, letIn, word>>

Bar(i) ==
  /\ barred' = barred \cup {i}
  /\ UNCHANGED <<stage, overdue, owner, letIn, word>>

LetIn(i) ==
  /\ i \in DOMAIN owner /\ i \notin barred
  /\ letIn' = letIn \cup {i}
  /\ UNCHANGED <<stage, overdue, owner, barred, word>>

TakeReport(i) ==
  /\ i \in letIn
  /\ letIn' = letIn \ {i}
  /\ word' = [word EXCEPT ![i] = @ + 1]
  /\ UNCHANGED <<stage, overdue, owner, barred>>

(* What was under way comes to nothing, all of it or a part.               *)
GiveUp ==
  /\ stage' \in [Tokens -> Stages]
  /\ \A t \in Tokens :
       stage'[t] # stage[t] => stage[t] = "exchanging" /\ stage'[t] = "open"
  /\ letIn' \subseteq letIn
  /\ UNCHANGED <<overdue, owner, barred, word>>

Next ==
  \/ \E t \in Tokens :
       \/ Mint(t)
       \/ Pass(t)
       \/ BeginExchange(t)
       \/ \E i \in Ids : GiveAway(t, i)
  \/ \E i \in Ids : Bar(i) \/ LetIn(i) \/ TakeReport(i)
  \/ GiveUp

Spec == Init /\ [][Next]_vars
==============================================================================
