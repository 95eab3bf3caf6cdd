---------------------------- MODULE SessionsProofs ----------------------------
(***************************************************************************)
(* Proofs about Sessions, for any names, accounts, browsers, numbers of    *)
(* requests and sign-ins, and any lifetime of a session.                   *)
(***************************************************************************)
EXTENDS Sessions, TLAPS

(* The sessions and what they were made from.                              *)
TableOK ==
  /\ accounts \in Configs
  /\ DOMAIN sessions \subseteq DOMAIN born /\ DOMAIN born \subseteq Tokens
  /\ \A t \in DOMAIN sessions :
       /\ sessions[t].user \in DOMAIN accounts
       /\ sessions[t] = [user |-> born[t].user, role |-> accounts[born[t].user],
                         expires |-> born[t].at + Ttl, csrf |-> t]
  /\ \A t \in DOMAIN born : born[t].user \in Names /\ born[t].at \in 0..clock
  /\ clock \in 0..MaxClock /\ restarts \in 0..MaxRestarts
  /\ ended \subseteq Tokens

(* What is true of a request at every stage.                               *)
Passed(q) == q.what.kind \in {"page", "form"} /\ q.stage \in {"allowed", "done"}

Sound(q) ==
  /\ q.what.kind \notin {"page", "form"} => q.stage # "allowed"
  /\ q.what.kind = "login" /\ q.stage = "done" => q.got \in DOMAIN born
  /\ q.cookie \in DOMAIN born \cup {NoToken}
  /\ Passed(q) => q.cookie \in DOMAIN born /\ ~q.late
  /\ Passed(q) /\ q.what.kind = "form" =>
       /\ q.cookie = q.what.csrf /\ q.got = born[q.cookie].user
       /\ q.got \in DOMAIN accounts /\ accounts[q.got] = "admin"
  /\ q.late => Over(q.cookie)

(* A token that was signed out has been made, and has no session.          *)
EndedOK == ended \subseteq DOMAIN born /\ DOMAIN sessions \cap ended = {}

(* The inductive invariant.                                                *)
SessionsInv ==
  /\ TypeOK
  /\ EndedOK
  /\ \A b \in Browsers : jar[b] \in DOMAIN born \cup {NoToken}
  /\ \A r \in Requests : req[r] # NoRequest => Sound(req[r])

----------------------------------------------------------------------------
(* A cookie that is over is not live: for nobody, and for ever.            *)
LEMMA OverNotLive ==
  ASSUME SessionsInv, NEW t \in Cookies, Over(t)
  PROVE  ~Live(t)
<1>1. SUFFICES ASSUME Live(t) PROVE FALSE
  OBVIOUS
<1>2. /\ t \in DOMAIN sessions /\ t \in DOMAIN born /\ t \in Tokens /\ t \notin ended
      /\ sessions[t].expires = born[t].at + Ttl /\ clock <= sessions[t].expires
  BY <1>1 DEF SessionsInv, EndedOK, TypeOK, Live
<1>3. t # NoToken /\ clock > born[t].at + Ttl
  BY <1>2, SessionsOK DEF Over
<1>4. clock \in Nat /\ born[t].at \in Nat /\ Ttl \in Nat
  BY <1>2, SessionsOK DEF SessionsInv, TypeOK
<1>5. QED
  BY <1>2, <1>3, <1>4

(* History only grows.                                                     *)
LEMMA HistoryGrows ==
  ASSUME TypeOK, [Next]_vars
  PROVE  /\ \A t \in DOMAIN born : t \in DOMAIN born' /\ born'[t] = born[t]
         /\ ended \subseteq ended'
         /\ clock \in Nat /\ clock' \in Nat /\ clock' >= clock
<1>1. clock \in Nat
  BY SessionsOK DEF TypeOK
<1>2. CASE Tick
  BY <1>1, <1>2 DEF Tick
<1>3. ASSUME NEW r \in Requests, SignIn(r)
      PROVE  /\ \A t \in DOMAIN born : t \in DOMAIN born' /\ born'[t] = born[t]
             /\ UNCHANGED <<ended, clock>>
  BY <1>3 DEF SignIn
<1>4. ASSUME NEW r \in Requests, SignOut(r)
      PROVE  /\ UNCHANGED <<born, clock>> /\ ended \subseteq ended'
  <2>1. NoToken \notin ended
    BY SessionsOK DEF TypeOK
  <2>2. QED
    BY <1>4, <2>1 DEF SignOut
<1>5. CASE Restart
  BY <1>1, <1>5 DEF Restart
<1>6. CASE UNCHANGED <<born, ended, clock>>
  BY <1>1, <1>6
<1>7. ASSUME NEW r \in Requests,
             \/ \E b \in Browsers, what \in Whats : Send(r, b, what)
             \/ Require(r) \/ Act(r) \/ Deliver(r) \/ LoseReply(r)
      PROVE  UNCHANGED <<born, ended, clock>>
  BY <1>7 DEF Send, Require, Act, Deliver, LoseReply
<1>8. QED
  <2>1. CASE UNCHANGED vars
    BY <1>6, <2>1 DEF vars
  <2>2. CASE Next
    BY <1>1, <1>2, <1>3, <1>4, <1>5, <1>6, <1>7, <2>2 DEF Next
  <2>3. QED
    BY <2>1, <2>2

(* A sign-in that is over stays over: time goes on, and no token is made   *)
(* twice or taken back from the ended ones.                                *)
LEMMA OverStays ==
  ASSUME TypeOK, [Next]_vars, NEW t, Over(t)
  PROVE  Over(t)'
<1>1. CASE t = NoToken \/ t \in ended
  BY <1>1, HistoryGrows DEF Over
<1>2. CASE t \in DOMAIN born /\ clock > born[t].at + Ttl
  <2>1. t \in DOMAIN born' /\ born'[t] = born[t] /\ clock \in Nat /\ clock' \in Nat /\ clock' >= clock
    BY <1>2, HistoryGrows
  <2>2. born[t].at \in Nat /\ Ttl \in Nat
    BY <1>2, SessionsOK DEF TypeOK
  <2>3. clock' > born'[t].at + Ttl
    BY <1>2, <2>1, <2>2
  <2>4. QED
    BY <2>1, <2>3 DEF Over
<1>3. QED
  BY <1>1, <1>2 DEF Over

----------------------------------------------------------------------------
(* Every step leaves the sessions what the process was configured with.    *)
LEMMA TableStep ==
  ASSUME SessionsInv, [Next]_vars
  PROVE  TableOK' /\ EndedOK'
<1>0. TableOK /\ EndedOK
  BY DEF SessionsInv, TypeOK, TableOK
<1>1. CASE Tick
  <2>1. UNCHANGED <<accounts, sessions, restarts, born, ended>>
    BY <1>1 DEF Tick
  <2>2. clock \in Nat /\ clock' = clock + 1 /\ clock' \in 0..MaxClock
    BY <1>0, <1>1, SessionsOK DEF Tick, TableOK
  <2>3. \A t \in DOMAIN born' : born'[t].at \in 0..clock'
    BY <1>0, <2>1, <2>2 DEF TableOK, EndedOK
  <2>4. QED
    BY <1>0, <2>1, <2>2, <2>3 DEF TableOK, EndedOK
<1>2. ASSUME NEW r \in Requests, SignIn(r)
      PROVE  TableOK' /\ EndedOK'
  <2>1. CASE UNCHANGED <<accounts, sessions, clock, restarts, born, ended>>
    BY <1>0, <2>1 DEF TableOK, EndedOK
  <2>2. ASSUME NEW t \in Tokens \ DOMAIN born, Accepts(req[r].what),
               sessions' = [u \in DOMAIN sessions \cup {t} |->
                              IF u = t THEN SessionFor(req[r].what.name, t) ELSE sessions[u]],
               born' = [u \in DOMAIN born \cup {t} |->
                          IF u = t THEN [user |-> req[r].what.name, at |-> clock] ELSE born[u]],
               UNCHANGED <<accounts, clock, restarts, ended>>
        PROVE  TableOK' /\ EndedOK'
    <3> DEFINE n == req[r].what.name
    <3>1. n \in DOMAIN accounts /\ n \in Names
      BY <1>0, <2>2, SessionsOK DEF Accepts, TableOK
    <3>2. /\ DOMAIN sessions' = DOMAIN sessions \cup {t} /\ DOMAIN born' = DOMAIN born \cup {t}
          /\ born'[t] = [user |-> n, at |-> clock] /\ sessions'[t] = SessionFor(n, t)
          /\ \A u \in DOMAIN born : u # t /\ born'[u] = born[u]
          /\ \A u \in DOMAIN sessions : u # t /\ sessions'[u] = sessions[u]
      BY <1>0, <2>2 DEF TableOK, EndedOK
    <3>3. clock \in 0..clock
      BY <1>0, SessionsOK DEF TableOK, EndedOK
    <3>4. t \notin ended
      BY <1>0, <2>2 DEF EndedOK
    <3>5. QED
      BY <1>0, <2>2, <3>1, <3>2, <3>3, <3>4 DEF TableOK, EndedOK, SessionFor
  <2>3. QED
    BY <1>2, <2>1, <2>2 DEF SignIn
<1>3. ASSUME NEW r \in Requests, SignOut(r)
      PROVE  TableOK' /\ EndedOK'
  <2>1. req[r] # NoRequest /\ req[r].cookie \in DOMAIN born \cup {NoToken}
    BY <1>3 DEF SessionsInv, Sound, SignOut, Now
  <2>2. /\ UNCHANGED <<accounts, clock, restarts, born>>
        /\ DOMAIN sessions' = DOMAIN sessions \ {req[r].cookie}
        /\ \A t \in DOMAIN sessions' : sessions'[t] = sessions[t]
    BY <1>3 DEF SignOut, Restrict
  <2>3. ended' = (ended \cup {req[r].cookie}) \ {NoToken}
    BY <1>3 DEF SignOut
  <2>4. QED
    BY <1>0, <2>1, <2>2, <2>3 DEF TableOK, EndedOK
<1>4. ASSUME NEW r \in Requests, Require(r)
      PROVE  TableOK' /\ EndedOK'
  <2>1. UNCHANGED <<accounts, clock, restarts, born, ended>>
    BY <1>4 DEF Require
  <2>2. DOMAIN sessions' \subseteq DOMAIN sessions /\ \A t \in DOMAIN sessions' : sessions'[t] = sessions[t]
    BY <1>4 DEF Require, DropExpired, Restrict
  <2>3. QED
    BY <1>0, <2>1, <2>2 DEF TableOK, EndedOK
<1>5. CASE Restart
  <2>1. /\ accounts' \in Configs /\ sessions' = <<>> /\ ended' = ended \cup DOMAIN born
        /\ UNCHANGED <<clock, born>> /\ restarts < MaxRestarts /\ restarts' = restarts + 1
    BY <1>5 DEF Restart
  <2>2. DOMAIN sessions' = {}
    BY <2>1
  <2>3. restarts' \in 0..MaxRestarts
    BY <1>0, <2>1, SessionsOK DEF TableOK
  <2>4. QED
    BY <1>0, <2>1, <2>2, <2>3 DEF TableOK, EndedOK
<1>6. CASE UNCHANGED <<accounts, sessions, clock, restarts, born, ended>>
  BY <1>0, <1>6 DEF TableOK, EndedOK
<1>7. ASSUME NEW r \in Requests,
             \/ \E b \in Browsers, what \in Whats : Send(r, b, what)
             \/ Act(r) \/ Deliver(r) \/ LoseReply(r)
      PROVE  UNCHANGED <<accounts, sessions, clock, restarts, born, ended>>
  BY <1>7 DEF Send, Act, Deliver, LoseReply
<1>8. QED
  <2>1. CASE UNCHANGED vars
    BY <1>6, <2>1 DEF vars
  <2>2. CASE Next
    BY <1>1, <1>2, <1>3, <1>4, <1>5, <1>6, <1>7, <2>2 DEF Next
  <2>3. QED
    BY <2>1, <2>2

(* What a request has passed is still so when it has not moved.            *)
LEMMA SoundStays ==
  ASSUME SessionsInv, [Next]_vars, UNCHANGED accounts,
         NEW r \in Requests, req[r] # NoRequest, req'[r] = req[r]
  PROVE  Sound(req[r])'
<1> DEFINE q == req[r]
<1>1. Sound(q) /\ \A t \in DOMAIN born : t \in DOMAIN born' /\ born'[t] = born[t]
  BY HistoryGrows DEF SessionsInv
<1>2. Over(q.cookie) => q.cookie = NoToken \/ q.cookie \in ended'
                          \/ (q.cookie \in DOMAIN born' /\ clock' > born'[q.cookie].at + Ttl)
  BY OverStays DEF Over, SessionsInv
<1>3. q'.late => Over(q.cookie)'
  BY <1>1, <1>2 DEF Sound, Over
<1>4. QED
  BY <1>1, <1>3 DEF Sound, Passed

(* Every step leaves the requests well-formed, and at each stage what they *)
(* passed to get there is so.                                              *)
LEMMA RequestsStep ==
  ASSUME SessionsInv, [Next]_vars
  PROVE  /\ req' \in [Requests -> Rec \cup {NoRequest}]
         /\ \A r \in Requests : req'[r] # NoRequest => Sound(req[r])'
<1>0. /\ TypeOK /\ req \in [Requests -> Rec \cup {NoRequest}]
      /\ \A r \in Requests : req[r] # NoRequest => req[r] \in Rec /\ Sound(req[r])
  BY DEF SessionsInv, TypeOK, Rec
<1>1. CASE Restart
  BY <1>1 DEF Restart
<1>2. ASSUME ~Restart PROVE UNCHANGED accounts
  BY <1>2 DEF Next, vars, Send, Require, Act, SignIn, SignOut, Deliver, LoseReply, Tick
<1>3. ASSUME UNCHANGED accounts, NEW r \in Requests, NEW q,
             req' = [req EXCEPT ![r] = q],
             q # NoRequest => q \in Rec /\ Sound(req[r])'
      PROVE  /\ req' \in [Requests -> Rec \cup {NoRequest}]
             /\ \A s \in Requests : req'[s] # NoRequest => Sound(req[s])'
  <2>1. req' \in [Requests -> Rec \cup {NoRequest}]
    BY <1>0, <1>3
  <2>2. ASSUME NEW s \in Requests, req'[s] # NoRequest, s # r
        PROVE  Sound(req[s])'
    BY <1>0, <1>3, <2>2, SoundStays
  <2>3. req'[r] = q
    BY <1>0, <1>3
  <2>4. QED
    BY <1>3, <2>1, <2>2, <2>3
<1>4. ASSUME NEW r \in Requests, NEW b \in Browsers, NEW what \in Whats, Send(r, b, what), UNCHANGED accounts
      PROVE  /\ req' \in [Requests -> Rec \cup {NoRequest}]
             /\ \A s \in Requests : req'[s] # NoRequest => Sound(req[s])'
  <2> DEFINE q == [what |-> what, from |-> b, cookie |-> jar[b],
                   stage |-> "sent", got |-> NoToken, late |-> Over(jar[b])]
  <2>1. /\ req' = [req EXCEPT ![r] = q] /\ UNCHANGED <<born, clock, ended, jar>>
        /\ jar[b] \in Cookies /\ jar[b] \in DOMAIN born \cup {NoToken}
    BY <1>0, <1>4 DEF Send, SessionsInv, TypeOK
  <2>2. Over(jar[b]) \in BOOLEAN
    BY DEF Over
  <2>3. q \in Rec
    BY <2>1, <2>2 DEF Rec, Cookies, Stages
  <2>4. req'[r] = q
    BY <1>0, <2>1
  <2>5. q.late => Over(jar[b])'
    BY <2>1 DEF Over
  <2>6. Sound(req[r])'
    BY <2>1, <2>4, <2>5 DEF Sound, Passed
  <2>7. QED
    BY <1>3, <1>4, <2>1, <2>3, <2>6
<1>5. ASSUME NEW r \in Requests, UNCHANGED accounts, Deliver(r) \/ LoseReply(r)
      PROVE  /\ req' \in [Requests -> Rec \cup {NoRequest}]
             /\ \A s \in Requests : req'[s] # NoRequest => Sound(req[s])'
  <2>1. req' = [req EXCEPT ![r] = NoRequest]
    BY <1>5 DEF Deliver, LoseReply
  <2>2. QED
    BY <1>3, <1>5, <2>1
(* A request that stays what it was and reaches another stage.             *)
<1>6. ASSUME NEW r \in Requests, UNCHANGED <<accounts, clock>>, req[r] # NoRequest,
             NEW stage \in Stages, NEW got \in Names \cup Cookies,
             req' = [req EXCEPT ![r].stage = stage, ![r].got = got],
             Passed(req[r])' => req[r].cookie \in DOMAIN born /\ ~req[r].late,
             Passed(req[r])' /\ req[r].what.kind = "form" =>
               /\ req[r].cookie = req[r].what.csrf /\ got = born[req[r].cookie].user
               /\ got \in DOMAIN accounts /\ accounts[got] = "admin",
             req[r].what.kind \notin {"page", "form"} => stage # "allowed",
             req[r].what.kind = "login" /\ stage = "done" => got \in DOMAIN born'
      PROVE  /\ req' \in [Requests -> Rec \cup {NoRequest}]
             /\ \A s \in Requests : req'[s] # NoRequest => Sound(req[s])'
  <2> DEFINE q == [req[r] EXCEPT !.stage = stage, !.got = got]
  <2>1. req[r] \in Rec /\ Sound(req[r])
    BY <1>0, <1>6
  <2>2. q \in Rec /\ q.what = req[r].what /\ q.cookie = req[r].cookie /\ q.late = req[r].late
        /\ q.stage = stage /\ q.got = got
    BY <1>6, <2>1 DEF Rec
  <2>3. req' = [req EXCEPT ![r] = q] /\ req'[r] = q
    BY <1>0, <1>6
  <2>4. \A t \in DOMAIN born : t \in DOMAIN born' /\ born'[t] = born[t]
    BY <1>0, HistoryGrows
  <2>5. (req[r].late => Over(req[r].cookie))'
    <3>1. Over(q.cookie) => q.cookie = NoToken \/ q.cookie \in ended'
                              \/ (q.cookie \in DOMAIN born' /\ clock' > born'[q.cookie].at + Ttl)
      BY <1>0, OverStays DEF Over
    <3>2. QED
      BY <2>1, <2>2, <2>3, <3>1 DEF Sound, Over
  <2>6. Sound(req[r])'
    BY <1>6, <2>1, <2>2, <2>3, <2>4, <2>5 DEF Sound, Passed
  <2>7. QED
    BY <1>3, <1>6, <2>2, <2>3, <2>6
<1>7. ASSUME NEW r \in Requests, UNCHANGED accounts, Require(r)
      PROVE  /\ req' \in [Requests -> Rec \cup {NoRequest}]
             /\ \A s \in Requests : req'[s] # NoRequest => Sound(req[s])'
  <2> DEFINE t == req[r].cookie
             allowed == Live(t) /\ (IsKind(r, {"form"}) => IsAdmin(t) /\ CheckCSRF(t, req[r].what.csrf))
  <2>1. /\ req[r] # NoRequest /\ req[r] \in Rec /\ Sound(req[r]) /\ UNCHANGED <<born, clock>>
        /\ req[r].what.kind \in {"page", "form"}
        /\ req' = IF allowed
                  THEN [req EXCEPT ![r].stage = "allowed", ![r].got = sessions[t].user]
                  ELSE [req EXCEPT ![r].stage = "refused"]
    BY <1>0, <1>7 DEF Require, Now, IsKind
  <2>2. CASE allowed
    <3>1. ~Over(t)
      BY <2>1, <2>2, OverNotLive DEF Rec
    <3>2. /\ t \in DOMAIN sessions /\ t \in DOMAIN born
          /\ sessions[t].user = born[t].user /\ sessions[t].user \in DOMAIN accounts
          /\ sessions[t].user \in Names /\ sessions[t].csrf = t
          /\ sessions[t].role = accounts[sessions[t].user]
      BY <1>0, <2>2 DEF Live, TypeOK
    <3>3. req[r].what.kind = "form" => sessions[t].role = "admin" /\ sessions[t].csrf = req[r].what.csrf
      BY <2>2 DEF IsKind, IsAdmin, CheckCSRF
    <3>4. ~req[r].late
      BY <2>1, <3>1 DEF Sound
    <3>5. req' = [req EXCEPT ![r].stage = "allowed", ![r].got = sessions[t].user]
      BY <2>1, <2>2
    <3>6. QED
      BY <1>6, <1>7, <2>1, <3>2, <3>3, <3>4, <3>5 DEF Stages, Passed
  <2>3. CASE ~allowed
    <3>1. req' = [req EXCEPT ![r].stage = "refused", ![r].got = req[r].got]
      BY <1>0, <2>1, <2>3 DEF Rec
    <3>2. req'[r].stage = "refused" /\ ~Passed(req[r])'
      BY <1>0, <2>1, <3>1 DEF Passed, Rec
    <3>3. req[r].got \in Names \cup Cookies
      BY <2>1 DEF Rec
    <3>4. QED
      BY <1>6, <1>7, <2>1, <3>1, <3>2, <3>3 DEF Stages
  <2>4. QED
    BY <2>2, <2>3
<1>8. ASSUME NEW r \in Requests, UNCHANGED accounts, Act(r)
      PROVE  /\ req' \in [Requests -> Rec \cup {NoRequest}]
             /\ \A s \in Requests : req'[s] # NoRequest => Sound(req[s])'
  <2>1. /\ req[r] # NoRequest /\ req[r] \in Rec /\ Sound(req[r]) /\ UNCHANGED <<born, clock>>
        /\ req[r].stage = "allowed" /\ req' = [req EXCEPT ![r].stage = "done"]
    BY <1>0, <1>8 DEF Act, Now
  <2>2. Passed(req[r])
    BY <2>1 DEF Passed, Sound
  <2>3. req' = [req EXCEPT ![r].stage = "done", ![r].got = req[r].got] /\ req[r].got \in Names \cup Cookies
    BY <1>0, <2>1 DEF Rec
  <2>4. QED
    BY <1>6, <1>8, <2>1, <2>2, <2>3 DEF Stages, Passed, Sound
<1>9. ASSUME NEW r \in Requests, UNCHANGED accounts, SignIn(r)
      PROVE  /\ req' \in [Requests -> Rec \cup {NoRequest}]
             /\ \A s \in Requests : req'[s] # NoRequest => Sound(req[s])'
  <2>1. /\ req[r] # NoRequest /\ req[r] \in Rec /\ UNCHANGED clock /\ req[r].what.kind = "login"
        /\ \/ req' = [req EXCEPT ![r].stage = "refused"]
           \/ \E t \in Tokens : t \in DOMAIN born' /\ req' = [req EXCEPT ![r].stage = "done", ![r].got = t]
    BY <1>0, <1>9 DEF SignIn, Now, IsKind
  <2>2. CASE req' = [req EXCEPT ![r].stage = "refused"]
    <3>1. req' = [req EXCEPT ![r].stage = "refused", ![r].got = req[r].got] /\ req[r].got \in Names \cup Cookies
      BY <1>0, <2>1, <2>2 DEF Rec
    <3>2. ~Passed(req[r])'
      BY <1>0, <2>1, <3>1 DEF Passed, Rec
    <3>3. QED
      BY <1>6, <1>9, <2>1, <3>1, <3>2 DEF Stages
  <2>3. ASSUME NEW t \in Tokens, t \in DOMAIN born', req' = [req EXCEPT ![r].stage = "done", ![r].got = t]
        PROVE  /\ req' \in [Requests -> Rec \cup {NoRequest}]
               /\ \A s \in Requests : req'[s] # NoRequest => Sound(req[s])'
    <3>1. ~Passed(req[r])' /\ t \in Names \cup Cookies
      BY <1>0, <2>1, <2>3 DEF Passed, Rec, Cookies
    <3>2. QED
      BY <1>6, <1>9, <2>1, <2>3, <3>1 DEF Stages
  <2>4. QED
    BY <2>1, <2>2, <2>3
<1>10. ASSUME NEW r \in Requests, UNCHANGED accounts, SignOut(r)
       PROVE  /\ req' \in [Requests -> Rec \cup {NoRequest}]
              /\ \A s \in Requests : req'[s] # NoRequest => Sound(req[s])'
  <2>1. /\ req[r] # NoRequest /\ req[r] \in Rec /\ UNCHANGED clock /\ req[r].what.kind = "logout"
        /\ req' = [req EXCEPT ![r].stage = "done"]
    BY <1>0, <1>10 DEF SignOut, Now, IsKind
  <2>2. req' = [req EXCEPT ![r].stage = "done", ![r].got = req[r].got] /\ req[r].got \in Names \cup Cookies
    BY <1>0, <2>1 DEF Rec
  <2>3. ~Passed(req[r])'
    BY <1>0, <2>1, <2>2 DEF Passed, Rec
  <2>4. QED
    BY <1>6, <1>10, <2>1, <2>2, <2>3 DEF Stages
<1>11. CASE UNCHANGED req /\ UNCHANGED accounts
  BY <1>0, <1>11, SoundStays
<1>12. QED
  <2>1. CASE Restart
    BY <1>1, <2>1
  <2>2. CASE Tick \/ UNCHANGED vars
    BY <1>11, <2>2 DEF Tick, vars
  <2>3. CASE Next /\ ~Restart /\ ~Tick
    BY <1>2, <1>4, <1>5, <1>7, <1>8, <1>9, <1>10, <2>3 DEF Next
  <2>4. QED
    BY <2>1, <2>2, <2>3

----------------------------------------------------------------------------
(* Browsers hold cookies that were made, and tabs the pages of sessions.   *)
LEMMA BrowsersStep ==
  ASSUME SessionsInv, [Next]_vars
  PROVE  /\ jar' \in [Browsers -> Cookies] /\ tabs' \in [Browsers -> SUBSET Tokens]
         /\ \A b \in Browsers : jar'[b] \in DOMAIN born' \cup {NoToken}
<1>0. /\ TypeOK /\ DOMAIN born \subseteq Tokens /\ DOMAIN born \subseteq DOMAIN born'
      /\ jar \in [Browsers -> Cookies] /\ tabs \in [Browsers -> SUBSET Tokens]
      /\ \A b \in Browsers : jar[b] \in DOMAIN born \cup {NoToken}
  BY HistoryGrows DEF SessionsInv, TypeOK
<1>1. CASE UNCHANGED <<jar, tabs>>
  BY <1>0, <1>1
<1>2. ASSUME NEW r \in Requests, Deliver(r)
      PROVE  /\ jar' \in [Browsers -> Cookies] /\ tabs' \in [Browsers -> SUBSET Tokens]
             /\ \A b \in Browsers : jar'[b] \in DOMAIN born' \cup {NoToken}
  <2> DEFINE b == req[r].from
  <2>1. req[r] # NoRequest /\ req[r] \in Rec /\ Sound(req[r]) /\ b \in Browsers
    BY <1>2 DEF Deliver, SessionsInv, TypeOK, Rec
  <2>2. tabs' \in [Browsers -> SUBSET Tokens]
    <3>1. CASE Now(r, "done") /\ IsKind(r, {"page"})
      <4>1. req[r].cookie \in Tokens /\ tabs' = [tabs EXCEPT ![b] = @ \cup {req[r].cookie}]
        BY <1>0, <1>2, <2>1, <3>1 DEF Deliver, Now, IsKind, Sound, Passed
      <4>2. QED
        BY <1>0, <2>1, <4>1
    <3>2. CASE ~(Now(r, "done") /\ IsKind(r, {"page"}))
      BY <1>0, <1>2, <3>2 DEF Deliver
    <3>3. QED
      BY <3>1, <3>2
  <2>3. \/ UNCHANGED jar
        \/ \E t \in DOMAIN born \cup {NoToken} : jar' = [jar EXCEPT ![b] = t]
    <3>1. CASE Now(r, "done") /\ IsKind(r, {"login"})
      <4>1. req[r].got \in DOMAIN born /\ jar' = [jar EXCEPT ![b] = req[r].got]
        BY <1>2, <2>1, <3>1 DEF Deliver, Now, IsKind, Sound
      <4>2. QED
        BY <4>1
    <3>2. CASE ~(Now(r, "done") /\ IsKind(r, {"login"}))
      BY <1>2, <3>2 DEF Deliver
    <3>3. QED
      BY <3>1, <3>2
  <2>4. QED
    BY <1>0, <2>1, <2>2, <2>3 DEF Cookies
<1>3. QED
  BY <1>1, <1>2 DEF Next, vars, Send, Require, Act, SignIn, SignOut, LoseReply, Tick, Restart

(* Whoever may change something is an admin the page was drawn for.        *)
LEMMA InvImpliesProperties ==
  ASSUME SessionsInv
  PROVE  TypeOK /\ ActorSawTheForm /\ ChangedByAdmins /\ OverIsOver
<1>1. \A r \in Requests : req[r] # NoRequest => req[r] \in Rec /\ Sound(req[r])
  BY DEF SessionsInv, TypeOK, Rec
<1>2. \A r \in Requests : Changes(r) => Passed(req[r]) /\ req[r].what.kind = "form"
  BY DEF Changes, Passed, IsKind
<1>3. ActorSawTheForm /\ ChangedByAdmins
  BY <1>1, <1>2 DEF ActorSawTheForm, ChangedByAdmins, Changes, Sound
<1>4. OverIsOver
  BY <1>1 DEF OverIsOver, IsKind, Sound, Passed, Rec, Stages
<1>5. QED
  BY <1>3, <1>4 DEF SessionsInv

(* SessionsInv holds in every reachable state.                             *)
LEMMA SessionsInvHolds == Spec => []SessionsInv
<1>1. Init => SessionsInv
  <2>1. DOMAIN <<>> = {}
    OBVIOUS
  <2>2. QED
    BY <2>1, SessionsOK DEF Init, SessionsInv, EndedOK, TypeOK, Cookies
<1>2. SessionsInv /\ [Next]_vars => SessionsInv'
  <2>1. SUFFICES ASSUME SessionsInv, [Next]_vars PROVE SessionsInv'
    OBVIOUS
  <2>2. TypeOK'
    BY <2>1, TableStep, RequestsStep, BrowsersStep DEF TypeOK, TableOK, Rec
  <2>3. QED
    BY <2>1, <2>2, TableStep, RequestsStep, BrowsersStep DEF SessionsInv
<1>3. QED
  BY <1>1, <1>2, PTL DEF Spec

(* A session is what the process was configured with, at every moment.     *)
THEOREM TypeCorrect == Spec => []TypeOK
BY SessionsInvHolds, InvImpliesProperties, PTL

(* Whoever is signed in by now, a form acts in the name of the person its  *)
(* page was drawn for (requireAdmin, CheckCSRF).                           *)
THEOREM FormsActForTheirReader == Spec => []ActorSawTheForm
BY SessionsInvHolds, InvImpliesProperties, PTL

(* Only an admin of the running configuration changes anything.            *)
THEOREM OnlyAdminsChange == Spec => []ChangedByAdmins
BY SessionsInvHolds, InvImpliesProperties, PTL

(* Nothing sent after a sign-in has ended has an effect: not after it      *)
(* expired, after a sign-out in any tab, or after a restart.               *)
THEOREM EndedSignInsDoNothing == Spec => []OverIsOver
BY SessionsInvHolds, InvImpliesProperties, PTL

----------------------------------------------------------------------------
(* The refinement of SignIns.  What it sees of a state: the accounts,      *)
(* whose each sign-in is, those that are over, and the requests let in.    *)

WhoBar   == [t \in DOMAIN born |-> born[t].user]
OverBar  == {t \in DOMAIN born : Over(t)}
DoingBar == [r \in {q \in Requests : LetInNow(q)} |-> Deed(r)]

(* What happens to one request leaves what the others do alone.            *)
LEMMA OneRequest ==
  ASSUME TypeOK, NEW r \in Requests, NEW x, req' = [req EXCEPT ![r] = x]
  PROVE  /\ req'[r] = x
         /\ \A q \in Requests \ {r} : (LetInNow(q)' <=> LetInNow(q)) /\ Deed(q)' = Deed(q)
         /\ ~LetInNow(r) /\ ~LetInNow(r)' => UNCHANGED DoingBar
<1>1. req'[r] = x /\ \A q \in Requests \ {r} : req'[q] = req[q]
  BY DEF TypeOK
<1>2. \A q \in Requests \ {r} : (LetInNow(q)' <=> LetInNow(q)) /\ Deed(q)' = Deed(q)
  BY <1>1 DEF LetInNow, Deed, IsKind
<1>3. ASSUME ~LetInNow(r), ~LetInNow(r)'
      PROVE  UNCHANGED DoingBar
  <2>1. {q \in Requests : LetInNow(q)}' = {q \in Requests : LetInNow(q)}
    BY <1>2, <1>3
  <2>2. \A q \in {p \in Requests : LetInNow(p)} : Deed(q)' = Deed(q)
    BY <1>2, <1>3
  <2>3. QED
    BY <2>1, <2>2 DEF DoingBar
<1>4. QED
  BY <1>1, <1>2, <1>3

(* As long as nobody signs in or out, no process goes and no time passes,  *)
(* nothing becomes of the sign-ins.                                        *)
LEMMA SignInsStay ==
  ASSUME UNCHANGED <<born, ended, clock>>
  PROVE  UNCHANGED <<WhoBar, OverBar>>
BY DEF WhoBar, OverBar, Over

(* A request that reaches another stage stays the request it was.          *)
LEMMA StageMove ==
  ASSUME TypeOK, NEW r \in Requests, req[r] # NoRequest,
         NEW stage \in Stages, NEW got \in Names \cup Cookies,
         req' = [req EXCEPT ![r].stage = stage, ![r].got = got]
  PROVE  /\ req'[r].what = req[r].what /\ req'[r].cookie = req[r].cookie
         /\ req'[r].stage = stage /\ req'[r].got = got
         /\ \E x \in Rec : req' = [req EXCEPT ![r] = x]
<1>1. req[r] \in Rec
  BY DEF TypeOK, Rec
<1>2. PICK x : x = [req[r] EXCEPT !.stage = stage, !.got = got]
  OBVIOUS
<1>3. x \in Rec /\ x.what = req[r].what /\ x.cookie = req[r].cookie /\ x.stage = stage /\ x.got = got
  BY <1>1, <1>2 DEF Rec
<1>4. req' = [req EXCEPT ![r] = x] /\ req'[r] = x
  BY <1>2 DEF TypeOK
<1>5. QED
  BY <1>3, <1>4

(* The same when only the stage changes.                                   *)
LEMMA OnlyStageMoves ==
  ASSUME TypeOK, NEW r \in Requests, req[r] # NoRequest, NEW stage \in Stages,
         req' = [req EXCEPT ![r].stage = stage]
  PROVE  /\ req'[r].what = req[r].what /\ req'[r].cookie = req[r].cookie
         /\ req'[r].stage = stage /\ req'[r].got = req[r].got
         /\ \E x \in Rec : req' = [req EXCEPT ![r] = x]
<1>1. req[r] \in Rec
  BY DEF TypeOK, Rec
<1>2. PICK x : x = [req[r] EXCEPT !.stage = stage]
  OBVIOUS
<1>3. x \in Rec /\ x.what = req[r].what /\ x.cookie = req[r].cookie /\ x.stage = stage /\ x.got = req[r].got
  BY <1>1, <1>2 DEF Rec
<1>4. req' = [req EXCEPT ![r] = x] /\ req'[r] = x
  BY <1>2 DEF TypeOK
<1>5. QED
  BY <1>3, <1>4

(* No process has a sign-in at its start. *)
LEMMA PromiseInit ==
  ASSUME Init
  PROVE  Promise!Init
<1>1. /\ DOMAIN born = {} /\ \A r \in Requests : ~LetInNow(r)
      /\ accounts \in Configs
  BY DEF Init, LetInNow
<1>2. WhoBar = <<>> /\ OverBar = {} /\ DoingBar = <<>>
  BY <1>1 DEF WhoBar, OverBar, DoingBar
<1>3. QED
  BY <1>1, <1>2 DEF Promise!Init, WhoBar, OverBar, DoingBar

(* Require lets a request in only under a sign-in that lasts, for a page   *)
(* drawn for it, and to a change only an admin; or it lets nobody in.      *)
LEMMA PromiseRequire ==
  ASSUME SessionsInv, NEW r \in Requests, Require(r)
  PROVE  Promise!LetIn(r) \/ UNCHANGED DoingBar
<1>1. /\ req[r] # NoRequest /\ req[r] \in Rec /\ ~LetInNow(r)
      /\ r \notin DOMAIN DoingBar /\ req[r].what.kind \in {"page", "form"}
      /\ UNCHANGED <<accounts, born, ended, clock>>
      /\ req \in [Requests -> Rec \cup {NoRequest}]
  BY DEF Require, Now, IsKind, LetInNow, SessionsInv, TypeOK, Rec, DoingBar
<1>2. PICK t : t = req[r].cookie
  OBVIOUS
<1>3. CASE Live(t) /\ (IsKind(r, {"form"}) => IsAdmin(t) /\ CheckCSRF(t, req[r].what.csrf))
  <2>1. req' = [req EXCEPT ![r].stage = "allowed", ![r].got = sessions[t].user]
    BY <1>1, <1>2, <1>3 DEF Require
  <2>2. /\ t \in Tokens /\ t \in DOMAIN born /\ ~Over(t)
        /\ sessions[t].user = born[t].user /\ sessions[t].csrf = t
        /\ sessions[t].role = accounts[born[t].user] /\ born[t].user \in DOMAIN accounts
        /\ born[t].user \in Names
    <3>1. t \in DOMAIN sessions /\ DOMAIN sessions \subseteq DOMAIN born /\ DOMAIN born \subseteq Tokens
      BY <1>3 DEF Live, SessionsInv, TypeOK
    <3>2. ~Over(t)
      BY <1>3, <3>1, OverNotLive DEF Cookies
    <3>3. /\ sessions[t].user \in DOMAIN accounts /\ born[t].user \in Names
          /\ sessions[t] = [user |-> born[t].user, role |-> accounts[born[t].user],
                            expires |-> born[t].at + Ttl, csrf |-> t]
      BY <3>1 DEF SessionsInv, TypeOK
    <3>4. QED
      BY <3>1, <3>2, <3>3
  <2>3. /\ req'[r].what = req[r].what /\ req'[r].cookie = t /\ req'[r].stage = "allowed"
        /\ req'[r].got = born[t].user
        /\ \E x \in Rec : req' = [req EXCEPT ![r] = x]
        /\ req'[r] # NoRequest
    <3>1. TypeOK /\ "allowed" \in Stages
      BY DEF SessionsInv, Stages
    <3>2. /\ req'[r].what = req[r].what /\ req'[r].cookie = t /\ req'[r].stage = "allowed"
          /\ req'[r].got = born[t].user
          /\ \E x \in Rec : req' = [req EXCEPT ![r] = x]
      <4>1. PICK u : u = sessions[t].user
        OBVIOUS
      <4>2. u \in Names \cup Cookies /\ req' = [req EXCEPT ![r].stage = "allowed", ![r].got = u]
        BY <2>1, <2>2, <4>1
      <4>3. /\ req'[r].what = req[r].what /\ req'[r].cookie = req[r].cookie
            /\ req'[r].stage = "allowed" /\ req'[r].got = u
            /\ \E x \in Rec : req' = [req EXCEPT ![r] = x]
        BY <1>1, <3>1, <4>2, StageMove
      <4>4. QED
        BY <1>2, <2>2, <4>1, <4>3
    <3>3. PICK x \in Rec : req' = [req EXCEPT ![r] = x]
      BY <3>2
    <3>4. req'[r] = x
      BY <1>1, <3>3
    <3>5. req'[r] # NoRequest
      BY <3>3, <3>4, NoRequestOK
    <3>6. QED
      BY <3>2, <3>5
  <2>4. PICK changes \in BOOLEAN : changes = IsKind(r, {"form"})
    <3>1. IsKind(r, {"form"}) \in BOOLEAN
      BY DEF IsKind
    <3>2. QED
      BY <3>1
  <2>5. /\ LetInNow(r)'
        /\ Deed(r)' = [actor |-> WhoBar[t], signIn |-> t, page |-> t, changes |-> changes]
        /\ changes => WhoBar[t] \in DOMAIN accounts /\ accounts[WhoBar[t]] = "admin"
    BY <1>1, <1>3, <2>2, <2>3, <2>4
       DEF LetInNow, Deed, IsKind, WhoBar, CheckCSRF, IsAdmin
  <2>6. \A q \in Requests \ {r} : (LetInNow(q)' <=> LetInNow(q)) /\ Deed(q)' = Deed(q)
    BY <2>3, OneRequest DEF SessionsInv
  <2>7. DoingBar' = [q \in DOMAIN DoingBar \cup {r} |->
                       IF q = r
                       THEN [actor |-> WhoBar[t], signIn |-> t, page |-> t,
                             changes |-> changes]
                       ELSE DoingBar[q]]
    <3>1. {q \in Requests : LetInNow(q)}' = {q \in Requests : LetInNow(q)} \cup {r}
      BY <2>5, <2>6
    <3>2. DOMAIN DoingBar = {q \in Requests : LetInNow(q)}
      BY DEF DoingBar
    <3>3. \A q \in DOMAIN DoingBar : Deed(q)' = DoingBar[q]
      BY <1>1, <2>6 DEF DoingBar
    <3>4. QED
      BY <1>1, <2>5, <3>1, <3>2, <3>3 DEF DoingBar
  <2>8. t \in DOMAIN WhoBar \ OverBar
    BY <2>2 DEF WhoBar, OverBar
  <2>9. UNCHANGED <<accounts, WhoBar, OverBar>>
    BY <1>1, SignInsStay
  <2>10. QED
    BY <1>1, <2>5, <2>7, <2>8, <2>9 DEF Promise!LetIn, WhoBar, OverBar, DoingBar
<1>4. CASE ~(Live(t) /\ (IsKind(r, {"form"}) => IsAdmin(t) /\ CheckCSRF(t, req[r].what.csrf)))
  <2>1. req' = [req EXCEPT ![r].stage = "refused"]
    BY <1>1, <1>2, <1>4 DEF Require
  <2>2. req'[r].stage = "refused" /\ \E x \in Rec : req' = [req EXCEPT ![r] = x]
    <3>1. TypeOK /\ "refused" \in Stages
      BY DEF SessionsInv, Stages
    <3>2. QED
      BY <1>1, <2>1, <3>1, OnlyStageMoves
  <2>3. ~LetInNow(r)'
    BY <2>2 DEF LetInNow
  <2>4. QED
    BY <1>1, <2>2, <2>3, OneRequest DEF SessionsInv
<1>5. QED
  BY <1>3, <1>4

(* SignIn makes a sign-in of the person it accepts, or none.               *)
LEMMA PromiseSignIn ==
  ASSUME SessionsInv, NEW r \in Requests, SignIn(r)
  PROVE  \/ \E t \in Tokens : Promise!Make(t)
         \/ UNCHANGED Promise!vars
<1>1. /\ req[r] # NoRequest /\ req[r] \in Rec /\ req[r].what.kind = "login"
      /\ UNCHANGED <<accounts, clock, ended>>
  BY DEF SignIn, Now, IsKind, SessionsInv, TypeOK, Rec
<1>2. UNCHANGED DoingBar
  <2>1. req'[r].what = req[r].what /\ \E x \in Rec : req' = [req EXCEPT ![r] = x]
    <3>1. TypeOK /\ "done" \in Stages /\ "refused" \in Stages
      BY DEF SessionsInv, Stages
    <3>2. CASE Accepts(req[r].what)
      <4>1. PICK t \in Tokens : req' = [req EXCEPT ![r].stage = "done", ![r].got = t]
        BY <3>2 DEF SignIn
      <4>2. t \in Names \cup Cookies
        BY DEF Cookies
      <4>3. QED
        BY <1>1, <3>1, <4>1, <4>2, StageMove
    <3>3. CASE ~Accepts(req[r].what)
      <4>1. req' = [req EXCEPT ![r].stage = "refused"]
        BY <3>3 DEF SignIn
      <4>2. QED
        BY <1>1, <3>1, <4>1, OnlyStageMoves
    <3>4. QED
      BY <3>2, <3>3
  <2>2. ~LetInNow(r) /\ ~LetInNow(r)'
    BY <1>1, <2>1 DEF LetInNow, IsKind
  <2>3. QED
    BY <2>1, <2>2, OneRequest DEF SessionsInv
<1>3. CASE Accepts(req[r].what)
  <2>1. PICK t \in Tokens \ DOMAIN born :
          born' = [u \in DOMAIN born \cup {t} |->
                     IF u = t THEN [user |-> req[r].what.name, at |-> clock] ELSE born[u]]
    BY <1>3 DEF SignIn
  <2>2. WhoBar' = [u \in DOMAIN WhoBar \cup {t} |->
                     IF u = t THEN req[r].what.name ELSE WhoBar[u]]
    BY <2>1 DEF WhoBar
  <2>3. OverBar' = OverBar
    <3>1. t \notin ended /\ t # NoToken
      BY <2>1, SessionsOK DEF SessionsInv, EndedOK
    <3>2. clock \in Nat /\ Ttl \in Nat
      BY SessionsOK DEF SessionsInv, TypeOK
    <3>3. ~Over(t)'
      <4>1. born'[t].at = clock /\ clock' = clock /\ ended' = ended
        BY <1>1, <2>1
      <4>2. QED
        BY <3>1, <3>2, <4>1 DEF Over
    <3>4. \A u \in DOMAIN born : Over(u)' <=> Over(u)
      BY <1>1, <2>1 DEF Over
    <3>5. QED
      BY <2>1, <3>3, <3>4 DEF OverBar
  <2>4. req[r].what.name \in DOMAIN accounts /\ t \notin DOMAIN WhoBar
    BY <1>3, <2>1 DEF Accepts, WhoBar
  <2>5. Promise!Make(t)
    BY <1>1, <1>2, <2>2, <2>3, <2>4 DEF Promise!Make, WhoBar, OverBar, DoingBar
  <2>6. QED
    BY <2>5
<1>4. CASE ~Accepts(req[r].what)
  <2>1. UNCHANGED born
    BY <1>4 DEF SignIn
  <2>2. QED
    BY <1>1, <1>2, <2>1, SignInsStay DEF Promise!vars, WhoBar, OverBar, DoingBar
<1>5. QED
  BY <1>3, <1>4

(* The handler runs for a request that was let in, and for the same.       *)
LEMMA PromiseAct ==
  ASSUME SessionsInv, NEW r \in Requests, Act(r)
  PROVE  UNCHANGED DoingBar
<1>1. /\ TypeOK /\ req[r] # NoRequest /\ req[r].stage = "allowed" /\ "done" \in Stages
      /\ req[r].what.kind \in {"page", "form"} /\ req' = [req EXCEPT ![r].stage = "done"]
  BY DEF Act, Now, SessionsInv, Sound, Stages
<1>2. /\ req'[r].what = req[r].what /\ req'[r].cookie = req[r].cookie
      /\ req'[r].stage = "done" /\ req'[r].got = req[r].got
      /\ \E x \in Rec : req' = [req EXCEPT ![r] = x]
  BY <1>1, OnlyStageMoves
<1>3. PICK x \in Rec : req' = [req EXCEPT ![r] = x]
  BY <1>2
<1>4. req'[r] # NoRequest
  <2>1. req'[r] = x
    BY <1>1, <1>3, OneRequest
  <2>2. QED
    BY <2>1, NoRequestOK
<1>5. LetInNow(r) /\ LetInNow(r)' /\ Deed(r)' = Deed(r)
  BY <1>1, <1>2, <1>4 DEF LetInNow, Deed, IsKind
<1>6. \A q \in Requests \ {r} : (LetInNow(q)' <=> LetInNow(q)) /\ Deed(q)' = Deed(q)
  BY <1>1, <1>3, OneRequest
<1>7. {q \in Requests : LetInNow(q)}' = {q \in Requests : LetInNow(q)}
  BY <1>5, <1>6
<1>8. \A q \in {p \in Requests : LetInNow(p)} : Deed(q)' = Deed(q)
  BY <1>5, <1>6
<1>9. QED
  BY <1>7, <1>8 DEF DoingBar

(* What a browser sends has not been let in yet.                           *)
LEMMA PromiseSend ==
  ASSUME TypeOK, NEW r \in Requests, NEW b \in Browsers, NEW what \in Whats, Send(r, b, what)
  PROVE  UNCHANGED DoingBar
<1>1. PICK x : x = [what |-> what, from |-> b, cookie |-> jar[b],
                    stage |-> "sent", got |-> NoToken, late |-> Over(jar[b])]
  OBVIOUS
<1>2. req' = [req EXCEPT ![r] = x] /\ x.stage = "sent" /\ req[r] = NoRequest
  BY <1>1 DEF Send
<1>3. req'[r] = x
  BY <1>2, OneRequest
<1>4. ~LetInNow(r) /\ ~LetInNow(r)'
  BY <1>2, <1>3 DEF LetInNow
<1>5. QED
  BY <1>2, <1>4, OneRequest

(* A sign-out ends a sign-in at most, and no request is let in by it.      *)
LEMMA PromiseSignOut ==
  ASSUME SessionsInv, [Next]_vars, NEW r \in Requests, SignOut(r)
  PROVE  Promise!Lapse
<1>1. /\ TypeOK /\ req[r] # NoRequest /\ req[r].what.kind = "logout" /\ "done" \in Stages
      /\ req' = [req EXCEPT ![r].stage = "done"] /\ UNCHANGED <<accounts, clock, born>>
  BY DEF SignOut, Now, IsKind, SessionsInv, Stages
<1>2. req'[r].what = req[r].what /\ \E x \in Rec : req' = [req EXCEPT ![r] = x]
  BY <1>1, OnlyStageMoves
<1>3. ~LetInNow(r) /\ ~LetInNow(r)'
  BY <1>1, <1>2 DEF LetInNow, IsKind
<1>4. UNCHANGED DoingBar
  BY <1>1, <1>2, <1>3, OneRequest
<1>5. UNCHANGED WhoBar /\ OverBar \subseteq OverBar' /\ OverBar' \subseteq DOMAIN WhoBar
  BY <1>1, OverStays DEF WhoBar, OverBar
<1>6. QED
  BY <1>1, <1>4, <1>5 DEF Promise!Lapse, WhoBar, OverBar, DoingBar

(* Time ends sign-ins and brings none back.                                *)
LEMMA PromiseTick ==
  ASSUME TypeOK, [Next]_vars, Tick
  PROVE  Promise!Lapse
<1>1. UNCHANGED <<accounts, born, req>>
  BY DEF Tick
<1>2. UNCHANGED DoingBar
  BY <1>1 DEF DoingBar, LetInNow, Deed, IsKind
<1>3. UNCHANGED WhoBar /\ OverBar \subseteq OverBar' /\ OverBar' \subseteq DOMAIN WhoBar
  BY <1>1, OverStays DEF WhoBar, OverBar
<1>4. QED
  BY <1>1, <1>2, <1>3 DEF Promise!Lapse, WhoBar, OverBar, DoingBar

(* A reply ends its request, whether it arrives or is lost.                *)
LEMMA PromiseReply ==
  ASSUME TypeOK, NEW r \in Requests, Deliver(r) \/ LoseReply(r)
  PROVE  Promise!Answer(r) \/ UNCHANGED DoingBar
<1>1. req' = [req EXCEPT ![r] = NoRequest] /\ UNCHANGED <<accounts, born, ended, clock>>
  BY DEF Deliver, LoseReply
<1>2. req'[r] = NoRequest /\ ~LetInNow(r)'
  <2>1. req'[r] = NoRequest
    BY <1>1, OneRequest
  <2>2. QED
    BY <2>1 DEF LetInNow
<1>3. CASE ~LetInNow(r)
  BY <1>1, <1>2, <1>3, OneRequest
<1>4. CASE LetInNow(r)
  <2>1. \A q \in Requests \ {r} : (LetInNow(q)' <=> LetInNow(q)) /\ Deed(q)' = Deed(q)
    BY <1>1, OneRequest
  <2>2. {q \in Requests : LetInNow(q)}' = {q \in Requests : LetInNow(q)} \ {r}
    BY <1>2, <2>1
  <2>3. DOMAIN DoingBar = {q \in Requests : LetInNow(q)} /\ r \in DOMAIN DoingBar
    BY <1>4 DEF DoingBar
  <2>4. \A q \in DOMAIN DoingBar \ {r} : Deed(q)' = DoingBar[q]
    BY <2>1 DEF DoingBar
  <2>5. DoingBar' = [q \in DOMAIN DoingBar \ {r} |-> DoingBar[q]]
    BY <2>2, <2>3, <2>4 DEF DoingBar
  <2>6. UNCHANGED <<accounts, WhoBar, OverBar>>
    BY <1>1, SignInsStay
  <2>7. QED
    BY <2>3, <2>5, <2>6 DEF Promise!Answer, WhoBar, OverBar, DoingBar
<1>5. QED
  BY <1>3, <1>4

(* A restart ends every sign-in there is.                                  *)
LEMMA PromiseRestart ==
  ASSUME Restart
  PROVE  Promise!Restart
<1>1. /\ accounts' \in Configs /\ ended' = ended \cup DOMAIN born /\ UNCHANGED born
      /\ req' = [r \in Requests |-> NoRequest]
  BY DEF Restart
<1>2. UNCHANGED WhoBar /\ DOMAIN WhoBar = DOMAIN born
  BY <1>1 DEF WhoBar
<1>3. OverBar' = DOMAIN WhoBar
  BY <1>1, <1>2 DEF OverBar, Over
<1>4. DoingBar' = <<>>
  <2>1. \A r \in Requests : ~LetInNow(r)'
    BY <1>1 DEF LetInNow
  <2>2. QED
    BY <2>1 DEF DoingBar
<1>5. QED
  BY <1>1, <1>2, <1>3, <1>4 DEF Promise!Restart, WhoBar, OverBar, DoingBar

(* Every step of the program is a step of SignIns or leaves it alone.      *)
LEMMA PromiseStep ==
  ASSUME SessionsInv, [Next]_vars
  PROVE  [Promise!Next]_(Promise!vars)
<1>0. TypeOK
  BY DEF SessionsInv
<1>1. ASSUME UNCHANGED <<accounts, born, ended, clock>>, UNCHANGED DoingBar
      PROVE  UNCHANGED Promise!vars
  BY <1>1, SignInsStay DEF Promise!vars, WhoBar, OverBar, DoingBar
<1>2. ASSUME NEW r \in Requests, NEW b \in Browsers, NEW what \in Whats, Send(r, b, what)
      PROVE  UNCHANGED Promise!vars
  <2>1. UNCHANGED <<accounts, born, ended, clock>>
    BY <1>2 DEF Send
  <2>2. QED
    BY <1>0, <1>1, <1>2, <2>1, PromiseSend
<1>3. ASSUME NEW r \in Requests, Require(r)
      PROVE  Promise!LetIn(r) \/ UNCHANGED Promise!vars
  <2>1. UNCHANGED <<accounts, born, ended, clock>>
    BY <1>3 DEF Require
  <2>2. QED
    BY <1>1, <1>3, <2>1, PromiseRequire
<1>4. ASSUME NEW r \in Requests, Act(r)
      PROVE  UNCHANGED Promise!vars
  <2>1. UNCHANGED <<accounts, born, ended, clock>>
    BY <1>4 DEF Act
  <2>2. QED
    BY <1>1, <1>4, <2>1, PromiseAct
<1>5. ASSUME NEW r \in Requests, Deliver(r) \/ LoseReply(r)
      PROVE  Promise!Answer(r) \/ UNCHANGED Promise!vars
  <2>1. UNCHANGED <<accounts, born, ended, clock>>
    BY <1>5 DEF Deliver, LoseReply
  <2>2. QED
    BY <1>0, <1>1, <1>5, <2>1, PromiseReply
<1>6. CASE UNCHANGED vars
  <2>1. UNCHANGED <<accounts, born, ended, clock, req>>
    BY <1>6 DEF vars
  <2>2. UNCHANGED DoingBar
    BY <2>1 DEF DoingBar, LetInNow, Deed, IsKind
  <2>3. QED
    BY <1>1, <2>1, <2>2
<1>7. CASE Next
  <2>1. CASE \E r \in Requests, b \in Browsers, what \in Whats : Send(r, b, what)
    BY <1>2, <2>1
  <2>2. ASSUME NEW r \in Requests,
               Require(r) \/ Act(r) \/ SignIn(r) \/ SignOut(r) \/ Deliver(r) \/ LoseReply(r)
        PROVE  [Promise!Next]_(Promise!vars)
    <3>1. CASE Require(r) \/ Act(r) \/ Deliver(r) \/ LoseReply(r)
      BY <1>3, <1>4, <1>5, <3>1 DEF Promise!Next
    <3>2. CASE SignIn(r)
      BY <3>2, PromiseSignIn DEF Promise!Next
    <3>3. CASE SignOut(r)
      BY <3>3, PromiseSignOut DEF Promise!Next
    <3>4. QED
      BY <2>2, <3>1, <3>2, <3>3
  <2>3. CASE Tick
    BY <1>0, <2>3, PromiseTick DEF Promise!Next
  <2>4. CASE Restart
    BY <2>4, PromiseRestart DEF Promise!Next
  <2>5. QED
    BY <1>7, <2>1, <2>2, <2>3, <2>4 DEF Next
<1>8. QED
  BY <1>6, <1>7

(* auth and requireUser keep what SignIns promises: a sign-in is one       *)
(* person's, ends once and for good, and lets in only what was drawn for   *)
(* it, whatever browsers hold and however requests overlap.                *)
THEOREM Implementation == Spec => ImplementsSignIns
<1>1. Init => Promise!Init
  BY PromiseInit
<1>2. SessionsInv /\ [Next]_vars => [Promise!Next]_(Promise!vars)
  BY PromiseStep
<1>3. QED
  BY <1>1, <1>2, SessionsInvHolds, PTL DEF Spec, ImplementsSignIns, Promise!Spec
==============================================================================
