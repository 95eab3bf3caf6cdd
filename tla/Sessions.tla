------------------------------- MODULE Sessions -------------------------------
(***************************************************************************)
(* Who may do what: sign-in, sessions and the token in every form          *)
(* (internal/auth, requireUser and requireAdmin of internal/web).          *)
(*                                                                         *)
(* A browser has one cookie and any number of tabs.  A tab goes on showing *)
(* a page whatever becomes of the cookie: its session may expire, be       *)
(* signed out in another tab or be forgotten by a restart, and somebody    *)
(* else may sign in.  Requests of one browser run at the same time and     *)
(* their replies arrive in any order or not at all.                        *)
(*                                                                         *)
(* A session token is a random value, fresh whenever it is made.  So is    *)
(* the CSRF token made beside it, which is named here by the session it    *)
(* was made for.                                                           *)
(***************************************************************************)
EXTENDS Naturals, FiniteSets, Functions

CONSTANTS
  Names,       \* what may be typed as a user name
  Configs,     \* what the configuration file may hold: accounts, each with its role
  Browsers,
  Requests,    \* bound: requests under way at once
  Tokens,      \* bound: sign-ins
  NoToken,     \* no cookie
  NoRequest,
  Ttl,         \* how long a sign-in lasts
  MaxClock,    \* bound: time
  MaxRestarts  \* bound: restarts of the UI

ASSUME SessionsOK ==
  /\ NoToken \notin Tokens
  /\ \A config \in Configs : DOMAIN config \subseteq Names /\ \A n \in DOMAIN config : config[n] \in {"readonly", "admin"}
  /\ Ttl \in Nat /\ MaxClock \in Nat /\ MaxRestarts \in Nat

VARIABLES
  accounts,  \* Manager.accounts, read from the file when the process starts
  sessions,  \* Manager.sessions, in memory
  clock,
  jar,       \* the cookie of each browser
  tabs,      \* whose pages are open in a browser: the CSRF tokens in their forms
  req,       \* requests under way
  restarts,
  born,      \* history: for whom and when each token was made
  ended      \* history: tokens signed out, or of a process that is gone

vars == <<accounts, sessions, clock, jar, tabs, req, restarts, born, ended>>

Cookies == Tokens \cup {NoToken}

Init ==
  /\ accounts \in Configs
  /\ sessions = <<>>
  /\ clock = 0
  /\ jar = [b \in Browsers |-> NoToken]
  /\ tabs = [b \in Browsers |-> {}]
  /\ req = [r \in Requests |-> NoRequest]
  /\ restarts = 0
  /\ born = <<>>
  /\ ended = {}

(* No use of this token that begins now may have an effect.                *)
Over(t) ==
  \/ t = NoToken
  \/ t \in ended
  \/ t \in DOMAIN born /\ clock > born[t].at + Ttl

----------------------------------------------------------------------------
(* A browser sends what it is told to with the cookie it has.  late is     *)
(* history: the cookie was no longer good for anything when it was sent.   *)
Send(r, b, what) ==
  /\ req[r] = NoRequest
  /\ req' = [req EXCEPT ![r] = [what |-> what, from |-> b, cookie |-> jar[b],
                                stage |-> "sent", got |-> NoToken, late |-> Over(jar[b])]]
  /\ UNCHANGED <<accounts, sessions, clock, jar, tabs, restarts, born, ended>>

(* What may be sent: a page asked for, a form of a page that is open, a    *)
(* name and a password, a sign-out.                                        *)
Whats ==
  [kind : {"page", "logout"}] \cup [kind : {"form"}, csrf : Tokens]
    \cup [kind : {"login"}, name : Names, right : BOOLEAN]

Now(r, stage) == req[r] # NoRequest /\ req[r].stage = stage

IsKind(r, kinds) == req[r].what.kind \in kinds

LiveForever(t) == t \in DOMAIN sessions

Live(t) == t \in DOMAIN sessions /\ clock <= sessions[t].expires

(* Manager.User: an expired session is dropped where it is looked up.      *)
DropExpired(t) ==
  sessions' = IF Live(t) THEN sessions ELSE Restrict(sessions, DOMAIN sessions \ {t})

(* User.CheckCSRF.                                                         *)
CheckAnyCSRF(t, csrf) == csrf \in DOMAIN born

CheckCSRF(t, csrf) == sessions[t].csrf = csrf

IsAnybody(t) == sessions[t].role \in {"readonly", "admin"}

IsAdmin(t) == sessions[t].role = "admin"

(* requireUser, and requireAdmin around the handlers that change things.   *)
Require(r) ==
  /\ Now(r, "sent") /\ IsKind(r, {"page", "form"})
  /\ LET t       == req[r].cookie
         allowed == Live(t) /\ (IsKind(r, {"form"}) => IsAdmin(t) /\ CheckCSRF(t, req[r].what.csrf))
     IN  /\ req' = IF allowed
                   THEN [req EXCEPT ![r].stage = "allowed", ![r].got = sessions[t].user]
                   ELSE [req EXCEPT ![r].stage = "refused"]
         /\ DropExpired(t)
  /\ UNCHANGED <<accounts, clock, jar, tabs, restarts, born, ended>>

(* The handler: its first call is AppendAudit with this user as the actor, *)
(* or it draws a page.                                                     *)
Act(r) ==
  /\ Now(r, "allowed")
  /\ req' = [req EXCEPT ![r].stage = "done"]
  /\ UNCHANGED <<accounts, sessions, clock, jar, tabs, restarts, born, ended>>

Accepts(what) == what.right /\ what.name \in DOMAIN accounts

SessionFor(name, t) ==
  [user |-> name, role |-> accounts[name], expires |-> clock + Ttl, csrf |-> t]

(* postLogin: SignIn, whose cookie travels in the reply.  Passwords are    *)
(* compared before the lock is taken, with accounts that do not change.    *)
SignIn(r) ==
  /\ Now(r, "sent") /\ IsKind(r, {"login"})
  /\ IF Accepts(req[r].what)
     THEN \E t \in Tokens \ DOMAIN born :
            /\ sessions' = [u \in DOMAIN sessions \cup {t} |->
                              IF u = t THEN SessionFor(req[r].what.name, t) ELSE sessions[u]]
            /\ born' = [u \in DOMAIN born \cup {t} |->
                          IF u = t THEN [user |-> req[r].what.name, at |-> clock] ELSE born[u]]
            /\ req' = [req EXCEPT ![r].stage = "done", ![r].got = t]
     ELSE /\ req' = [req EXCEPT ![r].stage = "refused"]
          /\ UNCHANGED <<sessions, born>>
  /\ UNCHANGED <<accounts, clock, jar, tabs, restarts, ended>>

ForgetCookieOnly(r) ==
  /\ Now(r, "sent") /\ IsKind(r, {"logout"})
  /\ ended' = (ended \cup {req[r].cookie}) \ {NoToken}
  /\ req' = [req EXCEPT ![r].stage = "done"]
  /\ UNCHANGED <<accounts, sessions, clock, jar, tabs, restarts, born>>

(* postLogout: asks for no session and no token of a form.                 *)
SignOut(r) ==
  /\ Now(r, "sent") /\ IsKind(r, {"logout"})
  /\ sessions' = Restrict(sessions, DOMAIN sessions \ {req[r].cookie})
  /\ ended' = (ended \cup {req[r].cookie}) \ {NoToken}
  /\ req' = [req EXCEPT ![r].stage = "done"]
  /\ UNCHANGED <<accounts, clock, jar, tabs, restarts, born>>

----------------------------------------------------------------------------
(* A reply reaches the browser: a page opens in a tab with the CSRF token  *)
(* of the session it was drawn for, a cookie is set or is taken away.      *)
Deliver(r) ==
  /\ req[r] # NoRequest /\ req[r].stage \in {"done", "refused"}
  /\ LET b == req[r].from
     IN  /\ tabs' = IF Now(r, "done") /\ IsKind(r, {"page"})
                    THEN [tabs EXCEPT ![b] = @ \cup {req[r].cookie}] ELSE tabs
         /\ jar' = IF Now(r, "done") /\ IsKind(r, {"login"}) THEN [jar EXCEPT ![b] = req[r].got]
                   ELSE IF IsKind(r, {"logout"}) THEN [jar EXCEPT ![b] = NoToken]
                   ELSE jar
  /\ req' = [req EXCEPT ![r] = NoRequest]
  /\ UNCHANGED <<accounts, sessions, clock, restarts, born, ended>>

LoseReply(r) ==
  /\ req[r] # NoRequest /\ req[r].stage \in {"done", "refused"}
  /\ req' = [req EXCEPT ![r] = NoRequest]
  /\ UNCHANGED <<accounts, sessions, clock, jar, tabs, restarts, born, ended>>

Tick ==
  /\ clock < MaxClock
  /\ clock' = clock + 1
  /\ UNCHANGED <<accounts, sessions, jar, tabs, req, restarts, born, ended>>

RestartKeepingSessions ==
  /\ restarts < MaxRestarts
  /\ restarts' = restarts + 1
  /\ accounts' \in Configs
  /\ req' = [r \in Requests |-> NoRequest]
  /\ UNCHANGED <<sessions, clock, jar, tabs, born, ended>>

(* The process stops or dies and starts again, perhaps with other          *)
(* accounts.  Browsers keep what they have.                                *)
Restart ==
  /\ restarts < MaxRestarts
  /\ restarts' = restarts + 1
  /\ accounts' \in Configs
  /\ sessions' = <<>>
  /\ ended' = ended \cup DOMAIN born
  /\ req' = [r \in Requests |-> NoRequest]
  /\ UNCHANGED <<clock, jar, tabs, born>>

Next ==
  \/ \E r \in Requests, b \in Browsers, what \in Whats :
       (what.kind = "form" => what.csrf \in tabs[b]) /\ Send(r, b, what)
  \/ \E r \in Requests :
       Require(r) \/ Act(r) \/ SignIn(r) \/ SignOut(r) \/ Deliver(r) \/ LoseReply(r)
  \/ Tick
  \/ Restart

Spec == Init /\ [][Next]_vars

----------------------------------------------------------------------------
Stages == {"sent", "allowed", "done", "refused"}

Rec == [what : Whats, from : Browsers, cookie : Cookies, stage : Stages,
        got : Names \cup Cookies, late : BOOLEAN]

ASSUME NoRequestOK == NoRequest \notin Rec

(* Type correctness, and that what a session says of its user is what the  *)
(* process was configured with.                                            *)
TypeOK ==
  /\ accounts \in Configs
  /\ DOMAIN sessions \subseteq DOMAIN born /\ DOMAIN born \subseteq Tokens
  /\ \A t \in DOMAIN sessions :
       /\ sessions[t].user \in DOMAIN accounts
       /\ sessions[t] = [user |-> born[t].user, role |-> accounts[born[t].user],
                         expires |-> born[t].at + Ttl, csrf |-> t]
  /\ \A t \in DOMAIN born : born[t].user \in Names /\ born[t].at \in 0..clock
  /\ clock \in 0..MaxClock /\ restarts \in 0..MaxRestarts
  /\ jar \in [Browsers -> Cookies]
  /\ tabs \in [Browsers -> SUBSET Tokens]
  /\ ended \subseteq Tokens
  /\ req \in [Requests -> Rec \cup {NoRequest}]

(* The form of r passed every check.                                       *)
Changes(r) == req[r] # NoRequest /\ IsKind(r, {"form"}) /\ req[r].stage \in {"allowed", "done"}

(* auth: "attribution only means anything if accounts are not shared".     *)
(* Whoever is signed in by now in that browser, a form acts in the name of *)
(* the person its page was drawn for, under the sign-in it was drawn for.  *)
ActorSawTheForm ==
  \A r \in Requests :
    Changes(r) => req[r].got = born[req[r].what.csrf].user /\ req[r].cookie = req[r].what.csrf

(* requireAdmin: who changes something is an admin in the configuration    *)
(* the process runs with, also after accounts have changed.                *)
ChangedByAdmins ==
  \A r \in Requests : Changes(r) => req[r].got \in DOMAIN accounts /\ accounts[req[r].got] = "admin"

(* "SessionHours bounds how long a sign-in lasts", "a UI restart signs     *)
(* everyone out", and a sign-out in any tab: a request sent after that     *)
(* changes nothing and is shown nothing.                                   *)
OverIsOver ==
  \A r \in Requests :
    req[r] # NoRequest /\ IsKind(r, {"page", "form"}) /\ req[r].late =>
      req[r].stage \in {"sent", "refused"}

(* The same machine as SignIns.                                            *)
LetInNow(r) ==
  req[r] # NoRequest /\ IsKind(r, {"page", "form"}) /\ req[r].stage \in {"allowed", "done"}

Deed(r) ==
  [actor |-> req[r].got, signIn |-> req[r].cookie, changes |-> IsKind(r, {"form"}),
   page |-> IF IsKind(r, {"form"}) THEN req[r].what.csrf ELSE req[r].cookie]

Promise == INSTANCE SignIns WITH
  who   <- [t \in DOMAIN born |-> born[t].user],
  over  <- {t \in DOMAIN born : Over(t)},
  doing <- [r \in {q \in Requests : LetInNow(q)} |-> Deed(r)]

(* auth and requireUser: whatever browsers hold, restarts forget and       *)
(* requests overlap, sign-ins behave as SignIns promises.                  *)
ImplementsSignIns == Promise!Spec
==============================================================================
