-------------------------- MODULE PushRegistration --------------------------
(***************************************************************************)
(* One phone that registers itself for push messages: the coordinator of   *)
(* the application (apps/mobile/lib/core/notifications/                    *)
(* push_notification_coordinator.dart), the launch states that call it     *)
(* (lib/app.dart, launch_controller.dart), the rows the server keeps       *)
(* (apps/api/src/notifications/device-installation.service.ts) and the     *)
(* worker that sends to them (delivery.processor.ts).  Firebase Cloud      *)
(* Messaging is external: it has one token for the application or none.    *)
(*                                                                         *)
(* A call is one run of start(), of disable() or of the token listener; an *)
(* action is what it does between two awaits.  Nobody awaits start(), and  *)
(* a sign-out runs disable() twice, so calls overlap.  Of the session only *)
(* what is stored, what the server honours and what is shown is kept;      *)
(* MobileSession has the rest.                                             *)
(***************************************************************************)
EXTENDS Naturals, FiniteSets

CONSTANTS
  User,       \* accounts that use the phone
  Call,       \* calls of the coordinator that run at the same time
  None,       \* no session, row, job or call
  MaxToken,   \* bound: tokens of the phone in use at a time
  MaxSignIns, \* bound: sign-ins
  UserOf,     \* the account that signs in, at each of them
  MaxEvents   \* bound: kills, rotations, denials, deliveries, failed calls and sign-ins after the first

Token   == 1..MaxToken
Session == 1..MaxSignIns   \* one for each sign-in
Row     == [token : Token, active : BOOLEAN]
Job     == [user : User, token : Token, same : BOOLEAN]

ASSUME PushAssumption ==
  /\ None \notin User \cup Call \cup Session \cup Row \cup Job
  /\ {MaxToken, MaxSignIns, MaxEvents} \subseteq Nat
  /\ UserOf \in [1..MaxSignIns -> User]

VARIABLES
  rows,       \* device_installations of this installation, by user
  live,       \* sessions the server honours
  requests,   \* registrations and removals the server has still to finish
  token,      \* the token Firebase delivers to, 0 if there is none
  permitted,  \* the user allows notifications
  store,      \* the session in secure storage
  launch,     \* LaunchState
  leaving,    \* sessions whose sign-out is under way
  started,    \* _started
  firebase,   \* Firebase.apps is not empty
  listening,  \* the listener _tokenSubscription names
  leaked,     \* a listener that a later start() has replaced and nobody cancels
  calls,      \* the calls under way
  job,        \* a delivery that has read its targets
  exposed,    \* the last disable() could not delete the token, or a start() outlived it (history)
  excused,    \* since the last start() began: it was refused, failed, or overlapped what could undo it (history)
  signIns, events

serverVars == <<rows, live, requests>>
phone      == <<started, firebase, listening, leaked>>
history    == <<exposed, excused>>
bounds     == <<signIns, events>>
vars       == <<serverVars, token, permitted, store, launch, leaving, phone, calls, job, history, bounds>>

Request ==
  [op : {"register", "remove"}, session : Session, token : Token \cup {0},
   at : {"sent", "found"}, found : SUBSET User, by : Call \cup {None}]

Idle      == [kind |-> "none", pc |-> "idle", token |-> 0]
CallState ==
  [kind : {"none", "start", "refresh", "disable"},
   pc : {"idle", "setup", "token", "read", "wait", "ok", "failed"},
   token : Token \cup {0}]

\* The types; a push token has one owner, whoever registers at the same time (the
\* deletion of register() does not see a row that is still to be committed).
TypeOK ==
  /\ rows \in [User -> Row \cup {None}]
  /\ \A u, v \in User :
       rows[u] # None /\ rows[v] # None /\ rows[u].token = rows[v].token => u = v
  /\ live \subseteq Session /\ leaving \subseteq Session
  /\ requests \subseteq Request
  /\ token \in Token \cup {0}
  /\ store \in Session \cup {None}
  /\ launch \in {"checking", "out", "denied", "in"}
  /\ {permitted, started, firebase, listening, leaked, exposed, excused} \subseteq BOOLEAN
  /\ calls \in [Call -> CallState]
  /\ job \in Job \cup {None}
  /\ signIns \in 0..MaxSignIns /\ events \in 0..MaxEvents

Init ==
  /\ rows = [u \in User |-> None] /\ live = {} /\ requests = {}
  /\ token = 0 /\ permitted \in BOOLEAN
  /\ store = None /\ launch = "checking" /\ leaving = {}
  /\ started = FALSE /\ firebase = FALSE /\ listening = FALSE /\ leaked = FALSE
  /\ calls = [c \in Call |-> Idle]
  /\ job = None
  /\ exposed = FALSE /\ excused = FALSE
  /\ signIns = 0 /\ events = 0

-----------------------------------------------------------------------------

Running(kinds) == {c \in Call : calls[c].kind \in kinds}
Busy           == Running({"start", "refresh", "disable"}) # {} \/ requests # {}
Registering    == Running({"start", "refresh"}) # {} \/ \E r \in requests : r.op = "register"
Waiting(c)     == calls[c].pc = "wait"

FreeCalls == Running({"none"})
NextCall  == CHOOSE c \in FreeCalls : TRUE
NextTwo   == {NextCall, CHOOSE c \in FreeCalls \ {NextCall} : TRUE}

Begin(new, F) == [c \in Call |-> IF c \in F THEN new ELSE calls[c]]
Starting      == [Idle EXCEPT !.kind = "start", !.pc = "setup"]
Disabling     == [Idle EXCEPT !.kind = "disable", !.pc = "read"]
Refreshed(t)  == [Idle EXCEPT !.kind = "refresh", !.pc = "read", !.token = t]

Continue(c, pc) == calls' = [calls EXCEPT ![c].pc = pc]
Return(c)       == calls' = [calls EXCEPT ![c] = Idle]
\* A request has ended; nobody awaits what the listener starts.
Replied(c, pc)  == IF calls[c].kind = "refresh" THEN Return(c) ELSE Continue(c, pc)

Event == events < MaxEvents /\ events' = events + 1

\* A push for the user gets to the phone.
Reaches(u) == rows[u] # None /\ rows[u].active /\ rows[u].token = token

-----------------------------------------------------------------------------
(* start(), the token listener and disable(). *)

\* initializeApp(), requestPermission() and _installation().  After a refusal
\* _started stays set.
SetUp(c) ==
  /\ calls[c].pc = "setup"
  /\ firebase' = TRUE
  /\ \/ permitted /\ Continue(c, "token") /\ UNCHANGED excused
     \/ ~permitted /\ Return(c) /\ excused' = TRUE
  /\ UNCHANGED <<serverVars, token, permitted, store, launch, leaving, started, listening, leaked,
                 job, exposed, bounds>>

\* The user allows notifications, which nothing tells the application.
Allow ==
  /\ ~permitted
  /\ permitted' = TRUE
  /\ UNCHANGED <<serverVars, token, store, launch, leaving, phone, calls, job, history, bounds>>

\* Tokens nothing remembers stand for those Firebase has not given out yet.
InUse    == {token, IF job = None THEN 0 ELSE job.token}
              \cup {rows[u].token : u \in {v \in User : rows[v] # None}}
              \cup {r.token : r \in requests} \cup {calls[c].token : c \in Call}
Fresh    == CHOOSE t \in Token \ InUse : TRUE
Hears    == listening \/ leaked

\* getToken(); a token that is made now is also told to the listeners there are.
GetToken(c) ==
  /\ calls[c].pc = "token"
  /\ \/ /\ token # 0
        /\ calls' = [calls EXCEPT ![c].pc = "read", ![c].token = token]
        /\ UNCHANGED token
     \/ /\ token = 0 /\ Token \ InUse # {}
        /\ Hears => FreeCalls # {}
        /\ token' = Fresh
        /\ calls' = [Begin(Refreshed(Fresh), IF Hears THEN {NextCall} ELSE {})
                       EXCEPT ![c].pc = "read", ![c].token = Fresh]
  /\ UNCHANGED <<serverVars, permitted, store, launch, leaving, phone, job, history, bounds>>

Sent(c, op) ==
  [op |-> op, session |-> store, token |-> calls[c].token, at |-> "sent", found |-> {}, by |-> c]

\* _register() and disable() have read the session and use it, if there is one.
Send(c) ==
  /\ calls[c].pc = "read"
  /\ LET disabling == calls[c].kind = "disable" IN
     IF store # None
     THEN /\ requests' = requests \cup {Sent(c, IF disabling THEN "remove" ELSE "register")}
          /\ Continue(c, "wait")
     ELSE /\ Replied(c, IF disabling THEN "failed" ELSE "ok")
          /\ UNCHANGED requests
  /\ UNCHANGED <<rows, live, token, permitted, store, launch, leaving, phone, job, history, bounds>>

\* Broken: nothing listens for a new token.
NotListening(c) ==
  /\ calls[c].kind = "start" /\ calls[c].pc = "ok"
  /\ Return(c)
  /\ UNCHANGED <<serverVars, token, permitted, store, launch, leaving, phone, job, history, bounds>>

\* start() is registered and listens; the listener it had is forgotten, not cancelled.
Listen(c) ==
  /\ calls[c].kind = "start" /\ calls[c].pc = "ok"
  /\ listening' = TRUE
  /\ leaked' = (leaked \/ listening)
  /\ Return(c)
  /\ UNCHANGED <<serverVars, token, permitted, store, launch, leaving, started, firebase, job, history,
                 bounds>>

\* The catch block of start().
StartFailed(c) ==
  /\ calls[c].kind = "start" /\ calls[c].pc = "failed"
  /\ started' = FALSE
  /\ Return(c)
  /\ UNCHANGED <<serverVars, token, permitted, store, launch, leaving, firebase, listening, leaked, job,
                 history, bounds>>

\* Broken: the removal on the server is thought to be enough.
KeepToken(c) ==
  /\ calls[c].kind = "disable" /\ calls[c].pc \in {"ok", "failed"}
  /\ exposed' = (~firebase \/ Running({"start"}) # {})
  /\ started' = FALSE /\ listening' = FALSE
  /\ Return(c)
  /\ UNCHANGED <<serverVars, token, permitted, store, launch, leaving, firebase, leaked, job,
                 excused, bounds>>

\* Removed or not, disable() goes on: cancel(), which completes at once, and
\* deleteToken(), if Firebase was ever initialised in this process.
DeleteToken(c) ==
  /\ calls[c].kind = "disable" /\ calls[c].pc \in {"ok", "failed"}
  /\ \/ /\ token' = IF firebase THEN 0 ELSE token
        /\ exposed' = (~firebase \/ Running({"start"}) # {})
        /\ UNCHANGED events
     \/ /\ firebase /\ Event
        /\ exposed' = TRUE
        /\ UNCHANGED token
  /\ started' = FALSE /\ listening' = FALSE
  /\ Return(c)
  /\ UNCHANGED <<serverVars, permitted, store, launch, leaving, firebase, leaked, job,
                 excused, signIns>>

\* initializeApp() or getToken() throws.
FirebaseFails(c) ==
  /\ calls[c].pc \in {"setup", "token"}
  /\ Event
  /\ Continue(c, "failed")
  /\ excused' = TRUE
  /\ UNCHANGED <<serverVars, token, permitted, store, launch, leaving, phone, job, exposed, signIns>>

\* getToken() has none to give: start() listens and stays started, unregistered.
NoToken(c) ==
  /\ calls[c].pc = "token" /\ token = 0
  /\ Event
  /\ Continue(c, "ok")
  /\ excused' = TRUE
  /\ UNCHANGED <<serverVars, token, permitted, store, launch, leaving, phone, job, exposed, signIns>>

-----------------------------------------------------------------------------
(* The server and the network. *)

Answer(r, reply) == IF r.by = None THEN UNCHANGED calls ELSE Replied(r.by, reply)

\* The access token guard.
Refuse(r) ==
  /\ r.at = "sent" /\ r.session \notin live
  /\ requests' = requests \ {r}
  /\ Answer(r, "failed")
  /\ UNCHANGED <<rows, live, token, permitted, store, launch, leaving, phone, job, history, bounds>>

\* remove().
Remove(r) ==
  /\ r.op = "remove" /\ r.session \in live
  /\ LET u == UserOf[r.session] IN
     rows' = IF rows[u] = None THEN rows ELSE [rows EXCEPT ![u].active = FALSE]
  /\ requests' = requests \ {r}
  /\ Answer(r, "ok")
  /\ UNCHANGED <<live, token, permitted, store, launch, leaving, phone, job, history, bounds>>

Holders(t) == {u \in User : rows[u] # None /\ rows[u].token = t}

\* register(): deleteMany() sees the rows of others that are committed.
Find(r) ==
  /\ r.op = "register" /\ r.at = "sent" /\ r.session \in live
  /\ requests' = (requests \ {r})
       \cup {[r EXCEPT !.at = "found", !.found = Holders(r.token) \ {UserOf[r.session]}]}
  /\ UNCHANGED <<rows, live, token, permitted, store, launch, leaving, phone, calls, job, history, bounds>>

\* Broken: nothing but the deletion of register() keeps a token to one account.
NeverConflict(r) == FALSE

\* The unique index on token_lookup refuses the upsert.
Conflict(r) == Holders(r.token) \ (r.found \cup {UserOf[r.session]}) # {}

\* register(): upsert() and the commit.
Register(r) ==
  /\ r.at = "found"
  /\ LET u    == UserOf[r.session]
         gone == r.found \cap Holders(r.token)
     IN IF Conflict(r)
        THEN Answer(r, "failed") /\ UNCHANGED <<rows, job>>
        ELSE /\ rows' = [v \in User |-> IF v = u THEN [token |-> r.token, active |-> TRUE]
                                        ELSE IF v \in gone THEN None ELSE rows[v]]
             /\ job' = IF job # None /\ job.user \in gone THEN [job EXCEPT !.same = FALSE] ELSE job
             /\ Answer(r, "ok")
  /\ requests' = requests \ {r}
  /\ UNCHANGED <<live, token, permitted, store, launch, leaving, phone, history, bounds>>

\* No answer in ten seconds, or a refusal for an access token that is too old.
\* The server may still get the request.
Lose(c) ==
  /\ Waiting(c)
  /\ Event
  /\ LET mine == {r \in requests : r.by = c} IN
     \/ requests' = requests \ mine
     \/ requests' = (requests \ mine) \cup {[r EXCEPT !.by = None] : r \in mine}
  /\ Replied(c, "failed")
  /\ excused' = (excused \/ calls[c].kind # "disable")
  /\ UNCHANGED <<rows, live, token, permitted, store, launch, leaving, phone, job, exposed, signIns>>

\* A sign-out the server has got, expiry or a password recovery.
EndSession(s) ==
  /\ s \in live
  /\ s = store \/ s \in leaving \/ \E r \in requests : r.session = s
  /\ live' = live \ {s}
  /\ UNCHANGED <<rows, requests, token, permitted, store, launch, leaving, phone, calls, job, history, bounds>>

\* The worker reads targets().
ReadTargets(u) ==
  /\ job = None
  /\ rows[u] # None /\ rows[u].active
  /\ Event
  /\ job' = [user |-> u, token |-> rows[u].token, same |-> TRUE]
  /\ UNCHANGED <<serverVars, token, permitted, store, launch, leaving, phone, calls, history, signIns>>

\* Firebase delivers the message or reports the token as dead, and invalidate()
\* writes the row, by its id, as it has become meanwhile.
Deliver ==
  /\ job # None
  /\ LET u == job.user IN
     IF job.token # token /\ job.same
     THEN /\ rows' = [rows EXCEPT ![u].active = FALSE]
          /\ excused' = (excused \/ Reaches(u))
     ELSE UNCHANGED <<rows, excused>>
  /\ job' = None
  /\ UNCHANGED <<live, requests, token, permitted, store, launch, leaving, phone, calls, exposed, bounds>>

\* Firebase gives the application another token.
Rotate ==
  /\ token # 0 /\ Token \ InUse # {}
  /\ Hears => FreeCalls # {}
  /\ Event
  /\ token' = Fresh
  /\ calls' = Begin(Refreshed(Fresh), IF Hears THEN {NextCall} ELSE {})
  /\ excused' = (excused \/ Registering)
  /\ UNCHANGED <<serverVars, permitted, store, launch, leaving, phone, job, exposed, signIns>>

-----------------------------------------------------------------------------
(* The launch states; MobileSession has how they come about. *)

\* The state becomes LaunchAuthenticated: start(), up to its first await.
ShowActor ==
  /\ launch' = "in"
  /\ IF started
     THEN UNCHANGED <<calls, started>> /\ excused' = (excused \/ (launch # "in" /\ Busy))
     ELSE calls' = Begin(Starting, {NextCall}) /\ started' = TRUE /\ excused' = Busy

\* The state becomes LaunchUnauthenticated or LaunchAccessDenied: disable().
ShowNobody(state) ==
  /\ launch' = state
  /\ calls' = Begin(Disabling, {NextCall})
  /\ UNCHANGED <<started, excused>>

\* A check finds the stored session expired or refused, and clears it.
Clear ==
  /\ launch # "out"
  /\ store # None /\ store \notin live
  /\ store' = None
  /\ UNCHANGED <<serverVars, token, permitted, launch, leaving, phone, calls, job, history, bounds>>

\* The outcome of a check is shown.  (It is dropped if the application is paused
\* before; then an actor is shown whose session is cleared, until the next check.)
Check ==
  /\ launch # "out"
  /\ FreeCalls # {}
  /\ \/ store \in live /\ ShowActor /\ UNCHANGED events
     \/ store \in live /\ ShowNobody("denied") /\ Event
     \/ store = None /\ ShowNobody("out") /\ UNCHANGED events
  /\ UNCHANGED <<serverVars, token, permitted, store, leaving, firebase, listening, leaked, job, exposed,
                 signIns>>

\* The credentials of a new session are written; its actor is still to be asked for.
SignIn ==
  /\ launch = "out" /\ signIns < MaxSignIns
  /\ IF signIns = 0 THEN UNCHANGED events ELSE Event
  /\ signIns' = signIns + 1
  /\ store' = signIns'
  /\ live' = live \cup {store'}
  /\ launch' = "checking"
  /\ UNCHANGED <<rows, requests, token, permitted, leaving, phone, calls, job, history>>

\* signOut(): the listener of the launch state and signOut() each run disable().
SignOut ==
  /\ launch \in {"in", "denied"}
  /\ Cardinality(FreeCalls) >= 2
  /\ launch' = "out"
  /\ leaving' = leaving \cup ({store} \ {None})
  /\ calls' = Begin(Disabling, NextTwo)
  /\ UNCHANGED <<serverVars, token, permitted, store, phone, job, history, bounds>>

\* The sign-out is answered or fails, and clears the credentials, unless another
\* session was signed in meanwhile.
Leave(s) ==
  /\ \/ s \notin live /\ UNCHANGED events
     \/ s \in live /\ Event
  /\ leaving' = leaving \ {s}
  /\ store' = IF store = s THEN None ELSE store
  /\ UNCHANGED <<serverVars, token, permitted, launch, phone, calls, job, history, signIns>>

\* The process is killed and started again.
Kill ==
  /\ Event
  /\ requests' = {[r EXCEPT !.by = None] : r \in requests}
  /\ launch' = "checking" /\ leaving' = {}
  /\ started' = FALSE /\ firebase' = FALSE /\ listening' = FALSE /\ leaked' = FALSE
  /\ calls' = [c \in Call |-> Idle]
  /\ UNCHANGED <<rows, live, token, permitted, store, job, history, signIns>>

-----------------------------------------------------------------------------

Advance(c) ==
  \/ SetUp(c) \/ GetToken(c) \/ Send(c) \/ Listen(c) \/ StartFailed(c) \/ DeleteToken(c)
Serve(r) == Refuse(r) \/ Remove(r) \/ Find(r) \/ Register(r)

Next ==
  \/ \E c \in Call : Advance(c) \/ FirebaseFails(c) \/ NoToken(c) \/ Lose(c)
  \/ \E r \in requests : Serve(r)
  \/ \E u \in User : ReadTargets(u)
  \/ \E s \in live : EndSession(s)
  \/ \E s \in leaving : Leave(s)
  \/ Allow \/ Deliver \/ Rotate \/ Clear \/ Check \/ SignIn \/ SignOut \/ Kill

Spec == Init /\ [][Next]_vars

-----------------------------------------------------------------------------

\* The user is signed out and everything the sign-out has begun has ended.
Settled == launch = "out" /\ ~Busy /\ leaving = {}

\* "Local token deletion still prevents this installation from receiving."
\* (push_notification_coordinator.dart:75): whatever became of the removal on the
\* server, after a sign-out nobody is reached, if Firebase was there to delete
\* the token, did so, and no start() was under way.
SignOutSilences == Settled /\ ~exposed => \A u \in User : ~Reaches(u)

\* "FCM requests permission after authentication when enabled,
\* registers/rotates/removes an installation token" (apps/mobile/README.md:47): once
\* every call has ended, the actor shown is reached, after any rotation, restart,
\* denial or failure that a start() has followed; unless since that start() began
\* permission was refused, a call failed, or a sign-out, a rotation or the cleanup of
\* an older token overlapped the registration.
ShownIsReached ==
  launch = "in" /\ store \in live /\ ~Busy => Reaches(UserOf[store]) \/ excused
=============================================================================
