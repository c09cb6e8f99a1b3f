--------------------------- MODULE MobileSession ---------------------------
(***************************************************************************)
(* The session of the mobile application: the stored credentials and their *)
(* renewal (apps/mobile/lib/core/auth/auth_repository.dart), the launch    *)
(* state that decides what the user sees (features/auth/application/       *)
(* launch_controller.dart) and the screens that start a sign-in, a retry   *)
(* or a sign-out, against the sessions the server keeps (Sessions).        *)
(*                                                                         *)
(* Dart runs one thing at a time.  A flow is one call of _check(),         *)
(* signInWithEmail(), _verifyCode() or signOut(); an action is what a flow *)
(* does between two awaits.  Between them any other flow may run, the      *)
(* system may pause the application and the user may kill it.  A generation*)
(* counter of the code is compared for equality only, so the flows carry   *)
(* what those comparisons would say: "same" for _sessionGeneration, and    *)
(* "current" for the _generation of the launch controller.                 *)
(***************************************************************************)
EXTENDS Naturals, FiniteSets

CONSTANTS
  Session,     \* sessions of the server
  Flow,        \* concurrent flows of one process
  None,        \* no session, credentials or flow
  MaxRenewals, \* bound: renewals of one session
  MaxEvents    \* bound: sign-in attempts, pauses and kills, together

Credentials == [session : Session, token : 0..MaxRenewals]

ASSUME MobileAssumption ==
  /\ Session # {} /\ None \notin Session \cup Flow \cup Credentials
  /\ {MaxRenewals, MaxEvents} \subseteq Nat

VARIABLES
  server,     \* what the server says of a session
  renewals,   \* the refresh token of the session that is not used yet
  store,      \* the credentials in secure storage
  launch,     \* LaunchState
  who,        \* the session whose actor LaunchAuthenticated shows
  started,    \* LaunchController._started
  current,    \* the flow that saw the last _generation
  flight,     \* the flow whose renewal _refreshInFlight is
  flow,       \* the calls under way
  foreground, \* the application is resumed
  strays,     \* credentials of renewals nobody awaits, which the server may still get
  abandoned,  \* sessions of renewals whose answer was given up (history)
  left,       \* sessions the user has signed out of, where no sign-in attempt and no
              \* kill overtook the sign-out (history)
  events      \* sign-in attempts, pauses and kills so far

serverVars == <<server, renewals>>
process    == <<launch, who, started, current, flight, foreground>>
history    == <<abandoned, left>>
vars       == <<serverVars, store, process, flow, strays, history, events>>

Outcome     == {"NoStored", "Resolved", "Invalid", "Transient", "Denied", "Cancelled"}
Calls       == {"sign", "me", "renew", "revoke"}

Idle ==
  [kind |-> "none", pc |-> "idle", cred |-> None, again |-> TRUE, background |-> FALSE,
   closed |-> FALSE, same |-> TRUE, reply |-> "none", got |-> None, via |-> None,
   outcome |-> "NoStored"]

FlowState ==
  [kind : {"none", "check", "signIn", "signOut"},
   pc : {"idle", "read", "joined", "kept", "wrote", "done", "cleared"} \cup Calls,
   cred : Credentials \cup {None}, again : BOOLEAN, background : BOOLEAN,
   closed : BOOLEAN, same : BOOLEAN,
   reply : {"none", "ok", "refused", "denied", "failed", "cancelled"},
   got : Credentials \cup {None}, via : Flow \cup {None}, outcome : Outcome]

TypeOK ==
  /\ server \in [Session -> {"none", "open", "ended", "reuse"}]
  /\ renewals \in [Session -> 0..MaxRenewals]
  /\ store \in Credentials \cup {None}
  /\ launch \in {"checking", "retrying", "error", "out", "denied", "authenticated"}
  /\ who \in Session \cup {None}
  /\ started \in BOOLEAN /\ foreground \in BOOLEAN
  /\ current \in Flow \cup {None} /\ flight \in Flow \cup {None}
  /\ flow \in [Flow -> FlowState]
  /\ strays \subseteq Credentials
  /\ abandoned \subseteq Session /\ left \subseteq Session
  /\ events \in 0..MaxEvents

Init ==
  /\ renewals = [s \in Session |-> 0]
  /\ \/ /\ server = [s \in Session |-> "none"]
        /\ store = None
     \/ LET first == CHOOSE s \in Session : TRUE IN   \* an earlier process has signed in
        /\ server = [s \in Session |-> IF s = first THEN "open" ELSE "none"]
        /\ store = [session |-> first, token |-> 0]
  /\ launch = "checking" /\ who = None /\ started = FALSE /\ foreground = TRUE
  /\ current = None /\ flight = None
  /\ flow = [f \in Flow |-> Idle]
  /\ strays = {}
  /\ abandoned = {} /\ left = {}
  /\ events = 0

-----------------------------------------------------------------------------
(* Flows, their requests and their cancellation. *)

IsSignIn(f)   == flow[f].kind = "signIn"
IsSignOut(f)  == flow[f].kind = "signOut"
InProgress    == current # None /\ flow[current].kind = "check"
FreeFlow      == CHOOSE f \in Flow : flow[f].kind = "none"
SomeFlowFree  == \E f \in Flow : flow[f].kind = "none"
SigningIn     == \E f \in Flow : IsSignIn(f) /\ ~flow[f].closed
\* Sign-outs that have not reached the end of their try block.
Leaving       == {f \in Flow : IsSignOut(f) /\ flow[f].pc \in {"read", "revoke"} /\ flow[f].cred # None}
SessionsOf(F) == {flow[f].cred.session : f \in F}

\* cancelToken.isCancelled; the request of a sign-out has no token.
Cancelled(f) == IF flow[f].kind = "check" THEN current # f ELSE flow[f].closed

Waiting(f)  == flow[f].pc \in Calls /\ flow[f].reply = "none"
Requests(F) == {flow[f].cred : f \in {g \in F : Waiting(g) /\ flow[g].pc = "renew"}}
Renewing(F) == SessionsOf({f \in F : flow[f].pc = "renew"})

\* The requests of F end on this side; the server may still get a renewal.  (A
\* sign-out it gets late is an EndSession; of a session that a sign-in opens and
\* nobody reads the answer of, no flow ever learns.)
GiveUp(F) ==
  /\ strays' = {c \in strays \cup Requests(F) : server[c.session] = "open"}
  /\ abandoned' = abandoned \cup Renewing({f \in F : Waiting(f)})

CancelCall(r) == IF r.pc \in Calls /\ r.reply = "none" THEN [r EXCEPT !.reply = "cancelled"] ELSE r

\* cancelActiveCheck() for the flow it concerns.
ActiveCheck     == IF InProgress THEN {current} ELSE {}
CheckCancelled  == [f \in Flow |-> IF f \in ActiveCheck THEN CancelCall(flow[f]) ELSE flow[f]]
\* Sign-in and sign-out count _sessionGeneration up.
NewGeneration(F) == [f \in Flow |-> [F[f] EXCEPT !.same = FALSE]]

\* A request is sent; with a cancelled token Dio fails it at once.
Send(r, pc, cancelled) ==
  [r EXCEPT !.pc = pc, !.reply = IF cancelled THEN "cancelled" ELSE "none", !.got = None]

\* _resolve() up to its first await.  The device's clock decides whether the
\* access token is still good.
Ask(r, c, again, cancelled) ==
  Send([r EXCEPT !.cred = c, !.again = again, !.same = TRUE], "me", cancelled)

\* The flow has its outcome and its caller has still to get it.
Done(r, o) ==
  [Idle EXCEPT !.kind = r.kind, !.pc = "done", !.cred = r.cred, !.background = r.background,
               !.closed = r.closed, !.outcome = o]

\* Broken: every flow renews for itself.
RenewEach(f, r) ==
  /\ flow' = [flow EXCEPT ![f] = Send([r EXCEPT !.same = TRUE], "renew", Cancelled(f))]
  /\ flight' = f

\* _refreshOnce() and _refresh() up to the first await, for r, the state of f.
RenewOnce(f, r) ==
  IF flight = None
  THEN /\ flow' = [flow EXCEPT ![f] = Send([r EXCEPT !.same = TRUE], "renew", Cancelled(f))]
       /\ flight' = f
  ELSE /\ flow' = [flow EXCEPT ![f] = [r EXCEPT !.pc = "joined", !.via = flight]]
       /\ UNCHANGED flight

Resolve(f, c) ==
  \/ /\ flow' = [flow EXCEPT ![f] = Ask(flow[f], c, TRUE, Cancelled(f))]
     /\ UNCHANGED flight
  \/ /\ c.token < MaxRenewals
     /\ RenewOnce(f, [flow[f] EXCEPT !.cred = c])

\* _apply().
Apply(o, s) ==
  /\ launch' = CASE o \in {"NoStored", "Invalid", "Cancelled"} -> "out"
                 [] o = "Transient" -> "error"
                 [] o = "Denied" -> "denied"
                 [] o = "Resolved" -> "authenticated"
  /\ who' = IF o = "Resolved" THEN s ELSE None

-----------------------------------------------------------------------------
(* The server and the network. *)

\* Broken: a refresh token is good as long as its session is.
RenewableAgain(c) == server[c.session] = "open"

\* POST /v1/auth/refresh; Sessions has the statements.
Renewable(c) == server[c.session] = "open" /\ c.token = renewals[c.session]
Renew(c) ==
  IF Renewable(c)
  THEN renewals' = [renewals EXCEPT ![c.session] = @ + 1] /\ UNCHANGED server
  ELSE /\ server' = [server EXCEPT ![c.session] = IF @ = "open" THEN "reuse" ELSE @]
       /\ UNCHANGED renewals

Unopened     == {s \in Session : server[s] = "none"}
FirstSession == CHOOSE s \in Unopened : TRUE

Reply(f, reply, got) == flow' = [flow EXCEPT ![f].reply = reply, ![f].got = got]

AnswerSignIn(f) ==
  /\ Waiting(f) /\ flow[f].pc = "sign"
  /\ \/ /\ Unopened # {}
        /\ server' = [server EXCEPT ![FirstSession] = "open"]
        /\ Reply(f, "ok", [session |-> FirstSession, token |-> 0])
     \/ Reply(f, "refused", None) /\ UNCHANGED server
  /\ UNCHANGED <<renewals, store, process, strays, history, events>>

\* GET /v1/actors/me: the access token is checked, then the account.
AnswerMe(f) ==
  /\ Waiting(f) /\ flow[f].pc = "me"
  /\ LET c == flow[f].cred IN
     IF server[c.session] = "open"
     THEN \/ Reply(f, "ok", None)
          \/ Reply(f, "denied", None)
          \/ /\ flow[f].again /\ flow[f].kind = "check" /\ c.token < MaxRenewals
             /\ Reply(f, "refused", None)
     ELSE Reply(f, "refused", None)
  /\ UNCHANGED <<serverVars, store, process, strays, history, events>>

AnswerRenewal(f) ==
  /\ Waiting(f) /\ flow[f].pc = "renew"
  /\ LET c == flow[f].cred IN
     /\ Renew(c)
     /\ IF Renewable(c) THEN Reply(f, "ok", [c EXCEPT !.token = @ + 1]) ELSE Reply(f, "refused", None)
  /\ UNCHANGED <<store, process, strays, history, events>>

\* POST /v1/auth/sign-out, refused when the access token is too old.
AnswerSignOut(f) ==
  /\ Waiting(f) /\ flow[f].pc = "revoke"
  /\ \/ /\ server[flow[f].cred.session] = "open"
        /\ server' = [server EXCEPT ![flow[f].cred.session] = "ended"]
        /\ Reply(f, "ok", None)
     \/ Reply(f, "refused", None) /\ UNCHANGED server
  /\ UNCHANGED <<renewals, store, process, strays, history, events>>

\* No answer in ten seconds; the request may be lost or late.
TimeOut(f) ==
  /\ Waiting(f)
  /\ GiveUp({f})
  /\ Reply(f, "failed", None)
  /\ UNCHANGED <<serverVars, store, process, left, events>>

ServeStray(c) ==
  /\ server[c.session] = "open"
  /\ strays' = strays \ {c}
  /\ Renew(c)
  /\ UNCHANGED <<store, process, flow, history, events>>

\* Expiry, a password recovery or reuse of a copied token.
EndSession(s) ==
  /\ server[s] = "open"
  /\ server' = [server EXCEPT ![s] = "ended"]
  /\ UNCHANGED <<renewals, store, process, flow, strays, history, events>>

-----------------------------------------------------------------------------
(* Session checks: initialize(), retry(), revalidateOnResume(), _check() and *)
(* resolveStoredSession().                                                   *)

StartCheck(background) ==
  LET f == FreeFlow IN
  /\ SomeFlowFree
  /\ ~InProgress
  /\ current' = f
  /\ flow' = [flow EXCEPT ![f] =
       [Idle EXCEPT !.kind = "check", !.pc = "read", !.cred = store, !.background = background]]

Initialize ==
  /\ ~started
  /\ started' = TRUE
  /\ StartCheck(FALSE)
  /\ UNCHANGED <<serverVars, store, launch, who, flight, foreground, strays, history, events>>

\* The retry button is disabled while "retrying" is shown.
Retry ==
  /\ foreground
  /\ launch = "error"
  /\ launch' = "retrying"
  /\ StartCheck(FALSE)
  /\ UNCHANGED <<serverVars, store, who, started, flight, foreground, strays, history, events>>

\* Broken: a cold check that was cancelled is not started again.
RevalidatesWarm == launch \in {"authenticated", "denied"}

\* What revalidateOnResume() looks at.
Revalidates == launch \in {"authenticated", "denied"} \/ (started /\ launch = "checking")

Resume ==
  /\ ~foreground
  /\ foreground' = TRUE
  /\ IF Revalidates /\ ~InProgress
     THEN /\ StartCheck(launch = "authenticated")
          /\ launch' = IF launch = "authenticated" THEN launch ELSE "checking"
          /\ who' = IF launch = "authenticated" THEN who ELSE None
     ELSE UNCHANGED <<launch, who, current, flow>>
  /\ UNCHANGED <<serverVars, store, started, flight, strays, history, events>>

\* didChangeAppLifecycleState(inactive): cancelActiveCheck().
Pause ==
  /\ foreground /\ events < MaxEvents
  /\ foreground' = FALSE
  /\ GiveUp(ActiveCheck)
  /\ flow' = CheckCancelled
  /\ current' = None
  /\ events' = events + 1
  /\ UNCHANGED <<serverVars, store, launch, who, started, flight, left>>

\* The stored credentials have been read.  Of a session that has ended the
\* device may know that: it has the date of expiry.
Stored(f) ==
  /\ flow[f].kind = "check" /\ flow[f].pc = "read"
  /\ LET c == flow[f].cred IN
     \/ /\ c = None
        /\ flow' = [flow EXCEPT ![f] = Done(@, "NoStored")]
        /\ UNCHANGED <<store, flight>>
     \/ /\ c # None /\ server[c.session] = "ended"
        /\ store' = None
        /\ flow' = [flow EXCEPT ![f] = Done(@, "Invalid")]
        /\ UNCHANGED flight
     \/ /\ c # None
        /\ Resolve(f, c)
        /\ UNCHANGED store
  /\ UNCHANGED <<serverVars, launch, who, started, current, foreground, strays, history, events>>

\* The answer to GET /v1/actors/me.
Identified(f) ==
  /\ flow[f].pc = "me" /\ flow[f].reply # "none"
  /\ LET r == flow[f]
         o == IF ~r.same \/ (r.reply = "ok" /\ Cancelled(f)) THEN "Cancelled"
              ELSE IF r.reply = "ok" THEN "Resolved"
              ELSE IF r.reply = "denied" THEN "Denied"
              ELSE IF r.reply = "refused" THEN "Invalid" ELSE "Transient"
     IN IF o = "Invalid" /\ r.again
        THEN RenewOnce(f, r) /\ UNCHANGED store
        ELSE /\ flow' = [flow EXCEPT ![f] = Done(@, o)]
             /\ store' = IF o = "Invalid" THEN None ELSE store
             /\ UNCHANGED flight
  /\ UNCHANGED <<serverVars, launch, who, started, current, foreground, strays, history, events>>

\* The flows that await the renewal of f, f among them.
Awaiting(f) == {f} \cup {g \in Flow : flow[g].pc = "joined" /\ flow[g].via = f}

RenewalEnds(f, o) ==
  /\ flow' = [g \in Flow |->
       IF g \notin Awaiting(f) THEN flow[g]
       ELSE IF o = "Resolved" THEN Ask([flow[g] EXCEPT !.via = None], flow[f].got, FALSE, Cancelled(g))
       ELSE Done(flow[g], o)]
  /\ flight' = IF flight = f THEN None ELSE flight

\* Broken: the renewed credentials are written whatever has happened meanwhile.
RenewedAnyway(f) ==
  /\ flow[f].pc = "renew" /\ flow[f].reply # "none"
  /\ IF flow[f].reply = "ok"
     THEN store' = flow[f].got /\ flow' = [flow EXCEPT ![f].pc = "kept"] /\ UNCHANGED flight
     ELSE RenewalEnds(f, "Transient") /\ UNCHANGED store
  /\ UNCHANGED <<serverVars, launch, who, started, current, foreground, strays, history, events>>

\* The answer to POST /v1/auth/refresh; new credentials are written only if
\* nothing has happened meanwhile.
Renewed(f) ==
  /\ flow[f].pc = "renew" /\ flow[f].reply # "none"
  /\ LET r == flow[f] IN
     \/ /\ r.reply = "ok" /\ ~Cancelled(f) /\ r.same
        /\ store' = r.got
        /\ flow' = [flow EXCEPT ![f].pc = "kept"]
        /\ UNCHANGED <<flight, abandoned>>
     \/ /\ r.reply = "ok" /\ (Cancelled(f) \/ ~r.same)
        /\ RenewalEnds(f, "Transient")
        /\ abandoned' = abandoned \cup {r.cred.session}
        /\ UNCHANGED store
     \/ /\ r.reply = "refused"
        /\ RenewalEnds(f, IF r.same THEN "Invalid" ELSE "Cancelled")
        /\ store' = IF r.same THEN None ELSE store
        /\ UNCHANGED abandoned
     \/ /\ r.reply \in {"failed", "cancelled"}
        /\ RenewalEnds(f, "Transient")
        /\ UNCHANGED <<store, abandoned>>
  /\ UNCHANGED <<serverVars, launch, who, started, current, foreground, strays, left, events>>

\* The write is done: those who awaited the renewal ask for the actor with it.
Kept(f) ==
  /\ flow[f].pc = "kept"
  /\ RenewalEnds(f, "Resolved")
  /\ UNCHANGED <<serverVars, store, launch, who, started, current, foreground, strays, history, events>>

\* _check() gets the outcome and applies it if it is still the current one.
Checked(f) ==
  /\ flow[f].kind = "check" /\ flow[f].pc = "done"
  /\ LET r == flow[f] IN
     IF current = f /\ ~(r.background /\ r.outcome = "Transient")
     THEN Apply(r.outcome, IF r.cred = None THEN None ELSE r.cred.session)
     ELSE UNCHANGED <<launch, who>>
  /\ current' = IF current = f THEN None ELSE current
  /\ flow' = [flow EXCEPT ![f] = Idle]
  /\ UNCHANGED <<serverVars, store, started, flight, foreground, strays, history, events>>

-----------------------------------------------------------------------------
(* Sign-in: SignInController.signIn(), PhoneVerificationController.verify(), *)
(* signInWithEmail() and _verifyCode().                                      *)

\* The sign-in screens are reachable only while the user is signed out.
StartSignIn ==
  LET f == FreeFlow IN
  /\ foreground /\ launch = "out"
  /\ SomeFlowFree /\ ~SigningIn
  /\ events < MaxEvents
  /\ flow' = [NewGeneration(flow) EXCEPT ![f] = [Idle EXCEPT !.kind = "signIn", !.pc = "sign"]]
  /\ flight' = None
  /\ left' = left \ SessionsOf(Leaving)
  /\ events' = events + 1
  /\ UNCHANGED <<serverVars, store, launch, who, started, current, foreground, strays, abandoned>>

\* The answer to the sign-in.
SignedIn(f) ==
  /\ flow[f].pc = "sign" /\ flow[f].reply # "none"
  /\ IF flow[f].reply = "ok" /\ ~Cancelled(f)
     THEN /\ store' = flow[f].got
          /\ flow' = [flow EXCEPT ![f] =
               [Idle EXCEPT !.kind = "signIn", !.pc = "wrote", !.cred = flow[f].got]]
     ELSE /\ flow' = [flow EXCEPT ![f] = Idle]
          /\ UNCHANGED store
  /\ UNCHANGED <<serverVars, process, strays, history, events>>

Wrote(f) ==
  /\ flow[f].pc = "wrote"
  /\ Resolve(f, flow[f].cred)
  /\ UNCHANGED <<serverVars, store, launch, who, started, current, foreground, strays, history, events>>

\* The user leaves the screen.
CloseSignIn(f) ==
  /\ foreground
  /\ IsSignIn(f) /\ ~flow[f].closed
  /\ GiveUp({f})
  /\ flow' = [flow EXCEPT ![f] = [CancelCall(@) EXCEPT !.closed = TRUE]]
  /\ UNCHANGED <<serverVars, store, process, left, events>>

\* Broken: a screen that was left still delivers its outcome.
FinishSignInAnyway(f) ==
  /\ IsSignIn(f) /\ flow[f].pc = "done"
  /\ GiveUp(ActiveCheck)
  /\ flow' = [CheckCancelled EXCEPT ![f] = Idle]
  /\ current' = None
  /\ Apply(flow[f].outcome, flow[f].cred.session)
  /\ UNCHANGED <<serverVars, store, started, flight, foreground, left, events>>

\* The outcome reaches the screen: acceptSignInOutcome() gets a session that was
\* resolved or denied, and of a sign-in by code any other outcome too.
FinishSignIn(f) ==
  /\ IsSignIn(f) /\ flow[f].pc = "done"
  /\ \/ /\ ~flow[f].closed
        /\ GiveUp(ActiveCheck)
        /\ flow' = [CheckCancelled EXCEPT ![f] = Idle]
        /\ current' = None
        /\ Apply(flow[f].outcome, flow[f].cred.session)
     \/ /\ flow[f].closed \/ flow[f].outcome \notin {"Resolved", "Denied"}
        /\ flow' = [flow EXCEPT ![f] = Idle]
        /\ UNCHANGED <<launch, who, current, strays, abandoned>>
  /\ UNCHANGED <<serverVars, store, started, flight, foreground, left, events>>

-----------------------------------------------------------------------------
(* Sign-out: LaunchController.signOut() and NativeAuthRepository.signOut(). *)

SignOut ==
  LET f == FreeFlow IN
  /\ foreground /\ launch \in {"authenticated", "denied"}
  /\ SomeFlowFree
  /\ GiveUp(ActiveCheck)
  /\ flow' = [NewGeneration(CheckCancelled) EXCEPT ![f] =
                [Idle EXCEPT !.kind = "signOut", !.pc = "read", !.cred = store]]
  /\ current' = f
  /\ flight' = None
  /\ launch' = "out" /\ who' = None
  /\ left' = IF store = None THEN left ELSE left \cup {store.session}
  /\ UNCHANGED <<serverVars, store, started, foreground, events>>

\* The finally block.
ClearOwn(f) ==
  /\ store' = IF flow[f].same THEN None ELSE store
  /\ flow' = [flow EXCEPT ![f] = [Idle EXCEPT !.kind = "signOut", !.pc = "cleared"]]

\* The credentials have been read.
RevokeStored(f) ==
  /\ IsSignOut(f) /\ flow[f].pc = "read"
  /\ IF flow[f].cred = None THEN ClearOwn(f)
     ELSE /\ flow' = [flow EXCEPT ![f] = Send(@, "revoke", FALSE)]
          /\ UNCHANGED store
  /\ UNCHANGED <<serverVars, process, strays, history, events>>

\* Answered or not, the credentials go.
Revoked(f) ==
  /\ flow[f].pc = "revoke" /\ flow[f].reply # "none"
  /\ ClearOwn(f)
  /\ UNCHANGED <<serverVars, process, strays, history, events>>

SignedOut(f) ==
  /\ flow[f].pc = "cleared"
  /\ IF current = f THEN launch' = "out" /\ who' = None /\ current' = None
     ELSE UNCHANGED <<launch, who, current>>
  /\ flow' = [flow EXCEPT ![f] = Idle]
  /\ UNCHANGED <<serverVars, store, started, flight, foreground, strays, history, events>>

-----------------------------------------------------------------------------

\* The process is killed and started again; storage and requests outlive it.
Kill ==
  /\ events < MaxEvents
  /\ strays' = {c \in strays \cup Requests(Flow) : server[c.session] = "open"}
  /\ abandoned' = abandoned \cup Renewing(Flow)
  /\ left' = left \ SessionsOf(Leaving)
  /\ flow' = [f \in Flow |-> Idle]
  /\ launch' = "checking" /\ who' = None /\ started' = FALSE
  /\ current' = None /\ flight' = None /\ foreground' = TRUE
  /\ events' = events + 1
  /\ UNCHANGED <<serverVars, store>>

Answer(f)   == AnswerSignIn(f) \/ AnswerMe(f) \/ AnswerRenewal(f) \/ AnswerSignOut(f) \/ TimeOut(f)
Continue(f) ==
  \/ Stored(f) \/ Identified(f) \/ Renewed(f) \/ Kept(f) \/ Checked(f)
  \/ SignedIn(f) \/ Wrote(f) \/ FinishSignIn(f)
  \/ RevokeStored(f) \/ Revoked(f) \/ SignedOut(f)
Advance(f)  == IF Waiting(f) THEN Answer(f) ELSE flow[f].pc # "idle" /\ Continue(f)

Next ==
  \/ Initialize \/ Retry \/ Resume \/ Pause \/ StartSignIn \/ SignOut \/ Kill
  \/ \E f \in Flow : Advance(f) \/ CloseSignIn(f)
  \/ \E c \in strays : ServeStray(c)
  \/ \E s \in Session : EndSession(s)

Spec == Init /\ [][Next]_vars

\* Every request is answered or times out, Dart runs what is ready, and the
\* user comes back to the application.  Nobody has to press anything.
Fairness ==
  /\ WF_vars(Initialize \/ Resume)
  /\ \A f \in Flow : WF_vars(Advance(f))

FairSpec == Spec /\ Fairness

-----------------------------------------------------------------------------

\* The application never makes the server end its own session for reuse of a
\* refresh token, unless an answer to a renewal was given up: no two flows
\* present one token, and none presents a token that was replaced (485-541).
OwnReuse == \A s \in Session : server[s] = "reuse" => s \in abandoned

\* While an actor is shown, storage holds no other session than the one the
\* actor was read with: no late write of an earlier flow replaces it.
ShownIsStored ==
  launch = "authenticated" /\ store # None => store.session = who

\* "late refresh cannot restore credentials after logout"
\* (test/auth_repository_test.dart:48): a session that was signed out of is not
\* shown again, and its credentials are stored only while the sign-out runs.
SignedOutIsGone ==
  \A s \in left :
    /\ who # s
    /\ store # None /\ store.session = s => s \in SessionsOf(Leaving)

\* The launch screen, which has no button, is left: a check that the system
\* cancelled is started again (63-70).
CheckingEnds == launch = "checking" ~> launch # "checking"
=============================================================================
