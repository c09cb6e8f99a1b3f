---------------------- MODULE PushRegistration_proofs ----------------------
(***************************************************************************)
(* Proofs about PushRegistration, for any accounts, calls, tokens and      *)
(* bounds.  The invariant says what the calls, the requests and a delivery *)
(* take for granted, and that the sign-out screen is silent once no        *)
(* disable() runs.                                                         *)
(***************************************************************************)
EXTENDS PushRegistration, FiniteSetTheorems, TLAPS

\* Only start() sets up and asks for a token; who registers has one.
StepInv ==
  \A c \in Call :
    /\ calls[c].pc \in {"setup", "token"} => calls[c].kind = "start"
    /\ calls[c].pc = "read" /\ calls[c].kind # "disable" => calls[c].token # 0

\* So has the registration at the server, of which remove() has no second statement.
RequestInv ==
  \A r \in requests :
    /\ r.op = "register" => r.token # 0
    /\ r.at = "found" => r.op = "register"

\* The row invalidate() will write by its id is there.
JobInv == job # None /\ job.same => rows[job.user] # None

\* A disable() is still to delete the token, or there is none and nothing asks for one.
SilenceInv ==
  launch = "out" /\ ~exposed =>
    \/ \E c \in Call : calls[c].kind = "disable"
    \/ token = 0 /\ \A c \in Call : calls[c].kind # "start"

IInv == TypeOK /\ StepInv /\ RequestInv /\ JobInv /\ SilenceInv

LEMMA InitHolds == Init => IInv
<1> SUFFICES ASSUME Init PROVE IInv
  OBVIOUS
<1> USE PushAssumption DEF Init
<1>1. Idle \in CallState
  BY DEF Idle, CallState
<1>2. TypeOK
  <2>1. {permitted, started, firebase, listening, leaked, exposed, excused} \subseteq BOOLEAN
    OBVIOUS
  <2>2. rows \in [User -> Row \cup {None}] /\ \A u \in User : rows[u] = None
    OBVIOUS
  <2>3. calls \in [Call -> CallState]
    BY <1>1
  <2>4. 0 \in 0..MaxSignIns /\ 0 \in 0..MaxEvents
    OBVIOUS
  <2> QED
    BY <2>1, <2>2, <2>3, <2>4 DEF TypeOK
<1>3. StepInv
  BY DEF StepInv, Idle
<1>4. RequestInv /\ JobInv /\ SilenceInv
  BY DEF RequestInv, JobInv, SilenceInv
<1> QED
  BY <1>2, <1>3, <1>4 DEF IInv

-----------------------------------------------------------------------------
(* What a step does to the calls. *)

CallTypes == calls \in [Call -> CallState]

\* No disable() ends and no start() begins.
Steady ==
  \A c \in Call :
    /\ calls[c].kind = "disable" => calls'[c].kind = "disable"
    /\ calls'[c].kind = "start" => calls[c].kind = "start"

GoesOn == CallTypes' /\ StepInv' /\ Steady

LEMMA ContinueGoesOn ==
  ASSUME IInv, NEW c \in Call, NEW p \in {"wait", "ok", "failed"}, Continue(c, p)
  PROVE  GoesOn
<1> USE DEF IInv, TypeOK, Continue
<1>1. \A d \in Call : calls[d] \in CallState
  OBVIOUS
<1>2. \A d \in Call \ {c} : calls'[d] = calls[d]
  OBVIOUS
<1>3. calls'[c] = [calls[c] EXCEPT !.pc = p]
  OBVIOUS
<1>4. calls'[c] \in CallState /\ calls'[c].kind = calls[c].kind /\ calls'[c].pc = p
  BY <1>1, <1>3 DEF CallState
<1>5. CallTypes'
  BY <1>1, <1>4 DEF CallTypes
<1>6. StepInv'
  BY <1>2, <1>4 DEF StepInv
<1>7. Steady
  BY <1>2, <1>4 DEF Steady
<1> QED
  BY <1>5, <1>6, <1>7 DEF GoesOn

LEMMA ReturnGoesOn ==
  ASSUME IInv, NEW c \in Call, Return(c)
  PROVE  CallTypes' /\ StepInv' /\ (calls[c].kind # "disable" => GoesOn)
<1> USE DEF IInv, TypeOK, Return
<1>1. Idle \in CallState /\ Idle.kind = "none" /\ Idle.pc = "idle"
  BY DEF Idle, CallState
<1>2. \A d \in Call \ {c} : calls'[d] = calls[d]
  OBVIOUS
<1>3. calls'[c] = Idle
  OBVIOUS
<1>5. CallTypes'
  BY <1>1 DEF CallTypes
<1>6. StepInv'
  BY <1>1, <1>2, <1>3 DEF StepInv
<1>7. calls[c].kind # "disable" => Steady
  BY <1>1, <1>2, <1>3 DEF Steady
<1> QED
  BY <1>5, <1>6, <1>7 DEF GoesOn

LEMMA RepliedGoesOn ==
  ASSUME IInv, NEW c \in Call, NEW p \in {"wait", "ok", "failed"}, Replied(c, p)
  PROVE  GoesOn
<1>1. CASE calls[c].kind = "refresh"
  BY <1>1, ReturnGoesOn DEF Replied
<1>2. CASE calls[c].kind # "refresh"
  BY <1>2, ContinueGoesOn DEF Replied
<1> QED
  BY <1>1, <1>2

LEMMA RestGoesOn ==
  ASSUME IInv, UNCHANGED calls
  PROVE  GoesOn
BY DEF IInv, TypeOK, GoesOn, CallTypes, StepInv, Steady

LEMMA AnswerGoesOn ==
  ASSUME IInv, NEW r \in requests, NEW p \in {"ok", "failed"}, Answer(r, p)
  PROVE  GoesOn
<1>1. CASE r.by = None
  BY <1>1, RestGoesOn DEF Answer
<1>2. CASE r.by # None
  <2>1. r.by \in Call
    BY <1>2 DEF IInv, TypeOK, Request
  <2> QED
    BY <1>2, <2>1, RepliedGoesOn DEF Answer
<1> QED
  BY <1>1, <1>2

LEMMA BeginGoesOn ==
  ASSUME IInv, NEW F, F \subseteq FreeCalls,
         NEW new \in CallState, calls' = Begin(new, F),
         new.pc \in {"setup", "token"} => new.kind = "start",
         new.pc = "read" /\ new.kind # "disable" => new.token # 0
  PROVE  /\ CallTypes' /\ StepInv'
         /\ new.kind # "start" => Steady
         /\ \A c \in Call \ F : calls'[c] = calls[c]
         /\ \A c \in F : calls'[c] = new
<1> USE DEF IInv, TypeOK, Begin
<1>1. F \subseteq Call /\ \A c \in F : calls[c].kind = "none"
  BY DEF FreeCalls, Running
<1>2. \A c \in Call \ F : calls'[c] = calls[c]
  OBVIOUS
<1>3. \A c \in F : calls'[c] = new
  BY <1>1
<1>4. CallTypes'
  BY DEF CallTypes
<1>5. StepInv'
  BY <1>2, <1>3 DEF StepInv
<1>6. new.kind # "start" => Steady
  BY <1>1, <1>2, <1>3 DEF Steady
<1> QED
  BY <1>2, <1>3, <1>4, <1>5, <1>6

LEMMA NextIsFree ==
  ASSUME FreeCalls # {}
  PROVE  NextCall \in FreeCalls
BY DEF NextCall

\* Silence lasts while no disable() ends, no start() begins and no token is made.
LEMMA SilenceLasts ==
  ASSUME IInv, Steady,
         launch' = "out" => launch = "out",
         exposed => exposed',
         token = 0 => token' = 0
  PROVE  SilenceInv'
BY DEF IInv, SilenceInv, Steady

-----------------------------------------------------------------------------
(* The parts of the invariant, and what leaves each of them alone. *)

SessionTypes ==
  /\ live \subseteq Session /\ leaving \subseteq Session
  /\ store \in Session \cup {None}
  /\ launch \in {"checking", "out", "denied", "in"}
  /\ signIns \in 0..MaxSignIns

PhoneTypes ==
  /\ token \in Token \cup {0}
  /\ {permitted, started, firebase, listening, leaked, exposed, excused} \subseteq BOOLEAN
  /\ events \in 0..MaxEvents

RowTypes ==
  /\ rows \in [User -> Row \cup {None}]
  /\ \A u, v \in User :
       rows[u] # None /\ rows[v] # None /\ rows[u].token = rows[v].token => u = v
  /\ job \in Job \cup {None}

LEMMA TypeParts ==
  TypeOK <=> SessionTypes /\ PhoneTypes /\ RowTypes /\ CallTypes /\ requests \subseteq Request
BY DEF TypeOK, SessionTypes, PhoneTypes, RowTypes, CallTypes

Rows     == RowTypes /\ JobInv
Requests == requests \subseteq Request /\ RequestInv

\* IInv, grouped by what the actions change.
LEMMA Parts ==
  IInv <=> SessionTypes /\ PhoneTypes /\ Rows /\ Requests /\ CallTypes /\ StepInv /\ SilenceInv
BY TypeParts DEF IInv, SessionTypes, Rows, Requests

LEMMA PartsAgain ==
  ASSUME SessionTypes', PhoneTypes', Rows', Requests', CallTypes', StepInv', SilenceInv'
  PROVE  IInv'
BY DEF IInv, TypeOK, SessionTypes, PhoneTypes, RowTypes, CallTypes, SessionTypes, Rows, Requests

LEMMA SessionsRest ==
  ASSUME SessionTypes, UNCHANGED <<store, launch, leaving, signIns>>, live' \subseteq live
  PROVE  SessionTypes'
BY DEF SessionTypes

LEMMA RowsRest ==
  ASSUME Rows, UNCHANGED <<rows, job>>
  PROVE  Rows'
BY DEF Rows, RowTypes, JobInv

LEMMA RequestsRest ==
  ASSUME Requests, requests' \subseteq requests
  PROVE  Requests'
BY DEF Requests, RequestInv

LEMMA EventCounts ==
  ASSUME PhoneTypes, Event
  PROVE  events' \in 0..MaxEvents
BY PushAssumption DEF PhoneTypes, Event
-----------------------------------------------------------------------------
(* Each action. *)

LEMMA PhoneStep ==
  ASSUME PhoneTypes, token' \in Token \cup {0}, permitted' \in BOOLEAN, started' \in BOOLEAN,
         firebase' \in BOOLEAN, listening' \in BOOLEAN, leaked' \in BOOLEAN,
         exposed' \in BOOLEAN, excused' \in BOOLEAN, events' \in 0..MaxEvents
  PROVE  PhoneTypes'
BY DEF PhoneTypes

LEMMA PhoneMembers ==
  ASSUME PhoneTypes
  PROVE  /\ token \in Token \cup {0}
         /\ permitted \in BOOLEAN /\ started \in BOOLEAN /\ firebase \in BOOLEAN
         /\ listening \in BOOLEAN /\ leaked \in BOOLEAN
         /\ exposed \in BOOLEAN /\ excused \in BOOLEAN
         /\ events \in 0..MaxEvents
BY DEF PhoneTypes

LEMMA SetUpStep ==
  ASSUME IInv, NEW c \in Call, SetUp(c)
  PROVE  IInv'
<1>1. calls[c].kind = "start"
  BY DEF SetUp, IInv, StepInv
<1>2. UNCHANGED <<rows, live, requests, token, permitted, store, launch, leaving, started,
                  listening, leaked, job, exposed, signIns, events>>
      /\ firebase' = TRUE /\ excused' \in {excused, TRUE}
  BY DEF SetUp, serverVars, bounds
<1>3. CallTypes' /\ StepInv' /\ Steady
  <2>1. CASE Return(c)
    BY <1>1, <2>1, ReturnGoesOn DEF GoesOn
  <2>2. CASE Continue(c, "token")
    <3> USE <2>2 DEF IInv, TypeOK, Continue
    <3>1. \A d \in Call \ {c} : calls'[d] = calls[d]
      OBVIOUS
    <3>2. calls'[c] = [calls[c] EXCEPT !.pc = "token"] /\ calls[c] \in CallState
      OBVIOUS
    <3>3. calls'[c] \in CallState /\ calls'[c].kind = "start" /\ calls'[c].pc = "token"
      BY <1>1, <3>2 DEF CallState
    <3>4. CallTypes'
      BY <3>2, <3>3 DEF CallTypes
    <3> QED
      BY <1>1, <3>1, <3>3, <3>4 DEF StepInv, Steady
  <2> QED
    BY <2>1, <2>2 DEF SetUp
<1>4. SessionTypes /\ PhoneTypes /\ Rows /\ Requests
  BY Parts
<1>5. excused' \in BOOLEAN
  BY <1>2, <1>4, PhoneMembers
<1>6. SessionTypes' /\ PhoneTypes' /\ Rows' /\ Requests'
  BY <1>2, <1>4, <1>5, SessionsRest, RowsRest, RequestsRest, PhoneStep, PhoneMembers
<1>7. SilenceInv'
  BY <1>2, <1>3, SilenceLasts
<1> QED
  BY <1>3, <1>6, <1>7, PartsAgain

LEMMA AllowStep ==
  ASSUME IInv, Allow
  PROVE  IInv'
<1>1. UNCHANGED <<rows, live, requests, token, store, launch, leaving, started, calls,
                  firebase, listening, leaked, job, exposed, excused, signIns, events>>
      /\ permitted' = TRUE
  BY DEF Allow, serverVars, phone, history, bounds
<1>2. GoesOn
  BY <1>1, RestGoesOn
<1>3. SessionTypes /\ PhoneTypes /\ Rows /\ Requests
  BY Parts
<1>4. SessionTypes' /\ PhoneTypes' /\ Rows' /\ Requests'
  BY <1>1, <1>3, SessionsRest, RowsRest, RequestsRest, PhoneStep, PhoneMembers
<1>5. SilenceInv'
  BY <1>1, <1>2, SilenceLasts DEF GoesOn
<1> QED
  BY <1>2, <1>4, <1>5, PartsAgain DEF GoesOn

\* What Firebase gives out is a token nothing remembers.
LEMMA FreshIsToken ==
  ASSUME Token \ InUse # {}
  PROVE  Fresh \in Token /\ Fresh # 0
BY PushAssumption DEF Fresh, Token

LEMMA RefreshedTypes ==
  ASSUME NEW t \in Token
  PROVE  /\ Refreshed(t) \in CallState /\ Refreshed(t).kind = "refresh"
         /\ Refreshed(t).pc = "read" /\ Refreshed(t).token # 0
<1>1. Idle \in CallState
  BY DEF Idle, CallState
<1>2. t # 0
  BY PushAssumption DEF Token
<1>3. Refreshed(t) \in CallState /\ Refreshed(t).kind = "refresh"
  BY <1>1 DEF Refreshed, CallState
<1>4. Refreshed(t).pc = "read" /\ Refreshed(t).token = t
  BY <1>1 DEF Refreshed, CallState
<1> QED
  BY <1>2, <1>3, <1>4

LEMMA GetTokenStep ==
  ASSUME IInv, NEW c \in Call, GetToken(c)
  PROVE  IInv'
<1>1. calls[c].kind = "start" /\ calls[c] \in CallState
  BY DEF GetToken, IInv, StepInv, TypeOK
<1>2. UNCHANGED <<rows, live, requests, permitted, store, launch, leaving, started, firebase,
                  listening, leaked, job, exposed, excused, signIns, events>>
  BY DEF GetToken, serverVars, phone, history, bounds
<1>4. SessionTypes /\ PhoneTypes /\ Rows /\ Requests
  BY Parts
<1>3. token' \in Token /\ CallTypes' /\ StepInv' /\ Steady
  <2>1. CASE token # 0 /\ calls' = [calls EXCEPT ![c].pc = "read", ![c].token = token] /\ UNCHANGED token
    <3>0. token \in Token
      BY <1>4, <2>1, PhoneMembers
    <3> USE <2>1 DEF IInv, TypeOK
    <3>1. \A d \in Call \ {c} : calls'[d] = calls[d]
      OBVIOUS
    <3>2. calls'[c] = [calls[c] EXCEPT !.pc = "read", !.token = token]
      OBVIOUS
    <3>3. calls'[c] \in CallState /\ calls'[c].kind = "start" /\ calls'[c].pc = "read" /\ calls'[c].token = token
      BY <1>1, <3>0, <3>2 DEF CallState
    <3>4. CallTypes'
      BY <3>2, <3>3 DEF CallTypes
    <3> QED
      BY <1>1, <3>0, <3>1, <3>3, <3>4 DEF StepInv, Steady
  <2>2. CASE /\ Token \ InUse # {} /\ (Hears => FreeCalls # {}) /\ token' = Fresh
             /\ calls' = [Begin(Refreshed(Fresh), IF Hears THEN {NextCall} ELSE {})
                            EXCEPT ![c].pc = "read", ![c].token = Fresh]
    <3> DEFINE F == IF Hears THEN {NextCall} ELSE {}
    <3> DEFINE g == Begin(Refreshed(Fresh), F)
    <3>1. Fresh \in Token /\ Fresh # 0
      BY <2>2, FreshIsToken
    <3>2. F \subseteq FreeCalls
      BY <2>2, NextIsFree
    <3>3. F \subseteq Call /\ \A d \in F : calls[d].kind = "none"
      BY <3>2 DEF FreeCalls, Running
    <3>4. c \notin F
      BY <1>1, <3>3
    <3> HIDE DEF F
    <3>5. g \in [Call -> CallState] /\ g[c] = calls[c]
      BY <3>1, <3>4, <1>1, RefreshedTypes DEF Begin, IInv, TypeOK
    <3>6. \A d \in F : g[d] = Refreshed(Fresh)
      BY <3>3 DEF Begin
    <3>7. \A d \in Call \ F : g[d] = calls[d]
      BY DEF Begin
    <3>8. calls' = [g EXCEPT ![c].pc = "read", ![c].token = Fresh]
      BY <2>2 DEF F
    <3> HIDE DEF g
    <3>9. \A d \in Call \ {c} : calls'[d] = g[d]
      BY <3>5, <3>8
    <3>10. calls'[c] = [calls[c] EXCEPT !.pc = "read", !.token = Fresh]
      BY <3>5, <3>8
    <3>11. calls'[c] \in CallState /\ calls'[c].kind = "start" /\ calls'[c].pc = "read" /\ calls'[c].token = Fresh
      BY <1>1, <3>1, <3>10 DEF CallState
    <3>12. CallTypes'
      BY <3>5, <3>8, <3>10, <3>11 DEF CallTypes
    <3>13. StepInv'
      <4> SUFFICES ASSUME NEW d \in Call
                   PROVE  /\ calls'[d].pc \in {"setup", "token"} => calls'[d].kind = "start"
                          /\ calls'[d].pc = "read" /\ calls'[d].kind # "disable" => calls'[d].token # 0
        BY DEF StepInv
      <4>1. CASE d = c
        BY <4>1, <3>11, <3>1
      <4>2. CASE d # c /\ d \in F
        BY <4>2, <3>9, <3>6, <3>1, RefreshedTypes
      <4>3. CASE d # c /\ d \notin F
        BY <4>3, <3>9, <3>7 DEF IInv, StepInv
      <4> QED
        BY <4>1, <4>2, <4>3
    <3>14. Steady
      <4> SUFFICES ASSUME NEW d \in Call
                   PROVE  /\ calls[d].kind = "disable" => calls'[d].kind = "disable"
                          /\ calls'[d].kind = "start" => calls[d].kind = "start"
        BY DEF Steady
      <4>1. CASE d = c
        BY <4>1, <3>11, <1>1
      <4>2. CASE d # c /\ d \in F
        BY <4>2, <3>3, <3>9, <3>6, <3>1, RefreshedTypes
      <4>3. CASE d # c /\ d \notin F
        BY <4>3, <3>9, <3>7
      <4> QED
        BY <4>1, <4>2, <4>3
    <3> QED
      BY <2>2, <3>1, <3>12, <3>13, <3>14
  <2> QED
    BY <2>1, <2>2 DEF GetToken
<1>5. SessionTypes' /\ PhoneTypes' /\ Rows' /\ Requests'
  BY <1>2, <1>3, <1>4, SessionsRest, RowsRest, RequestsRest, PhoneStep, PhoneMembers
<1>6. SilenceInv'
  BY <1>1, <1>2, <1>3 DEF SilenceInv, Steady, IInv
<1> QED
  BY <1>3, <1>5, <1>6, PartsAgain

LEMMA SendStep ==
  ASSUME IInv, NEW c \in Call, Send(c)
  PROVE  IInv'
<1>1. calls[c].pc = "read" /\ calls[c] \in CallState
  BY DEF Send, IInv, TypeOK
<1>2. UNCHANGED <<rows, live, token, permitted, store, launch, leaving, started, firebase,
                  listening, leaked, job, exposed, excused, signIns, events>>
  BY DEF Send, phone, history, bounds
<1>3. SessionTypes /\ PhoneTypes /\ Rows /\ Requests
  BY Parts
<1>4. GoesOn /\ Requests'
  <2>1. CASE store = None
    <3>1. Replied(c, IF calls[c].kind = "disable" THEN "failed" ELSE "ok") /\ UNCHANGED requests
      BY <2>1 DEF Send
    <3>2. GoesOn
      BY <3>1, RepliedGoesOn
    <3> QED
      BY <1>3, <3>1, <3>2, RequestsRest
  <2>2. CASE store # None
    <3> DEFINE r == Sent(c, IF calls[c].kind = "disable" THEN "remove" ELSE "register")
    <3>1. requests' = requests \cup {r} /\ Continue(c, "wait")
      BY <2>2 DEF Send
    <3>2. GoesOn
      BY <3>1, ContinueGoesOn
    <3>3. store \in Session /\ calls[c].token \in Token \cup {0}
      BY <1>1, <1>3, <2>2 DEF SessionTypes, CallState
    <3>4. r \in Request /\ r.at = "sent" /\ r.token = calls[c].token
          /\ (r.op = "register" => calls[c].kind # "disable")
      BY <3>3 DEF Sent, Request
    <3>5. r.op = "register" => r.token # 0
      BY <1>1, <3>4 DEF IInv, StepInv
    <3> HIDE DEF r
    <3>6. Requests'
      BY <1>3, <3>1, <3>4, <3>5 DEF Requests, RequestInv
    <3> QED
      BY <3>2, <3>6
  <2> QED
    BY <2>1, <2>2
<1>5. SessionTypes' /\ PhoneTypes' /\ Rows'
  BY <1>2, <1>3, SessionsRest, RowsRest, PhoneStep, PhoneMembers
<1>6. SilenceInv'
  BY <1>2, <1>4, SilenceLasts DEF GoesOn
<1> QED
  BY <1>4, <1>5, <1>6, PartsAgain DEF GoesOn

LEMMA ListenStep ==
  ASSUME IInv, NEW c \in Call, Listen(c)
  PROVE  IInv'
<1>1. UNCHANGED <<rows, live, requests, token, permitted, store, launch, leaving, started,
                  firebase, job, exposed, excused, signIns, events>>
      /\ listening' = TRUE /\ leaked' = (leaked \/ listening)
  BY DEF Listen, serverVars, history, bounds
<1>2. GoesOn
  BY ReturnGoesOn DEF Listen
<1>3. SessionTypes /\ PhoneTypes /\ Rows /\ Requests
  BY Parts
<1>4. SessionTypes' /\ PhoneTypes' /\ Rows' /\ Requests'
  BY <1>1, <1>3, SessionsRest, RowsRest, RequestsRest, PhoneStep, PhoneMembers
<1>5. SilenceInv'
  BY <1>1, <1>2, SilenceLasts DEF GoesOn
<1> QED
  BY <1>2, <1>4, <1>5, PartsAgain DEF GoesOn

LEMMA StartFailedStep ==
  ASSUME IInv, NEW c \in Call, StartFailed(c)
  PROVE  IInv'
<1>1. UNCHANGED <<rows, live, requests, token, permitted, store, launch, leaving, listening,
                  leaked, firebase, job, exposed, excused, signIns, events>>
      /\ started' = FALSE
  BY DEF StartFailed, serverVars, history, bounds
<1>2. GoesOn
  BY ReturnGoesOn DEF StartFailed
<1>3. SessionTypes /\ PhoneTypes /\ Rows /\ Requests
  BY Parts
<1>4. SessionTypes' /\ PhoneTypes' /\ Rows' /\ Requests'
  BY <1>1, <1>3, SessionsRest, RowsRest, RequestsRest, PhoneStep, PhoneMembers
<1>5. SilenceInv'
  BY <1>1, <1>2, SilenceLasts DEF GoesOn
<1> QED
  BY <1>2, <1>4, <1>5, PartsAgain DEF GoesOn

\* The last disable() to end has deleted the token, or has left the phone exposed.
LEMMA DeleteTokenStep ==
  ASSUME IInv, NEW c \in Call, DeleteToken(c)
  PROVE  IInv'
<1>1. UNCHANGED <<rows, live, requests, permitted, store, launch, leaving, leaked, firebase,
                  job, excused, signIns>>
      /\ started' = FALSE /\ listening' = FALSE /\ Return(c) /\ calls[c].kind = "disable"
  BY DEF DeleteToken, serverVars
<1>2. CallTypes' /\ StepInv'
  BY <1>1, ReturnGoesOn
<1>3. SessionTypes /\ PhoneTypes /\ Rows /\ Requests
  BY Parts
<1>4. token' \in {0, token} /\ exposed' \in BOOLEAN /\ events' \in 0..MaxEvents
  <2>1. CASE /\ token' = IF firebase THEN 0 ELSE token
             /\ exposed' = (~firebase \/ Running({"start"}) # {})
             /\ UNCHANGED events
    BY <1>3, <2>1, PhoneMembers
  <2>2. CASE Event /\ exposed' = TRUE /\ UNCHANGED token
    BY <1>3, <2>2, EventCounts
  <2> QED
    BY <2>1, <2>2 DEF DeleteToken
<1>5. SessionTypes' /\ PhoneTypes' /\ Rows' /\ Requests'
  BY <1>1, <1>3, <1>4, SessionsRest, RowsRest, RequestsRest, PhoneStep, PhoneMembers
<1>6. SilenceInv'
  <2> SUFFICES ASSUME ~exposed' PROVE token' = 0 /\ \A d \in Call : calls'[d].kind # "start"
    BY DEF SilenceInv
  <2>1. token' = 0 /\ Running({"start"}) = {}
    BY DEF DeleteToken
  <2>2. \A d \in Call : calls[d].kind # "start"
    BY <2>1 DEF Running
  <2>3. \A d \in Call : calls'[d] = IF d = c THEN Idle ELSE calls[d]
    BY <1>1 DEF Return, IInv, TypeOK
  <2> QED
    BY <2>1, <2>2, <2>3 DEF Idle
<1> QED
  BY <1>2, <1>5, <1>6, PartsAgain

LEMMA FirebaseFailsStep ==
  ASSUME IInv, NEW c \in Call, FirebaseFails(c) \/ NoToken(c)
  PROVE  IInv'
<1>1. UNCHANGED <<rows, live, requests, token, permitted, store, launch, leaving, started,
                  firebase, listening, leaked, job, exposed, signIns>>
      /\ excused' = TRUE /\ Event
  BY DEF FirebaseFails, NoToken, serverVars, phone
<1>2. GoesOn
  BY ContinueGoesOn DEF FirebaseFails, NoToken
<1>3. SessionTypes /\ PhoneTypes /\ Rows /\ Requests
  BY Parts
<1>4. SessionTypes' /\ PhoneTypes' /\ Rows' /\ Requests'
  BY <1>1, <1>3, SessionsRest, RowsRest, RequestsRest, PhoneStep, PhoneMembers, EventCounts
<1>5. SilenceInv'
  BY <1>1, <1>2, SilenceLasts DEF GoesOn
<1> QED
  BY <1>2, <1>4, <1>5, PartsAgain DEF GoesOn

-----------------------------------------------------------------------------
(* The server and the network. *)

LEMMA RefuseStep ==
  ASSUME IInv, NEW r \in requests, Refuse(r)
  PROVE  IInv'
<1>1. UNCHANGED <<rows, live, token, permitted, store, launch, leaving, started,
                  firebase, listening, leaked, job, exposed, excused, signIns, events>>
      /\ requests' \subseteq requests
  BY DEF Refuse, phone, history, bounds
<1>2. GoesOn
  BY AnswerGoesOn DEF Refuse
<1>3. SessionTypes /\ PhoneTypes /\ Rows /\ Requests
  BY Parts
<1>4. SessionTypes' /\ PhoneTypes' /\ Rows' /\ Requests'
  BY <1>1, <1>3, SessionsRest, RowsRest, RequestsRest, PhoneStep, PhoneMembers
<1>5. SilenceInv'
  BY <1>1, <1>2, SilenceLasts DEF GoesOn
<1> QED
  BY <1>2, <1>4, <1>5, PartsAgain DEF GoesOn

LEMMA OwnerIsUser ==
  ASSUME IInv, NEW r \in requests
  PROVE  UserOf[r.session] \in User /\ r.token \in Token \cup {0} /\ r.found \subseteq User
<1>1. r \in Request
  BY DEF IInv, TypeOK
<1>2. r.session \in 1..MaxSignIns
  BY <1>1 DEF Request, Session
<1> QED
  BY <1>1, <1>2, PushAssumption DEF Request

\* A row that is switched off keeps its token.
LEMMA SwitchedOff ==
  ASSUME Rows, NEW u \in User, rows[u] # None, rows' = [rows EXCEPT ![u].active = FALSE],
         job' \in {job, None}
  PROVE  Rows'
<1> USE DEF Rows, RowTypes
<1>1. rows[u] \in Row
  OBVIOUS
<1>2. \A v \in User \ {u} : rows'[v] = rows[v]
  OBVIOUS
<1>3. rows'[u] = [rows[u] EXCEPT !.active = FALSE]
  OBVIOUS
<1>4. rows'[u] \in Row /\ rows'[u].token = rows[u].token
  BY <1>1, <1>3 DEF Row
<1>5. rows'[u] # None
  BY <1>4, PushAssumption
<1>6. rows' \in [User -> Row \cup {None}]
  BY <1>3, <1>4
<1>7. \A v, w \in User :
        rows'[v] # None /\ rows'[w] # None /\ rows'[v].token = rows'[w].token => v = w
  BY <1>2, <1>4
<1>8. job' \in Job \cup {None}
  OBVIOUS
<1>9. JobInv'
  BY <1>2, <1>5, <1>8 DEF JobInv, Job
<1> QED
  BY <1>6, <1>7, <1>8, <1>9

LEMMA RemoveStep ==
  ASSUME IInv, NEW r \in requests, Remove(r)
  PROVE  IInv'
<1>1. UNCHANGED <<live, token, permitted, store, launch, leaving, started,
                  firebase, listening, leaked, job, exposed, excused, signIns, events>>
      /\ requests' \subseteq requests
  BY DEF Remove, phone, history, bounds
<1>2. GoesOn
  BY AnswerGoesOn DEF Remove
<1>3. SessionTypes /\ PhoneTypes /\ Rows /\ Requests
  BY Parts
<1>4. SessionTypes' /\ PhoneTypes' /\ Requests'
  BY <1>1, <1>3, SessionsRest, RequestsRest, PhoneStep, PhoneMembers
<1>5. Rows'
  <2> DEFINE u == UserOf[r.session]
  <2>1. u \in User
    BY OwnerIsUser
  <2>2. rows' = IF rows[u] = None THEN rows ELSE [rows EXCEPT ![u].active = FALSE]
    BY DEF Remove
  <2> HIDE DEF u
  <2>3. CASE rows[u] = None
    BY <1>1, <1>3, <2>2, <2>3, RowsRest
  <2>4. CASE rows[u] # None
    BY <1>1, <1>3, <2>1, <2>2, <2>4, SwitchedOff
  <2> QED
    BY <2>3, <2>4
<1>6. SilenceInv'
  BY <1>1, <1>2, SilenceLasts DEF GoesOn
<1> QED
  BY <1>2, <1>4, <1>5, <1>6, PartsAgain DEF GoesOn

LEMMA FindStep ==
  ASSUME IInv, NEW r \in requests, Find(r)
  PROVE  IInv'
<1>1. UNCHANGED <<rows, live, token, permitted, store, launch, leaving, started,
                  firebase, listening, leaked, calls, job, exposed, excused, signIns, events>>
  BY DEF Find, phone, history, bounds
<1>2. GoesOn
  BY <1>1, RestGoesOn
<1>3. SessionTypes /\ PhoneTypes /\ Rows /\ Requests
  BY Parts
<1>4. SessionTypes' /\ PhoneTypes' /\ Rows'
  BY <1>1, <1>3, SessionsRest, RowsRest, PhoneStep, PhoneMembers
<1>5. Requests'
  <2> DEFINE h == Holders(r.token) \ {UserOf[r.session]}
  <2> DEFINE q == [r EXCEPT !.at = "found", !.found = h]
  <2>1. h \subseteq User
    BY DEF Holders
  <2> HIDE DEF h
  <2>2. r \in Request
    BY <1>3 DEF Requests
  <2>3. q \in Request /\ q.op = r.op /\ q.token = r.token
    BY <2>1, <2>2 DEF Request
  <2>4. requests' = (requests \ {r}) \cup {q} /\ r.op = "register"
    BY DEF Find, h
  <2> HIDE DEF q
  <2> QED
    BY <1>3, <2>3, <2>4 DEF Requests, RequestInv
<1>6. SilenceInv'
  BY <1>1, <1>2, SilenceLasts DEF GoesOn
<1> QED
  BY <1>2, <1>4, <1>5, <1>6, PartsAgain DEF GoesOn

\* The index lets no second row with the token of another in.
LEMMA RegisterStep ==
  ASSUME IInv, NEW r \in requests, Register(r)
  PROVE  IInv'
<1>1. UNCHANGED <<live, token, permitted, store, launch, leaving, started,
                  firebase, listening, leaked, exposed, excused, signIns, events>>
      /\ requests' \subseteq requests
  BY DEF Register, phone, history, bounds
<1>2. GoesOn
  BY AnswerGoesOn DEF Register
<1>3. SessionTypes /\ PhoneTypes /\ Rows /\ Requests
  BY Parts
<1>4. SessionTypes' /\ PhoneTypes' /\ Requests'
  BY <1>1, <1>3, SessionsRest, RequestsRest, PhoneStep, PhoneMembers
<1>5. Rows'
  <2> DEFINE u == UserOf[r.session]
             t == r.token
             gone == r.found \cap Holders(t)
  <2>1. u \in User /\ t \in Token
    <3>1. r \in requests /\ r.at = "found"
      BY DEF Register
    <3>2. t # 0
      BY <1>3, <3>1 DEF Requests, RequestInv
    <3> QED
      BY <3>2, OwnerIsUser
  <2>2. CASE Conflict(r)
    BY <1>3, <2>2, RowsRest DEF Register
  <2>3. CASE ~Conflict(r)
    <3>1. /\ rows' = [v \in User |-> IF v = u THEN [token |-> t, active |-> TRUE]
                                     ELSE IF v \in gone THEN None ELSE rows[v]]
          /\ job' = IF job # None /\ job.user \in gone THEN [job EXCEPT !.same = FALSE] ELSE job
      BY <2>3 DEF Register
    <3>2. \A v \in User : rows[v] # None /\ rows[v].token = t => v = u \/ v \in gone
      BY <2>3 DEF Conflict, Holders
    <3>3. [token |-> t, active |-> TRUE] \in Row
      BY <2>1 DEF Row
    <3> HIDE DEF gone, t, u
    <3>4. rows' \in [User -> Row \cup {None}]
      BY <1>3, <3>1, <3>3 DEF Rows, RowTypes
    <3>5. \A v \in User : rows'[v] = IF v = u THEN [token |-> t, active |-> TRUE]
                                     ELSE IF v \in gone THEN None ELSE rows[v]
      BY <3>1
    <3>6. \A v, w \in User :
            rows'[v] # None /\ rows'[w] # None /\ rows'[v].token = rows'[w].token => v = w
      <4> SUFFICES ASSUME NEW v \in User, NEW w \in User, rows'[v] # None, rows'[w] # None,
                          rows'[v].token = rows'[w].token
                   PROVE  v = w
        OBVIOUS
      <4>1. rows'[u].token = t
        BY <2>1, <3>5
      <4>2. CASE v # u /\ w # u
        <5>1. rows'[v] = rows[v] /\ rows'[w] = rows[w]
          BY <3>5, <4>2
        <5> QED
          BY <1>3, <5>1 DEF Rows, RowTypes
      <4>3. CASE v = u /\ w # u
        BY <3>2, <3>5, <4>1, <4>3
      <4>4. CASE v # u /\ w = u
        BY <3>2, <3>5, <4>1, <4>4
      <4> QED
        BY <4>2, <4>3, <4>4
    <3>7. job' \in Job \cup {None} /\ JobInv'
      <4>1. CASE job = None
        BY <3>1, <4>1 DEF JobInv
      <4>2. CASE job # None
        <5>0. job \in Job
          BY <1>3, <4>2 DEF Rows, RowTypes
        <5>1. CASE job.user \in gone
          <6>1. job' = [job EXCEPT !.same = FALSE]
            BY <3>1, <4>2, <5>1
          <6>2. job' \in Job /\ job'.same = FALSE
            BY <5>0, <6>1 DEF Job
          <6> QED
            BY <6>2 DEF JobInv
        <5>2. CASE job.user \notin gone
          <6>1. job' = job
            BY <3>1, <5>2
          <6>2. job.user \in User
            BY <5>0 DEF Job
          <6>3. [token |-> t, active |-> TRUE] # None
            BY <3>3, PushAssumption
          <6>4. JobInv'
            BY <1>3, <3>5, <5>2, <6>1, <6>2, <6>3 DEF JobInv, Rows
          <6> QED
            BY <5>0, <6>1, <6>4
        <5> QED
          BY <5>1, <5>2
      <4> QED
        BY <4>1, <4>2
    <3> QED
      BY <3>4, <3>6, <3>7 DEF Rows, RowTypes
  <2> QED
    BY <2>2, <2>3
<1>6. SilenceInv'
  BY <1>1, <1>2, SilenceLasts DEF GoesOn
<1> QED
  BY <1>2, <1>4, <1>5, <1>6, PartsAgain DEF GoesOn

\* No answer: the request is forgotten or goes on without anybody who awaits it.
LEMMA Orphaned ==
  ASSUME Requests, NEW R, R \subseteq requests,
         requests' \subseteq requests \cup {[r EXCEPT !.by = None] : r \in R}
  PROVE  Requests'
<1> DEFINE o(r) == [r EXCEPT !.by = None]
<1>1. ASSUME NEW r \in requests
      PROVE  o(r) \in Request /\ o(r).op = r.op /\ o(r).token = r.token /\ o(r).at = r.at
  BY DEF Requests, Request
<1>2. \A q \in requests' : q \in requests \/ \E r \in requests : q = o(r)
  OBVIOUS
<1> HIDE DEF o
<1>3. requests' \subseteq Request
  BY <1>1, <1>2 DEF Requests
<1>4. RequestInv'
  <2> SUFFICES ASSUME NEW q \in requests'
               PROVE  /\ q.op = "register" => q.token # 0
                      /\ q.at = "found" => q.op = "register"
    BY DEF RequestInv
  <2>1. CASE q \in requests
    BY <2>1 DEF Requests, RequestInv
  <2>2. ASSUME NEW r \in requests, q = o(r)
        PROVE  /\ q.op = "register" => q.token # 0
               /\ q.at = "found" => q.op = "register"
    BY <2>2, <1>1 DEF Requests, RequestInv
  <2> QED
    BY <2>1, <2>2, <1>2
<1> QED
  BY <1>3, <1>4 DEF Requests

LEMMA LoseStep ==
  ASSUME IInv, NEW c \in Call, Lose(c)
  PROVE  IInv'
<1>1. UNCHANGED <<rows, live, token, permitted, store, launch, leaving, started,
                  firebase, listening, leaked, job, exposed, signIns>>
      /\ excused' = (excused \/ calls[c].kind # "disable") /\ Event
  BY DEF Lose, phone
<1>2. GoesOn
  BY RepliedGoesOn DEF Lose
<1>3. SessionTypes /\ PhoneTypes /\ Rows /\ Requests
  BY Parts
<1>4. Requests'
  <2> DEFINE mine == {r \in requests : r.by = c}
  <2>1. requests' \subseteq requests \cup {[r EXCEPT !.by = None] : r \in mine}
    BY DEF Lose
  <2> QED
    BY <1>3, <2>1, Orphaned
<1>5. excused' \in BOOLEAN
  BY <1>1
<1>6. SessionTypes' /\ PhoneTypes' /\ Rows'
  BY <1>1, <1>3, <1>5, SessionsRest, RowsRest, PhoneStep, PhoneMembers, EventCounts
<1>7. SilenceInv'
  BY <1>1, <1>2, SilenceLasts DEF GoesOn
<1> QED
  BY <1>2, <1>4, <1>6, <1>7, PartsAgain DEF GoesOn

LEMMA EndSessionStep ==
  ASSUME IInv, NEW s \in live, EndSession(s)
  PROVE  IInv'
<1>1. UNCHANGED <<rows, requests, token, permitted, store, launch, leaving, started, calls,
                  firebase, listening, leaked, job, exposed, excused, signIns, events>>
      /\ live' \subseteq live
  BY DEF EndSession, phone, history, bounds
<1>2. GoesOn
  BY <1>1, RestGoesOn
<1>3. SessionTypes /\ PhoneTypes /\ Rows /\ Requests
  BY Parts
<1>4. SessionTypes' /\ PhoneTypes' /\ Rows' /\ Requests'
  BY <1>1, <1>3, SessionsRest, RowsRest, RequestsRest, PhoneStep, PhoneMembers
<1>5. SilenceInv'
  BY <1>1, <1>2, SilenceLasts DEF GoesOn
<1> QED
  BY <1>2, <1>4, <1>5, PartsAgain DEF GoesOn

LEMMA ReadTargetsStep ==
  ASSUME IInv, NEW u \in User, ReadTargets(u)
  PROVE  IInv'
<1>1. UNCHANGED <<rows, live, requests, token, permitted, store, launch, leaving, started, calls,
                  firebase, listening, leaked, exposed, excused, signIns>> /\ Event
  BY DEF ReadTargets, serverVars, phone, history
<1>2. GoesOn
  BY <1>1, RestGoesOn
<1>3. SessionTypes /\ PhoneTypes /\ Rows /\ Requests
  BY Parts
<1>4. SessionTypes' /\ PhoneTypes' /\ Requests'
  BY <1>1, <1>3, SessionsRest, RequestsRest, PhoneStep, PhoneMembers, EventCounts
<1>5. Rows'
  <2>1. rows[u] \in Row /\ rows[u] # None
    BY <1>3 DEF ReadTargets, Rows, RowTypes
  <2>2. job' = [user |-> u, token |-> rows[u].token, same |-> TRUE]
    BY DEF ReadTargets
  <2>3. job' \in Job /\ job'.user = u
    BY <2>1, <2>2 DEF Row, Job
  <2> QED
    BY <1>1, <1>3, <2>1, <2>3 DEF Rows, RowTypes, JobInv
<1>6. SilenceInv'
  BY <1>1, <1>2, SilenceLasts DEF GoesOn
<1> QED
  BY <1>2, <1>4, <1>5, <1>6, PartsAgain DEF GoesOn

LEMMA DeliverStep ==
  ASSUME IInv, Deliver
  PROVE  IInv'
<1>1. UNCHANGED <<live, requests, token, permitted, store, launch, leaving, started, calls,
                  firebase, listening, leaked, exposed, signIns, events>>
      /\ job' = None /\ job # None
  BY DEF Deliver, phone, bounds
<1>2. GoesOn
  BY <1>1, RestGoesOn
<1>3. SessionTypes /\ PhoneTypes /\ Rows /\ Requests
  BY Parts
<1>4. excused' \in BOOLEAN /\ Rows'
  <2>1. CASE job.token # token /\ job.same
    <3>1. /\ rows' = [rows EXCEPT ![job.user].active = FALSE]
          /\ excused' = (excused \/ Reaches(job.user))
      BY <2>1 DEF Deliver
    <3>2. job.user \in User /\ rows[job.user] # None
      BY <1>1, <1>3, <2>1 DEF Rows, RowTypes, JobInv, Job
    <3>3. Rows'
      BY <1>1, <1>3, <3>1, <3>2, SwitchedOff
    <3> QED
      BY <3>1, <3>3
  <2>2. CASE ~(job.token # token /\ job.same)
    <3>1. UNCHANGED <<rows, excused>>
      BY <2>2 DEF Deliver
    <3> QED
      BY <1>1, <1>3, <3>1, PhoneMembers DEF Rows, RowTypes, JobInv
  <2> QED
    BY <2>1, <2>2
<1>5. SessionTypes' /\ PhoneTypes' /\ Requests'
  BY <1>1, <1>3, <1>4, SessionsRest, RequestsRest, PhoneStep, PhoneMembers
<1>6. SilenceInv'
  BY <1>1, <1>2, SilenceLasts DEF GoesOn
<1> QED
  BY <1>2, <1>4, <1>5, <1>6, PartsAgain DEF GoesOn

LEMMA RotateStep ==
  ASSUME IInv, Rotate
  PROVE  IInv'
<1>1. UNCHANGED <<rows, live, requests, permitted, store, launch, leaving, started, firebase,
                  listening, leaked, job, exposed, signIns>> /\ Event /\ token # 0
      /\ excused' = (excused \/ Registering) /\ token' = Fresh
  BY DEF Rotate, serverVars, phone
<1>2. Fresh \in Token /\ Fresh # 0
  BY FreshIsToken DEF Rotate
<1>3. CallTypes' /\ StepInv' /\ Steady
  <2> DEFINE F == IF Hears THEN {NextCall} ELSE {}
             new == Refreshed(Fresh)
  <2>1. F \subseteq FreeCalls
    BY NextIsFree DEF Rotate
  <2>2. calls' = Begin(new, F)
    BY DEF Rotate
  <2>3. new \in CallState /\ new.kind = "refresh" /\ new.pc = "read" /\ new.token # 0
    BY <1>2, RefreshedTypes
  <2> HIDE DEF F, new
  <2> QED
    BY <2>1, <2>2, <2>3, BeginGoesOn
<1>4. SessionTypes /\ PhoneTypes /\ Rows /\ Requests
  BY Parts
<1>5. excused' \in BOOLEAN
  BY <1>1
<1>6. SessionTypes' /\ PhoneTypes' /\ Rows' /\ Requests'
  BY <1>1, <1>2, <1>4, <1>5, SessionsRest, RowsRest, RequestsRest, PhoneStep, PhoneMembers,
     EventCounts
<1>7. SilenceInv'
  BY <1>1, <1>3, SilenceLasts
<1> QED
  BY <1>3, <1>6, <1>7, PartsAgain

-----------------------------------------------------------------------------
(* The launch states. *)

LEMMA BeginTypes ==
  /\ Starting \in CallState /\ Starting.kind = "start" /\ Starting.pc = "setup"
  /\ Disabling \in CallState /\ Disabling.kind = "disable" /\ Disabling.pc = "read"
<1>1. Idle \in CallState
  BY DEF Idle, CallState
<1>2. Starting \in CallState /\ Starting.kind = "start" /\ Starting.pc = "setup"
  BY <1>1 DEF Starting, CallState
<1>3. Disabling \in CallState /\ Disabling.kind = "disable" /\ Disabling.pc = "read"
  BY <1>1 DEF Disabling, CallState
<1> QED
  BY <1>2, <1>3

LEMMA CheckStep ==
  ASSUME IInv, Check
  PROVE  IInv'
<1>1. UNCHANGED <<rows, live, requests, token, permitted, store, leaving, firebase, listening,
                  leaked, job, exposed, signIns>>
      /\ launch # "out" /\ FreeCalls # {}
  BY DEF Check, serverVars
<1>2. NextCall \in FreeCalls /\ {NextCall} \subseteq FreeCalls /\ NextCall \in Call
  BY <1>1, NextIsFree DEF FreeCalls, Running
<1>3. SessionTypes /\ PhoneTypes /\ Rows /\ Requests
  BY Parts
<1>4. Rows' /\ Requests'
  BY <1>1, <1>3, RowsRest, RequestsRest
<1>5. events' \in 0..MaxEvents /\ started' \in BOOLEAN /\ excused' \in BOOLEAN
  <2>1. CASE ShowActor /\ UNCHANGED events
    BY <1>3, <2>1, PhoneMembers DEF ShowActor, Busy
  <2>2. CASE Event /\ ShowNobody("denied")
    BY <1>3, <2>2, PhoneMembers, EventCounts DEF ShowNobody
  <2>3. CASE UNCHANGED events /\ ShowNobody("out")
    BY <1>3, <2>3, PhoneMembers DEF ShowNobody
  <2> QED
    BY <2>1, <2>2, <2>3 DEF Check
<1>6. PhoneTypes'
  BY <1>1, <1>3, <1>5, PhoneStep, PhoneMembers
<1>7. CASE ShowActor
  <2>1. SessionTypes' /\ launch' = "in"
    BY <1>1, <1>3, <1>7 DEF SessionTypes, ShowActor
  <2>2. CallTypes' /\ StepInv'
    <3>1. CASE started
      BY <1>7, <3>1, RestGoesOn DEF ShowActor, GoesOn
    <3>2. CASE ~started
      BY <1>2, <1>7, <3>2, BeginGoesOn, BeginTypes DEF ShowActor
    <3> QED
      BY <3>1, <3>2
  <2>3. SilenceInv'
    BY <2>1 DEF SilenceInv
  <2> QED
    BY <1>4, <1>6, <2>1, <2>2, <2>3, PartsAgain
<1>8. ASSUME NEW state \in {"denied", "out"}, ShowNobody(state) PROVE IInv'
  <2>1. calls' = Begin(Disabling, {NextCall}) /\ launch' = state
    BY <1>8 DEF ShowNobody
  <2>2. CallTypes' /\ StepInv' /\ calls'[NextCall] = Disabling
    BY <1>2, <2>1, BeginGoesOn, BeginTypes
  <2>3. SilenceInv'
    BY <1>2, <2>2, BeginTypes DEF SilenceInv
  <2>4. SessionTypes'
    BY <1>1, <1>3, <2>1 DEF SessionTypes
  <2> QED
    BY <1>4, <1>6, <2>2, <2>3, <2>4, PartsAgain
<1> QED
  BY <1>7, <1>8 DEF Check

LEMMA ClearStep ==
  ASSUME IInv, Clear
  PROVE  IInv'
<1>1. UNCHANGED <<rows, live, requests, token, permitted, launch, leaving, started, calls,
                  firebase, listening, leaked, job, exposed, excused, signIns, events>>
      /\ store' = None
  BY DEF Clear, serverVars, phone, history, bounds
<1>2. GoesOn
  BY <1>1, RestGoesOn
<1>3. SessionTypes /\ PhoneTypes /\ Rows /\ Requests
  BY Parts
<1>4. PhoneTypes' /\ Rows' /\ Requests'
  BY <1>1, <1>3, RowsRest, RequestsRest, PhoneStep, PhoneMembers
<1>5. SessionTypes'
  BY <1>1, <1>3 DEF SessionTypes
<1>6. SilenceInv'
  BY <1>1, <1>2, SilenceLasts DEF GoesOn
<1> QED
  BY <1>2, <1>4, <1>5, <1>6, PartsAgain DEF GoesOn

LEMMA SignInStep ==
  ASSUME IInv, SignIn
  PROVE  IInv'
<1>1. UNCHANGED <<rows, requests, token, permitted, leaving, started, firebase, listening,
                  leaked, calls, job, exposed, excused>>
      /\ launch' = "checking" /\ store' = signIns + 1 /\ signIns' = signIns + 1
      /\ live' = live \cup {signIns + 1} /\ signIns < MaxSignIns
  BY DEF SignIn, phone, history
<1>2. GoesOn
  BY <1>1, RestGoesOn
<1>3. SessionTypes /\ PhoneTypes /\ Rows /\ Requests
  BY Parts
<1>4. events' \in 0..MaxEvents
  BY <1>3, PhoneMembers, EventCounts DEF SignIn
<1>5. PhoneTypes' /\ Rows' /\ Requests'
  BY <1>1, <1>3, <1>4, RowsRest, RequestsRest, PhoneStep, PhoneMembers
<1>6. SessionTypes'
  <2>1. signIns \in 0..MaxSignIns /\ MaxSignIns \in Nat
    BY <1>3, PushAssumption DEF SessionTypes
  <2>2. signIns + 1 \in Session /\ signIns + 1 \in 0..MaxSignIns
    BY <1>1, <2>1 DEF Session
  <2> QED
    BY <1>1, <1>3, <2>2 DEF SessionTypes
<1>7. SilenceInv'
  BY <1>1 DEF SilenceInv
<1> QED
  BY <1>2, <1>5, <1>6, <1>7, PartsAgain DEF GoesOn

\* Two calls are free, so a sign-out runs two disable().
LEMMA TwoAreFree ==
  ASSUME Cardinality(FreeCalls) >= 2
  PROVE  NextTwo \subseteq FreeCalls /\ NextCall \in NextTwo
<1>1. FreeCalls # {}
  BY FS_EmptySet
<1>2. NextCall \in FreeCalls
  BY <1>1, NextIsFree
<1>3. FreeCalls \ {NextCall} # {}
  <2> SUFFICES ASSUME FreeCalls = {NextCall} PROVE FALSE
    BY <1>2
  <2>1. Cardinality({NextCall}) = 1
    BY FS_Singleton
  <2> QED
    BY <2>1
<1> QED
  BY <1>2, <1>3 DEF NextTwo

LEMMA SignOutStep ==
  ASSUME IInv, SignOut
  PROVE  IInv'
<1>1. UNCHANGED <<rows, live, requests, token, permitted, store, started, firebase, listening,
                  leaked, job, exposed, excused, signIns, events>>
      /\ launch' = "out" /\ leaving' = leaving \cup ({store} \ {None})
      /\ calls' = Begin(Disabling, NextTwo)
  BY DEF SignOut, serverVars, phone, history, bounds
<1>2. NextTwo \subseteq FreeCalls /\ NextCall \in NextTwo
  BY TwoAreFree DEF SignOut
<1>3. SessionTypes /\ PhoneTypes /\ Rows /\ Requests
  BY Parts
<1>4. PhoneTypes' /\ Rows' /\ Requests'
  BY <1>1, <1>3, RowsRest, RequestsRest, PhoneStep, PhoneMembers
<1>5. SessionTypes'
  BY <1>1, <1>3 DEF SessionTypes
<1>6. CallTypes' /\ StepInv' /\ calls'[NextCall] = Disabling /\ NextCall \in Call
  <2>1. NextCall \in Call
    BY <1>2 DEF FreeCalls, Running
  <2> QED
    BY <1>1, <1>2, <2>1, BeginGoesOn, BeginTypes
<1>7. SilenceInv'
  BY <1>6, BeginTypes DEF SilenceInv
<1> QED
  BY <1>4, <1>5, <1>6, <1>7, PartsAgain

LEMMA LeaveStep ==
  ASSUME IInv, NEW s \in leaving, Leave(s)
  PROVE  IInv'
<1>1. UNCHANGED <<rows, live, requests, token, permitted, launch, started, firebase, listening,
                  leaked, calls, job, exposed, excused, signIns>>
      /\ leaving' = leaving \ {s} /\ store' = IF store = s THEN None ELSE store
  BY DEF Leave, serverVars, phone, history
<1>2. GoesOn
  BY <1>1, RestGoesOn
<1>3. SessionTypes /\ PhoneTypes /\ Rows /\ Requests
  BY Parts
<1>4. events' \in 0..MaxEvents
  BY <1>3, PhoneMembers, EventCounts DEF Leave
<1>5. PhoneTypes' /\ Rows' /\ Requests'
  BY <1>1, <1>3, <1>4, RowsRest, RequestsRest, PhoneStep, PhoneMembers
<1>6. SessionTypes'
  BY <1>1, <1>3 DEF SessionTypes
<1>7. SilenceInv'
  BY <1>1, <1>2, SilenceLasts DEF GoesOn
<1> QED
  BY <1>2, <1>5, <1>6, <1>7, PartsAgain DEF GoesOn

LEMMA KillStep ==
  ASSUME IInv, Kill
  PROVE  IInv'
<1>1. UNCHANGED <<rows, live, token, permitted, store, job, exposed, excused, signIns>>
      /\ launch' = "checking" /\ leaving' = {} /\ Event
      /\ started' = FALSE /\ firebase' = FALSE /\ listening' = FALSE /\ leaked' = FALSE
      /\ calls' = [c \in Call |-> Idle]
      /\ requests' = {[r EXCEPT !.by = None] : r \in requests}
  BY DEF Kill, history
<1>2. SessionTypes /\ PhoneTypes /\ Rows /\ Requests
  BY Parts
<1>3. PhoneTypes' /\ Rows' /\ Requests'
  BY <1>1, <1>2, RowsRest, Orphaned, PhoneStep, PhoneMembers, EventCounts
<1>4. SessionTypes'
  BY <1>1, <1>2 DEF SessionTypes
<1>5. CallTypes' /\ StepInv'
  <2>1. Idle \in CallState /\ Idle.pc = "idle"
    BY DEF Idle, CallState
  <2>2. CallTypes'
    BY <1>1, <2>1 DEF CallTypes
  <2> QED
    BY <1>1, <2>1, <2>2 DEF StepInv
<1>6. SilenceInv'
  BY <1>1 DEF SilenceInv
<1> QED
  BY <1>3, <1>4, <1>5, <1>6, PartsAgain

LEMMA IInvStep == IInv /\ [Next]_vars => IInv'
<1> SUFFICES ASSUME IInv, [Next]_vars PROVE IInv'
  OBVIOUS
<1>1. ASSUME NEW c \in Call, Advance(c) PROVE IInv'
  BY <1>1, SetUpStep, GetTokenStep, SendStep, ListenStep, StartFailedStep, DeleteTokenStep
     DEF Advance
<1>2. ASSUME NEW c \in Call, FirebaseFails(c) \/ NoToken(c) \/ Lose(c) PROVE IInv'
  BY <1>2, FirebaseFailsStep, LoseStep
<1>3. ASSUME NEW r \in requests, Serve(r) PROVE IInv'
  BY <1>3, RefuseStep, RemoveStep, FindStep, RegisterStep DEF Serve
<1>4. CASE \E u \in User : ReadTargets(u)
  BY <1>4, ReadTargetsStep
<1>5. CASE \E s \in live : EndSession(s)
  BY <1>5, EndSessionStep
<1>6. CASE \E s \in leaving : Leave(s)
  BY <1>6, LeaveStep
<1>7. CASE Allow \/ Deliver \/ Rotate \/ Clear \/ Check \/ SignIn \/ SignOut \/ Kill
  BY <1>7, AllowStep, DeliverStep, RotateStep, ClearStep, CheckStep, SignInStep, SignOutStep, KillStep
<1>8. CASE UNCHANGED vars
  BY <1>8 DEF IInv, TypeOK, StepInv, RequestInv, JobInv, SilenceInv,
     vars, serverVars, phone, history, bounds
<1> QED
  BY <1>1, <1>2, <1>3, <1>4, <1>5, <1>6, <1>7, <1>8 DEF Next

\* The inductive invariant holds in every reachable state.
THEOREM IInvHolds == Spec => []IInv
BY InitHolds, IInvStep, PTL DEF Spec

\* Every variable keeps its type; in particular a push token has one owner, whatever
\* registrations and removals overlap at the server, although the deletion of
\* register() misses the rows that are still to be committed
\* (device-installation.service.ts 28-65).
THEOREM TypesHold == Spec => []TypeOK
<1>1. IInv => TypeOK
  BY DEF IInv
<1> QED
  BY <1>1, IInvHolds, PTL

\* After a sign-out nobody is reached, unless Firebase kept the token or a start()
\* outlived the last disable() (push_notification_coordinator.dart 75).
THEOREM SilenceHolds == Spec => []SignOutSilences
<1>1. IInv => SignOutSilences
  <2> SUFFICES ASSUME IInv, Settled, ~exposed, NEW u \in User, Reaches(u) PROVE FALSE
    BY DEF SignOutSilences
  <2>1. \A c \in Call : calls[c].kind # "disable"
    BY DEF Settled, Busy, Running
  <2>2. token = 0
    BY <2>1 DEF IInv, SilenceInv, Settled
  <2>3. rows[u].token \in Token
    BY DEF Reaches, IInv, TypeOK, Row
  <2> QED
    BY <2>2, <2>3, PushAssumption DEF Reaches, Token
<1> QED
  BY <1>1, IInvHolds, PTL
=============================================================================
