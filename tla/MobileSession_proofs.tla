-------------------------- MODULE MobileSession_proofs --------------------------
(***************************************************************************)
(* Proofs about MobileSession, for any sessions and flows and any number   *)
(* of renewals and events.                                                 *)
(***************************************************************************)
EXTENDS MobileSession, TLAPS

-----------------------------------------------------------------------------
(* The strengthening. *)

\* The flow may still store credentials and its outcome is still wanted.
Active(f) == flow[f].kind \in {"check", "signIn"} /\ ~Cancelled(f)

On(c, s)     == c # None /\ c.session = s
SameOf(c, d) == c # None /\ d # None => c.session = d.session

\* A record of a flow says nothing that its call has not reached.
Shape(r) ==
  /\ r.kind = "none" => r.pc = "idle"
  /\ r.kind = "check" => r.pc \in {"read", "me", "renew", "joined", "kept", "done"}
  /\ r.kind = "signIn" => r.pc \in {"sign", "wrote", "me", "renew", "joined", "kept", "done"}
  /\ r.kind = "signOut" => r.pc \in {"read", "revoke", "cleared"}
  /\ r.pc \in {"me", "renew", "joined", "kept", "wrote", "revoke"} => r.cred # None
  /\ r.pc = "joined" => r.via # None
  /\ r.pc = "done" /\ r.cred = None => r.kind = "check" /\ r.outcome = "NoStored"
  /\ r.pc = "sign" => r.cred = None
  /\ r.pc = "sign" /\ r.reply = "ok" => r.got # None /\ r.got.token = 0
  /\ r.pc = "kept" => r.reply = "ok"
  /\ r.pc \in {"renew", "kept"} /\ r.reply = "ok" => r.got # None /\ r.got.session = r.cred.session
  /\ r.pc \notin {"sign", "renew", "kept"} => r.got = None

ShapeInv == \A f \in Flow : Shape(flow[f])

\* The renewals that reach the server stay within the bound.
BoundInv ==
  /\ \A f \in Flow : LET r == flow[f] IN
       /\ \/ r.pc = "renew" /\ r.reply = "none"
          \/ r.pc = "me" /\ r.reply = "refused" /\ r.again
       /\ server[r.cred.session] = "open"
       => r.cred.token < MaxRenewals
  /\ \A c \in strays :
       /\ server[c.session] = "open" => c.token < MaxRenewals
       /\ c.session \in abandoned

\* What the screens allow: at most one active flow.
ScreenInv ==
  /\ current # None => flow[current].kind \in {"check", "signOut"}
  /\ ~started => launch = "checking" /\ \A f \in Flow : flow[f].kind = "none"
  /\ launch = "out" => ~InProgress
  /\ SigningIn => launch = "out"
  /\ \A f, g \in Flow : IsSignIn(f) /\ ~flow[f].closed /\ IsSignIn(g) /\ ~flow[g].closed => f = g
  /\ \A f \in Flow : Active(f) => flow[f].same
  /\ \A f \in Flow : Waiting(f) /\ flow[f].pc # "revoke" => Active(f)

\* The renewal that others may join, and those who wait for it.
JoinInv ==
  /\ \A f \in Flow : flow[f].pc \in {"renew", "kept"} /\ flow[f].same <=> flight = f
  /\ \A f \in Flow : Active(f) /\ flow[f].pc = "joined" => flight = flow[f].via

\* As long as it may succeed it is a renewal for whoever is active.
SharedInv ==
  flight # None /\ flow[flight].reply \in {"none", "ok"} =>
    /\ SameOf(store, flow[flight].cred)
    /\ flow[flight].cred.session \notin left
    /\ \A g \in Flow \ {flight} : Active(g) =>
         flow[g].kind = "check" /\ SameOf(flow[g].cred, flow[flight].cred)

\* What is shown, stored and asked for belongs to one session.
ShownInv ==
  /\ \A f \in Flow : Active(f) =>
       /\ SameOf(flow[f].cred, store)
       /\ launch = "authenticated" /\ flow[f].cred # None => flow[f].cred.session = who
  /\ ShownIsStored

\* A session the user has signed out of.
LeftInv ==
  /\ \A f \in Flow : Active(f) /\ flow[f].cred # None => flow[f].cred.session \notin left
  /\ who \notin left
  /\ store # None /\ store.session \in left =>
       /\ launch = "out" /\ ~SigningIn
       /\ \E f \in Leaving : flow[f].cred.session = store.session /\ flow[f].same

\* Somebody other than the flows outside F has come upon session s.
Seen(s, F) ==
  \/ renewals[s] # 0 \/ s \in left \/ On(store, s)
  \/ \E g \in F : On(flow[g].cred, s) \/ On(flow[g].got, s)
  \/ \E c \in strays : c.session = s

\* A session that is not open yet is known nowhere, one whose sign-in is answered
\* and still awaited only to the flow that awaits it.
UnopenedInv == \A s \in Session : server[s] = "none" => ~Seen(s, Flow)
SignedInTo(f) == Active(f) /\ flow[f].pc = "sign" /\ flow[f].reply = "ok"
FreshInv    == \A f \in Flow : SignedInTo(f) => ~Seen(flow[f].got.session, Flow \ {f})

\* Sessions whose tokens the application has not lost sight of.
Known(s)      == server[s] = "open" /\ s \notin abandoned
\* The server has renewed, and the answer is not read yet.
Unread(h, s)  == flow[h].pc = "renew" /\ flow[h].reply = "ok" /\ flow[h].cred.session = s
UpToDate(c)   == c.token = renewals[c.session] \/ \E h \in Flow : Unread(h, c.session)
MayRenew(f)   == flow[f].pc \in {"read", "wrote"} \/ (flow[f].pc = "me" /\ flow[f].again)

TokenInv ==
  \A s \in Session : Known(s) =>
    /\ On(store, s) => UpToDate(store)
    /\ \A f \in Flow : Active(f) /\ On(flow[f].cred, s) =>
         /\ MayRenew(f) => UpToDate(flow[f].cred)
         /\ Waiting(f) /\ flow[f].pc = "renew" => flow[f].cred.token = renewals[s]
         /\ Unread(f, s) => flow[f].got.token = renewals[s]
    /\ \A h \in Flow : Unread(h, s) /\ ~flow[h].same =>
         /\ \A f \in Flow : Active(f) => ~On(flow[f].cred, s)
         /\ On(store, s) => launch = "out" /\ \A f \in Flow : Active(f) => flow[f].pc = "sign"

IInv ==
  /\ TypeOK /\ ShapeInv /\ BoundInv /\ ScreenInv /\ JoinInv /\ SharedInv
  /\ ShownInv /\ LeftInv /\ UnopenedInv /\ FreshInv /\ TokenInv /\ OwnReuse

-----------------------------------------------------------------------------
(* Flows as records. *)

LEMMA IdleIs ==
  /\ Idle \in FlowState
  /\ Idle.kind = "none" /\ Idle.pc = "idle" /\ Idle.cred = None /\ Idle.same /\ ~Idle.closed
  /\ Idle.reply = "none" /\ Idle.got = None /\ Idle.via = None /\ Idle.again /\ ~Idle.background
BY DEF Idle, FlowState, Calls, Outcome

LEMMA FieldsOf ==
  ASSUME NEW r \in FlowState
  PROVE  /\ r.kind \in {"none", "check", "signIn", "signOut"}
         /\ r.pc \in {"idle", "read", "joined", "kept", "wrote", "done", "cleared"} \cup Calls
         /\ r.cred \in Credentials \cup {None} /\ r.got \in Credentials \cup {None}
         /\ r.again \in BOOLEAN /\ r.background \in BOOLEAN
         /\ r.closed \in BOOLEAN /\ r.same \in BOOLEAN
         /\ r.reply \in {"none", "ok", "refused", "denied", "failed", "cancelled"}
         /\ r.via \in Flow \cup {None} /\ r.outcome \in Outcome
BY DEF FlowState

LEMMA DoneIs ==
  ASSUME NEW r \in FlowState, NEW o \in Outcome
  PROVE  /\ Done(r, o) \in FlowState
         /\ Done(r, o).kind = r.kind /\ Done(r, o).pc = "done" /\ Done(r, o).cred = r.cred
         /\ Done(r, o).same /\ Done(r, o).closed = r.closed /\ Done(r, o).reply = "none"
         /\ Done(r, o).got = None /\ Done(r, o).via = None /\ Done(r, o).outcome = o
<1> DEFINE
     q1 == [Idle EXCEPT !.kind = r.kind]
     q2 == [q1 EXCEPT !.pc = "done"]
     q3 == [q2 EXCEPT !.cred = r.cred]
     q4 == [q3 EXCEPT !.background = r.background]
     q5 == [q4 EXCEPT !.closed = r.closed]
     q6 == [q5 EXCEPT !.outcome = o]
<1> HIDE DEF q1, q2, q3, q4, q5, q6
<1>1. q1 \in FlowState
  BY IdleIs, FieldsOf DEF q1, FlowState
<1>2. q2 \in FlowState
  BY <1>1, FieldsOf DEF q2, FlowState, Calls
<1>3. q3 \in FlowState
  BY <1>2, FieldsOf DEF q3, FlowState
<1>4. q4 \in FlowState
  BY <1>3, FieldsOf DEF q4, FlowState
<1>5. q5 \in FlowState
  BY <1>4, FieldsOf DEF q5, FlowState
<1>6. q6 \in FlowState
  BY <1>5, FieldsOf DEF q6, FlowState, Outcome
<1>7. Done(r, o) = q6
  BY DEF Done, q1, q2, q3, q4, q5, q6
<1> QED
  BY <1>6, <1>7, IdleIs DEF Done, FlowState

LEMMA SendIs ==
  ASSUME NEW r \in FlowState, NEW p \in Calls, NEW b \in BOOLEAN
  PROVE  /\ Send(r, p, b) \in FlowState
         /\ Send(r, p, b).kind = r.kind /\ Send(r, p, b).pc = p /\ Send(r, p, b).cred = r.cred
         /\ Send(r, p, b).same = r.same /\ Send(r, p, b).closed = r.closed
         /\ Send(r, p, b).reply = IF b THEN "cancelled" ELSE "none"
         /\ Send(r, p, b).got = None /\ Send(r, p, b).via = r.via
         /\ Send(r, p, b).again = r.again /\ Send(r, p, b).outcome = r.outcome
<1> DEFINE
     q1 == [r EXCEPT !.pc = p]
     q2 == [q1 EXCEPT !.reply = IF b THEN "cancelled" ELSE "none"]
     q3 == [q2 EXCEPT !.got = None]
<1> HIDE DEF q1, q2, q3
<1>1. q1 \in FlowState
  BY FieldsOf DEF q1, FlowState, Calls
<1>2. q2 \in FlowState
  BY <1>1, FieldsOf DEF q2, FlowState
<1>3. q3 \in FlowState
  BY <1>2, FieldsOf DEF q3, FlowState
<1>4. Send(r, p, b) = q3
  BY DEF Send, q1, q2, q3
<1> QED
  BY <1>3, <1>4 DEF Send, FlowState

LEMMA AskIs ==
  ASSUME NEW r \in FlowState, NEW c \in Credentials, NEW a \in BOOLEAN, NEW b \in BOOLEAN
  PROVE  /\ Ask(r, c, a, b) \in FlowState
         /\ Ask(r, c, a, b).kind = r.kind /\ Ask(r, c, a, b).pc = "me" /\ Ask(r, c, a, b).cred = c
         /\ Ask(r, c, a, b).same /\ Ask(r, c, a, b).closed = r.closed
         /\ Ask(r, c, a, b).reply = IF b THEN "cancelled" ELSE "none"
         /\ Ask(r, c, a, b).got = None /\ Ask(r, c, a, b).via = r.via
         /\ Ask(r, c, a, b).again = a /\ Ask(r, c, a, b).outcome = r.outcome
<1> DEFINE
     q1 == [r EXCEPT !.cred = c]
     q2 == [q1 EXCEPT !.again = a]
     q3 == [q2 EXCEPT !.same = TRUE]
     q4 == [q3 EXCEPT !.pc = "me"]
     q5 == [q4 EXCEPT !.reply = IF b THEN "cancelled" ELSE "none"]
     q6 == [q5 EXCEPT !.got = None]
<1> HIDE DEF q1, q2, q3, q4, q5, q6
<1>1. q1 \in FlowState
  BY FieldsOf DEF q1, FlowState
<1>2. q2 \in FlowState
  BY <1>1, FieldsOf DEF q2, FlowState
<1>3. q3 \in FlowState
  BY <1>2, FieldsOf DEF q3, FlowState
<1>4. q4 \in FlowState
  BY <1>3, FieldsOf DEF q4, FlowState, Calls
<1>5. q5 \in FlowState
  BY <1>4, FieldsOf DEF q5, FlowState
<1>6. q6 \in FlowState
  BY <1>5, FieldsOf DEF q6, FlowState
<1>7. Ask(r, c, a, b) = q6
  BY DEF Ask, Send, q1, q2, q3, q4, q5, q6
<1> QED
  BY <1>6, <1>7 DEF Ask, Send, FlowState

LEMMA CancelIs ==
  ASSUME NEW r \in FlowState
  PROVE  /\ CancelCall(r) \in FlowState
         /\ CancelCall(r).kind = r.kind /\ CancelCall(r).pc = r.pc /\ CancelCall(r).cred = r.cred
         /\ CancelCall(r).same = r.same /\ CancelCall(r).closed = r.closed
         /\ CancelCall(r).reply = IF r.pc \in Calls /\ r.reply = "none" THEN "cancelled" ELSE r.reply
         /\ CancelCall(r).got = r.got /\ CancelCall(r).via = r.via
         /\ CancelCall(r).again = r.again /\ CancelCall(r).outcome = r.outcome
<1> DEFINE q == [kind |-> r.kind, pc |-> r.pc, cred |-> r.cred, again |-> r.again,
                  background |-> r.background, closed |-> r.closed, same |-> r.same,
                  reply |-> IF r.pc \in Calls /\ r.reply = "none" THEN "cancelled" ELSE r.reply,
                  got |-> r.got, via |-> r.via, outcome |-> r.outcome]
<1>1. q \in FlowState
  BY FieldsOf DEF FlowState, Calls
<1>2. CancelCall(r) = q
  BY FieldsOf DEF CancelCall, FlowState
<1> QED
  BY <1>1, <1>2

LEMMA FlowIs ==
  ASSUME TypeOK, NEW f \in Flow
  PROVE  /\ flow[f] \in FlowState
         /\ flow[f].cred \in Credentials \cup {None} /\ flow[f].got \in Credentials \cup {None}
         /\ flow[f].same \in BOOLEAN /\ flow[f].closed \in BOOLEAN /\ flow[f].again \in BOOLEAN
         /\ flow[f].via \in Flow \cup {None} /\ flow[f].outcome \in Outcome
         /\ Cancelled(f) \in BOOLEAN /\ (flow[f].cred # None => flow[f].cred \in Credentials)
         /\ (flow[f].got # None => flow[f].got \in Credentials)
BY DEF TypeOK, FlowState, Cancelled

LEMMA NoneIs ==
  ASSUME NEW c \in Credentials
  PROVE  c # None /\ c.session \in Session /\ c.token \in 0..MaxRenewals
BY MobileAssumption DEF Credentials

-----------------------------------------------------------------------------
(* What most steps have in common. *)

\* An active flow was one before, with the same session, or it starts.
Wanted(f) ==
  Active(f)' =>
    \/ /\ Active(f) /\ flow'[f].kind = flow[f].kind
       /\ (flow'[f].cred = None <=> flow[f].cred = None)
       /\ (flow[f].cred # None => flow'[f].cred.session = flow[f].cred.session)
       /\ (MayRenew(f)' => MayRenew(f) /\ flow'[f].cred = flow[f].cred)
       /\ (flow[f].pc = "sign" => flow'[f].pc = "sign")
    \/ launch = "out" /\ flight' = None /\ flow'[f].pc = "sign" /\ flow'[f].cred = None
    \/ launch # "out" /\ flow'[f].kind = "check" /\ flow'[f].pc = "read" /\ flow'[f].cred = store

\* Nobody asks with the stored credentials.
Unused == launch = "out" /\ \A f \in Flow : Active(f) => flow[f].pc = "sign"

\* The answer to a renewal stays unread or is given up; a renewal begins when none is
\* under way.
RenewalStays(f) ==
  LET r == flow[f]
      q == flow'[f] IN
  /\ r.pc = "renew" /\ r.reply = "ok" =>
       \/ q.pc = "renew" /\ q.reply = "ok" /\ q.cred = r.cred /\ q.got = r.got
       \/ r.cred.session \in abandoned'
  /\ q.pc = "renew" /\ q.reply = "ok" =>
       /\ r.pc = "renew" /\ r.reply = "ok" /\ q.cred = r.cred /\ q.got = r.got
       /\ q.same \/ ~r.same \/ Unused'
  /\ q.pc = "renew" /\ q.reply = "none" =>
       /\ q.cred = r.cred
       /\ (r.pc = "renew" /\ r.reply = "none") \/ (MayRenew(f) /\ flight = None)

\* What is shown is shown already, or an active flow has read it and is the last one.
Shows ==
  \/ launch' = launch /\ who' = who
  \/ launch' # "authenticated" /\ who' \in {who, None}
  \/ \E f \in Flow : Active(f) /\ flow[f].cred # None /\ who' = flow[f].cred.session
       /\ \A g \in Flow : ~Active(g)'

LEMMA OneActive ==
  ASSUME TypeOK, ScreenInv, NEW f \in Flow, NEW g \in Flow, Active(f), Active(g)
  PROVE  /\ f = g
         /\ flow[f].kind \in {"check", "signIn"} /\ flow[f].same
         /\ (launch = "out" <=> flow[f].kind = "signIn")
<1>1. /\ flow[f].kind \in {"check", "signIn"} /\ flow[g].kind \in {"check", "signIn"}
      /\ (flow[f].kind = "check" => current = f) /\ (flow[g].kind = "check" => current = g)
      /\ (flow[f].kind = "signIn" => ~flow[f].closed) /\ (flow[g].kind = "signIn" => ~flow[g].closed)
  BY DEF Active, Cancelled
<1>2. f # None /\ g # None
  BY MobileAssumption
<1>3. flow[f].kind = "check" => launch # "out"
  BY <1>1, <1>2 DEF ScreenInv, InProgress
<1>4. flow[g].kind = "check" => launch # "out"
  BY <1>1, <1>2 DEF ScreenInv, InProgress
<1>5. flow[f].kind = "signIn" => launch = "out"
  BY <1>1 DEF ScreenInv, SigningIn, IsSignIn
<1>6. flow[g].kind = "signIn" => launch = "out"
  BY <1>1 DEF ScreenInv, SigningIn, IsSignIn
<1>7. flow[f].kind = "signIn" /\ flow[g].kind = "signIn" => f = g
  BY <1>1 DEF ScreenInv, IsSignIn
<1> QED
  BY <1>1, <1>3, <1>4, <1>5, <1>6, <1>7 DEF ScreenInv

LEMMA ShownStays ==
  ASSUME ShownInv, \A f \in Flow : Wanted(f), store' \in {store, None}, Shows
  PROVE  ShownInv'
<1>1. ASSUME NEW f \in Flow, Active(f)' PROVE SameOf(flow[f].cred, store)'
  BY <1>1 DEF Wanted, ShownInv, SameOf
<1>2. ASSUME launch' = "authenticated", NEW f \in Flow, Active(f)', flow'[f].cred # None
      PROVE  flow'[f].cred.session = who'
  <2>1. launch = "authenticated" /\ who' = who
    BY <1>2 DEF Shows
  <2> QED
    BY <1>2, <2>1 DEF Wanted, ShownInv, ShownIsStored
<1>3. ShownIsStored'
  BY DEF Shows, ShownInv, ShownIsStored, SameOf
<1> QED
  BY <1>1, <1>2, <1>3 DEF ShownInv

LEMMA LeftStays ==
  ASSUME LeftInv, \A f \in Flow : Wanted(f), store' \in {store, None}, Shows, left' = left,
         None \notin left,
         launch = "out" /\ ~SigningIn => launch' = "out" /\ ~SigningIn',
         store' = None \/ \A f \in Leaving : flow[f].same =>
           f \in Leaving' /\ flow'[f].same /\ flow'[f].cred = flow[f].cred
  PROVE  LeftInv'
<1>1. ASSUME NEW f \in Flow, Active(f)', flow'[f].cred # None PROVE flow'[f].cred.session \notin left'
  BY <1>1 DEF Wanted, LeftInv
<1>2. who' \notin left'
  BY DEF Shows, LeftInv
<1>3. ASSUME store' # None, store'.session \in left'
      PROVE  /\ launch' = "out" /\ ~SigningIn'
             /\ \E f \in Leaving' : flow'[f].cred.session = store'.session /\ flow'[f].same
  <2>1. PICK f \in Leaving : flow[f].cred.session = store.session /\ flow[f].same
    BY <1>3 DEF LeftInv
  <2> QED
    BY <1>3, <2>1 DEF LeftInv
<1> QED
  BY <1>1, <1>2, <1>3 DEF LeftInv

LEMMA TokenStays ==
  ASSUME TypeOK, TokenInv, UnopenedInv, JoinInv, ScreenInv, ShapeInv',
         \A f \in Flow : Wanted(f) /\ RenewalStays(f), store' \in {store, None},
         \A s \in Session : Known(s)' => server[s] = "none" \/ (Known(s) /\ renewals'[s] = renewals[s]),
         Unused => launch' = "out"
  PROVE  TokenInv'
<1> SUFFICES ASSUME NEW s \in Session, Known(s)'
             PROVE  /\ On(store, s)' => UpToDate(store)'
                    /\ \A f \in Flow : Active(f)' /\ On(flow[f].cred, s)' =>
                         /\ MayRenew(f)' => UpToDate(flow[f].cred)'
                         /\ Waiting(f)' /\ flow'[f].pc = "renew" => flow'[f].cred.token = renewals'[s]
                         /\ Unread(f, s)' => flow'[f].got.token = renewals'[s]
                    /\ \A h \in Flow : Unread(h, s)' /\ ~flow'[h].same =>
                         /\ \A f \in Flow : Active(f)' => ~On(flow[f].cred, s)'
                         /\ On(store, s)' => launch' = "out" /\ \A f \in Flow : Active(f)' => flow'[f].pc = "sign"
  BY DEF TokenInv
<1>1. CASE server[s] = "none"
  <2>1. /\ ~On(store, s)
        /\ \A f \in Flow : ~On(flow[f].cred, s)
    BY <1>1 DEF UnopenedInv, Seen
  <2>2. ~On(store, s)'
    BY <2>1 DEF On
  <2>3. ASSUME NEW f \in Flow, Active(f)' PROVE ~On(flow[f].cred, s)'
    BY <2>1, <2>3 DEF Wanted, On
  <2>4. ASSUME NEW h \in Flow, Unread(h, s)' PROVE FALSE
    <3>1. Unread(h, s) /\ flow[h].pc = "renew"
      BY <2>4 DEF RenewalStays, Unread
    <3>2. flow'[h].cred # None /\ flow'[h].cred = flow[h].cred
      BY <2>4 DEF RenewalStays, Unread, ShapeInv, Shape
    <3> QED
      BY <2>1, <3>1, <3>2 DEF Unread, On
  <2> QED
    BY <2>2, <2>3, <2>4
<1>2. CASE Known(s) /\ renewals'[s] = renewals[s]
  <2>1. ASSUME NEW c, c.session = s, UpToDate(c) PROVE UpToDate(c)'
    <3>1. CASE c.token = renewals[s]
      BY <1>2, <2>1, <3>1 DEF UpToDate
    <3>2. ASSUME NEW h \in Flow, Unread(h, s) PROVE Unread(h, s)'
      BY <3>2 DEF Unread, RenewalStays, Known
    <3> QED
      BY <2>1, <3>1, <3>2 DEF UpToDate
  <2>2. On(store, s)' => UpToDate(store)'
    BY <1>2, <2>1 DEF TokenInv, On
  <2>3. ASSUME NEW f \in Flow, Active(f)', flow'[f].cred # None,
               ~(Active(f) /\ flow[f].cred # None /\ flow'[f].cred.session = flow[f].cred.session)
        PROVE  launch # "out" /\ flow'[f].cred = store
    BY <2>3 DEF Wanted
  <2>4. ASSUME NEW f \in Flow, Active(f)', On(flow[f].cred, s)', MayRenew(f)' PROVE UpToDate(flow[f].cred)'
    <3>1. \/ MayRenew(f) /\ flow'[f].cred = flow[f].cred /\ Active(f)
          \/ flow'[f].cred = store
      BY <2>4 DEF Wanted, On
    <3>2. On(flow'[f].cred, s)
      BY <2>4 DEF On
    <3>3. UpToDate(flow'[f].cred)
      BY <1>2, <3>1, <3>2 DEF TokenInv, On
    <3> HIDE DEF UpToDate
    <3>4. flow'[f].cred.session = s
      BY <3>2 DEF On
    <3> QED
      BY <2>1, <3>3, <3>4 DEF UpToDate
  <2>5. ASSUME NEW h \in Flow, Unread(h, s)', ~flow'[h].same PROVE Unread(h, s) /\ (~flow[h].same \/ Unused')
    BY <2>5 DEF Unread, RenewalStays
  <2>6. ASSUME NEW h \in Flow, Unread(h, s), ~flow[h].same, NEW f \in Flow, Active(f)' PROVE ~On(flow[f].cred, s)'
    BY <1>2, <2>6 DEF TokenInv, Wanted, On
  <2>7. ASSUME NEW h \in Flow, Unread(h, s), ~flow[h].same, On(store, s)'
        PROVE  launch' = "out" /\ \A f \in Flow : Active(f)' => flow'[f].pc = "sign"
    <3>1. On(store, s)
      BY <2>7 DEF On
    <3>2. Unused
      BY <1>2, <2>7, <3>1 DEF TokenInv, Unused
    <3> QED
      BY <3>2 DEF Unused, Wanted
  <2>8. ASSUME Unused', NEW f \in Flow, Active(f)' PROVE ~On(flow[f].cred, s)'
    BY <2>8 DEF Unused, ShapeInv, Shape, On
  <2>9. ASSUME NEW f \in Flow, Active(f)', On(flow[f].cred, s)', Unread(f, s)'
        PROVE  flow'[f].got.token = renewals'[s]
    <3>1. Unread(f, s) /\ flow'[f].got = flow[f].got /\ flow'[f].cred = flow[f].cred
      BY <2>9 DEF Unread, RenewalStays
    <3>2. flow[f].cred # None /\ On(flow[f].cred, s)
      BY <2>9, <3>1 DEF On
    <3>3. CASE Active(f)
      BY <1>2, <3>1, <3>2, <3>3 DEF TokenInv
    <3>4. Active(f)
      BY <2>9, <3>2 DEF Wanted, Unread
    <3> QED
      BY <3>3, <3>4
  <2>10. ASSUME NEW f \in Flow, Active(f)', On(flow[f].cred, s)', Waiting(f)', flow'[f].pc = "renew"
         PROVE  flow'[f].cred.token = renewals'[s]
    <3>1. flow'[f].reply = "none"
      BY <2>10 DEF Waiting
    <3>2. flow'[f].cred = flow[f].cred /\ On(flow[f].cred, s)
      BY <2>10, <3>1 DEF RenewalStays, On
    <3>3. Active(f)
      BY <2>10, <3>2 DEF Wanted, On
    <3>4. CASE flow[f].pc = "renew" /\ flow[f].reply = "none"
      BY <1>2, <3>2, <3>3, <3>4 DEF TokenInv, Waiting, Calls
    <3>5. CASE MayRenew(f) /\ flight = None
      <4>1. UpToDate(flow[f].cred)
        BY <1>2, <3>2, <3>3, <3>5 DEF TokenInv
      <4>2. ASSUME NEW h \in Flow, Unread(h, s) PROVE FALSE
        <5>1. h # None /\ flight # h
          BY <3>5, MobileAssumption
        <5>2. ~flow[h].same
          BY <4>2, <5>1, FlowIs DEF Unread, JoinInv
        <5> QED
          BY <1>2, <4>2, <5>2, <3>2, <3>3 DEF TokenInv
      <4> QED
        BY <1>2, <4>1, <4>2, <3>2 DEF UpToDate, On
    <3> QED
      BY <2>10, <3>1, <3>4, <3>5 DEF RenewalStays
  <2> QED
    BY <2>2, <2>4, <2>5, <2>6, <2>7, <2>8, <2>9, <2>10 DEF Unused
<1> QED
  BY <1>1, <1>2

LEMMA SharedStays ==
  ASSUME SharedInv, LeftInv, \A f \in Flow : Wanted(f), store' \in {store, None}, left' = left,
         flight' # None =>
           /\ flight' = flight /\ flow'[flight].cred = flow[flight].cred
           /\ flow'[flight].reply \in {"none", "ok"} => flow[flight].reply \in {"none", "ok"}
  PROVE  SharedInv'
<1> SUFFICES ASSUME flight' # None, flow'[flight'].reply \in {"none", "ok"}
             PROVE  /\ SameOf(store, flow[flight].cred)'
                    /\ flow'[flight'].cred.session \notin left'
                    /\ \A g \in Flow \ {flight'} : Active(g)' =>
                         flow'[g].kind = "check" /\ SameOf(flow[g].cred, flow[flight].cred)'
  BY DEF SharedInv
<1>1. /\ SameOf(store, flow[flight].cred)
      /\ flow[flight].cred.session \notin left
      /\ \A g \in Flow \ {flight} : Active(g) =>
           flow[g].kind = "check" /\ SameOf(flow[g].cred, flow[flight].cred)
  BY DEF SharedInv
<1>2. flight' = flight /\ flow'[flight].cred = flow[flight].cred
  OBVIOUS
<1>3. SameOf(store, flow[flight].cred)'
  BY <1>1, <1>2 DEF SameOf
<1>4. ASSUME NEW g \in Flow \ {flight}, Active(g)'
      PROVE  flow'[g].kind = "check" /\ SameOf(flow[g].cred, flow[flight].cred)'
  BY <1>1, <1>2, <1>4 DEF Wanted, SameOf
<1> QED
  BY <1>1, <1>2, <1>3, <1>4

\* Session s is known to a flow, apart from an unread answer to a sign-in.
Carried(s) ==
  \/ On(store, s)
  \/ \E h \in Flow : flow[h].pc # "sign" /\ (On(flow[h].cred, s) \/ On(flow[h].got, s))
  \/ \E c \in strays : c.session = s

\* Nobody learns of session s.
NoNews(s) ==
  /\ renewals'[s] # 0 => renewals[s] # 0 \/ Carried(s)
  /\ s \in left' => s \in left \/ Carried(s)
  /\ On(store, s)' => Carried(s)
  /\ \A c \in strays' : c.session = s => Carried(s)
  /\ \A f \in Flow : On(flow[f].cred, s)' \/ On(flow[f].got, s)' =>
       On(flow[f].cred, s) \/ On(flow[f].got, s) \/ Carried(s)

LEMMA SeenStays ==
  ASSUME NEW s \in Session, NoNews(s), NEW F \in SUBSET Flow,
         \A h \in Flow : flow[h].pc # "sign" => h \in F, Seen(s, F)'
  PROVE  Seen(s, F)
<1>1. Carried(s) => Seen(s, F)
  BY DEF Carried, Seen
<1>2. CASE renewals'[s] # 0 \/ s \in left' \/ On(store, s)' \/ \E c \in strays' : c.session = s
  BY <1>1, <1>2 DEF NoNews, Seen
<1>3. CASE \E g \in F : On(flow[g].cred, s)' \/ On(flow[g].got, s)'
  BY <1>1, <1>3 DEF NoNews, Seen
<1> QED
  BY <1>2, <1>3 DEF Seen

LEMMA UnopenedStays ==
  ASSUME UnopenedInv, \A s \in Session : server'[s] = "none" => server[s] = "none" /\ NoNews(s)
  PROVE  UnopenedInv'
<1> SUFFICES ASSUME NEW s \in Session, server'[s] = "none", Seen(s, Flow)' PROVE FALSE
  BY DEF UnopenedInv
<1>1. Seen(s, Flow)
  BY SeenStays
<1> QED
  BY <1>1 DEF UnopenedInv

LEMMA FreshStays ==
  ASSUME TypeOK, ShapeInv, FreshInv, \A s \in Session : NoNews(s),
         \A f \in Flow : SignedInTo(f)' => SignedInTo(f) /\ flow'[f].got = flow[f].got
  PROVE  FreshInv'
<1> SUFFICES ASSUME NEW f \in Flow, SignedInTo(f)', Seen(flow[f].got.session, Flow \ {f})' PROVE FALSE
  BY DEF FreshInv
<1>1. SignedInTo(f) /\ flow'[f].got = flow[f].got
  OBVIOUS
<1>2. flow[f].got.session \in Session /\ flow[f].pc = "sign"
  BY <1>1, FlowIs, NoneIs DEF SignedInTo, ShapeInv, Shape
<1>3. PICK s \in Session : s = flow[f].got.session
  BY <1>2
<1>4. Seen(s, Flow \ {f})'
  BY <1>1, <1>3 DEF Seen
<1>5. \A h \in Flow : flow[h].pc # "sign" => h \in Flow \ {f}
  BY <1>2
<1>6. Seen(s, Flow \ {f})
  BY <1>4, <1>5, SeenStays
<1> QED
  BY <1>1, <1>3, <1>6 DEF FreshInv

\* What a step does that changes neither what is stored, other than by clearing it,
\* nor what the server and the flows know of each other's sessions.
Steady ==
  /\ \A f \in Flow : /\ Wanted(f) /\ RenewalStays(f)
                     /\ SignedInTo(f)' => SignedInTo(f) /\ flow'[f].got = flow[f].got
  /\ \A s \in Session :
       /\ NoNews(s) /\ (server'[s] = "none" => server[s] = "none")
       /\ Known(s)' => server[s] = "none" \/ (Known(s) /\ renewals'[s] = renewals[s])
  /\ store' \in {store, None} /\ left' = left /\ Shows
  /\ Unused => launch' = "out"
  /\ launch = "out" /\ ~SigningIn => launch' = "out" /\ ~SigningIn'
  /\ store' = None \/ \A f \in Leaving : flow[f].same =>
       f \in Leaving' /\ flow'[f].same /\ flow'[f].cred = flow[f].cred

\* And it leaves the shared renewal alone or ends it.
Calm ==
  /\ Steady
  /\ flight' # None =>
       /\ flight' = flight /\ flow'[flight].cred = flow[flight].cred
       /\ flow'[flight].reply \in {"none", "ok"} => flow[flight].reply \in {"none", "ok"}

LEMMA SteadyStep ==
  ASSUME IInv, Steady, TypeOK', ShapeInv', BoundInv', ScreenInv', JoinInv', OwnReuse', SharedInv'
  PROVE  IInv'
<1>1. /\ \A f \in Flow : Wanted(f) /\ RenewalStays(f)
      /\ \A f \in Flow : Wanted(f)
      /\ \A f \in Flow : SignedInTo(f)' => SignedInTo(f) /\ flow'[f].got = flow[f].got
      /\ \A s \in Session : server'[s] = "none" => server[s] = "none" /\ NoNews(s)
      /\ \A s \in Session : NoNews(s)
      /\ \A s \in Session : Known(s)' => server[s] = "none" \/ (Known(s) /\ renewals'[s] = renewals[s])
      /\ store' \in {store, None} /\ left' = left /\ Shows
  BY DEF Steady
<1>2. /\ TypeOK /\ ShapeInv /\ BoundInv /\ ScreenInv /\ JoinInv /\ SharedInv
      /\ ShownInv /\ LeftInv /\ UnopenedInv /\ FreshInv /\ TokenInv /\ OwnReuse
  BY DEF IInv
<1>3. ShownInv'
  BY <1>1, <1>2, ShownStays
<1>4. LeftInv'
  <2>1. None \notin left
    BY <1>2, MobileAssumption DEF TypeOK
  <2>2. /\ launch = "out" /\ ~SigningIn => launch' = "out" /\ ~SigningIn'
        /\ store' = None \/ \A f \in Leaving : flow[f].same =>
             f \in Leaving' /\ flow'[f].same /\ flow'[f].cred = flow[f].cred
    BY DEF Steady
  <2> QED
    BY <1>1, <1>2, <2>1, <2>2, LeftStays
<1>5. TokenInv'
  <2>1. Unused => launch' = "out"
    BY DEF Steady
  <2> QED
    BY <1>1, <1>2, <2>1, TokenStays
<1>6. UnopenedInv'
  BY <1>1, <1>2, UnopenedStays
<1>7. FreshInv'
  BY <1>1, <1>2, FreshStays
<1> QED
  BY <1>3, <1>4, <1>5, <1>6, <1>7 DEF IInv

LEMMA CalmStep ==
  ASSUME IInv, Calm, TypeOK', ShapeInv', BoundInv', ScreenInv', JoinInv', OwnReuse'
  PROVE  IInv'
<1>1. SharedInv /\ LeftInv
  BY DEF IInv
<1>2. /\ \A f \in Flow : Wanted(f)
      /\ store' \in {store, None} /\ left' = left
  BY DEF Calm, Steady
<1>3. flight' # None =>
        /\ flight' = flight /\ flow'[flight].cred = flow[flight].cred
        /\ flow'[flight].reply \in {"none", "ok"} => flow[flight].reply \in {"none", "ok"}
  BY DEF Calm
<1>4. SharedInv'
  BY <1>1, <1>2, <1>3, SharedStays
<1> QED
  BY <1>4, SteadyStep DEF Calm

-----------------------------------------------------------------------------
(* Init. *)

LEMMA InitHolds == Init => IInv
<1> SUFFICES ASSUME Init PROVE IInv
  OBVIOUS
<1> USE DEF Init
<1>1. \A f \in Flow : flow[f] = Idle
  OBVIOUS
<1>2. \A f \in Flow : /\ flow[f].kind = "none" /\ flow[f].pc = "idle" /\ flow[f].cred = None
                      /\ flow[f].reply = "none" /\ flow[f].got = None /\ ~Active(f)
  BY <1>1, IdleIs DEF Active
<1>3. 0 \in 0..MaxRenewals /\ 0 \in 0..MaxEvents
  BY MobileAssumption
<1>4. PICK first \in Session : first = CHOOSE s \in Session : TRUE
  BY MobileAssumption
<1>5. /\ server \in [Session -> {"none", "open"}] /\ store \in Credentials \cup {None}
      /\ store # None => store.token = 0 /\ store.session = first /\ server[first] = "open"
  <2>1. CASE store = None
    BY <2>1
  <2>2. CASE store # None
    BY <1>3, <1>4, <2>2 DEF Credentials
  <2> QED
    BY <2>1, <2>2
<1>6. TypeOK
  BY <1>3, <1>5, IdleIs DEF TypeOK
<1>7. ShapeInv
  BY <1>2 DEF ShapeInv, Shape
<1>8. BoundInv /\ ScreenInv
  BY <1>2, MobileAssumption DEF BoundInv, ScreenInv, InProgress, SigningIn, IsSignIn, Waiting, Calls
<1>9. JoinInv /\ SharedInv
  BY <1>2, MobileAssumption DEF JoinInv, SharedInv
<1>10. ShownInv /\ LeftInv
  BY <1>2 DEF ShownInv, LeftInv, ShownIsStored
<1>11. UnopenedInv
  BY <1>2, <1>5 DEF UnopenedInv, Seen, On
<1>12. FreshInv /\ OwnReuse
  BY <1>2, <1>5 DEF FreshInv, SignedInTo, OwnReuse
<1>13. TokenInv
  BY <1>2, <1>5 DEF TokenInv, On, UpToDate, Unread
<1> QED
  BY <1>6, <1>7, <1>8, <1>9, <1>10, <1>11, <1>12, <1>13 DEF IInv

-----------------------------------------------------------------------------
(* The server answers, or nobody does. *)

LEMMA ReplyStep ==
  ASSUME IInv, NEW f \in Flow, Waiting(f), UNCHANGED process,
         NEW p \in {"ok", "refused", "denied", "failed"}, NEW c \in Credentials \cup {None},
         Reply(f, p, c)
  PROVE  /\ flow' \in [Flow -> FlowState]
         /\ \A h \in Flow : h # f => flow'[h] = flow[h]
         /\ flow'[f].kind = flow[f].kind /\ flow'[f].pc = flow[f].pc /\ flow'[f].cred = flow[f].cred
         /\ flow'[f].same = flow[f].same /\ flow'[f].closed = flow[f].closed
         /\ flow'[f].again = flow[f].again /\ flow'[f].via = flow[f].via
         /\ flow'[f].outcome = flow[f].outcome /\ flow'[f].reply = p /\ flow'[f].got = c
         /\ flow[f].pc \in Calls /\ flow[f].reply = "none"
         /\ \A h \in Flow : /\ Active(h)' <=> Active(h)
                            /\ MayRenew(h)' <=> MayRenew(h)
                            /\ Wanted(h)
         /\ ScreenInv' /\ JoinInv' /\ Shows
         /\ Unused => launch' = "out"
         /\ launch = "out" /\ ~SigningIn => launch' = "out" /\ ~SigningIn'
         /\ \A h \in Leaving : flow[h].same =>
              h \in Leaving' /\ flow'[h].same /\ flow'[h].cred = flow[h].cred
         /\ flight' = flight
         /\ flight \in Flow => flow'[flight].cred = flow[flight].cred
<1> DEFINE
     q1 == [flow[f] EXCEPT !.reply = p]
     q2 == [q1 EXCEPT !.got = c]
<1> HIDE DEF q1, q2
<1>1. flow' \in [Flow -> FlowState]
  <2>1. flow \in [Flow -> FlowState]
    BY DEF IInv, TypeOK
  <2>2. q1 \in FlowState
    BY <2>1 DEF q1, FlowState
  <2>3. q2 \in FlowState
    BY <2>2 DEF q2, FlowState
  <2>4. flow' = [flow EXCEPT ![f] = q2]
    BY <2>1 DEF q1, q2, Reply
  <2> QED
    BY <2>1, <2>3, <2>4
<1>2. /\ \A h \in Flow : h # f => flow'[h] = flow[h]
      /\ flow'[f].kind = flow[f].kind /\ flow'[f].pc = flow[f].pc /\ flow'[f].cred = flow[f].cred
      /\ flow'[f].same = flow[f].same /\ flow'[f].closed = flow[f].closed
      /\ flow'[f].again = flow[f].again /\ flow'[f].via = flow[f].via
      /\ flow'[f].outcome = flow[f].outcome /\ flow'[f].reply = p /\ flow'[f].got = c
      /\ flow[f].pc \in Calls /\ flow[f].reply = "none"
  BY DEF IInv, TypeOK, Reply, FlowState, Waiting
<1>3. UNCHANGED <<launch, who, started, current, flight, foreground>>
  BY DEF process
<1>4. \A h \in Flow : /\ flow'[h].kind = flow[h].kind /\ flow'[h].pc = flow[h].pc
                      /\ flow'[h].cred = flow[h].cred /\ flow'[h].same = flow[h].same
                      /\ flow'[h].closed = flow[h].closed /\ flow'[h].again = flow[h].again
                      /\ flow'[h].via = flow[h].via
                      /\ (Waiting(h)' => Waiting(h))
  BY <1>2 DEF Waiting
<1>5. \A h \in Flow : (Active(h)' <=> Active(h)) /\ (MayRenew(h)' <=> MayRenew(h))
  BY <1>3, <1>4 DEF Active, Cancelled, MayRenew
<1>6. \A h \in Flow : Wanted(h)
  BY <1>4, <1>5 DEF Wanted
<1>7. (InProgress' <=> InProgress) /\ (SigningIn' <=> SigningIn)
  BY <1>3, <1>4 DEF InProgress, SigningIn, IsSignIn, IInv, TypeOK
<1>8. ScreenInv'
  BY <1>3, <1>4, <1>5, <1>7 DEF IInv, TypeOK, ScreenInv, IsSignIn
<1>9. JoinInv'
  BY <1>3, <1>4, <1>5 DEF IInv, JoinInv
<1>10. \A h \in Leaving : h \in Leaving' /\ flow'[h].same = flow[h].same /\ flow'[h].cred = flow[h].cred
  BY <1>4 DEF Leaving, IsSignOut
<1> QED
  BY <1>1, <1>2, <1>3, <1>4, <1>5, <1>6, <1>7, <1>8, <1>9, <1>10 DEF Shows, Unused

LEMMA ReplyCalm ==
  ASSUME IInv, NEW f \in Flow, Waiting(f), UNCHANGED <<process, store, renewals, left>>,
         NEW p \in {"ok", "refused", "denied", "failed"}, Reply(f, p, None),
         p = "ok" => flow[f].pc \notin {"sign", "renew"},
         \A s \in Session : /\ server'[s] = "none" => server[s] = "none"
                            /\ server'[s] = "open" => server[s] = "open",
         abandoned \subseteq abandoned',
         \A c \in strays' : c \in strays \/ (flow[f].pc = "renew" /\ c = flow[f].cred)
  PROVE  ShapeInv' /\ Calm
<1>1. UNCHANGED process /\ None \in Credentials \cup {None}
  BY DEF process
<1>2. /\ \A h \in Flow : h # f => flow'[h] = flow[h]
      /\ flow'[f].kind = flow[f].kind /\ flow'[f].pc = flow[f].pc /\ flow'[f].cred = flow[f].cred
      /\ flow'[f].same = flow[f].same /\ flow'[f].closed = flow[f].closed
      /\ flow'[f].again = flow[f].again /\ flow'[f].via = flow[f].via
      /\ flow'[f].outcome = flow[f].outcome /\ flow'[f].reply = p /\ flow'[f].got = None
      /\ flow[f].pc \in Calls /\ flow[f].reply = "none"
      /\ \A h \in Flow : /\ Active(h)' <=> Active(h)
                         /\ MayRenew(h)' <=> MayRenew(h)
                         /\ Wanted(h)
      /\ Shows
      /\ Unused => launch' = "out"
      /\ launch = "out" /\ ~SigningIn => launch' = "out" /\ ~SigningIn'
      /\ \A h \in Leaving : flow[h].same =>
           h \in Leaving' /\ flow'[h].same /\ flow'[h].cred = flow[h].cred
      /\ flight' = flight
      /\ flight \in Flow => flow'[flight].cred = flow[flight].cred
  BY <1>1, ReplyStep
<1>3. ShapeInv /\ TypeOK
  BY DEF IInv
<1>4. ShapeInv'
  BY <1>2, <1>3 DEF ShapeInv, Shape, Calls
<1>5. \A h \in Flow : RenewalStays(h)
  BY <1>2 DEF RenewalStays
<1>6. \A h \in Flow : SignedInTo(h)' => SignedInTo(h) /\ flow'[h].got = flow[h].got
  BY <1>2 DEF SignedInTo
<1>7. ASSUME NEW s \in Session PROVE NoNews(s)
  <2>1. \A c \in strays' : c.session = s => Carried(s)
    BY <1>2, <1>3 DEF Carried, On, ShapeInv, Shape
  <2>2. \A h \in Flow : On(flow[h].cred, s)' \/ On(flow[h].got, s)' =>
          On(flow[h].cred, s) \/ On(flow[h].got, s)
    BY <1>2 DEF On
  <2>3. On(store, s)' => Carried(s)
    BY DEF On, Carried
  <2> QED
    BY <2>1, <2>2, <2>3 DEF NoNews
<1>8. \A s \in Session : Known(s)' => Known(s) /\ renewals'[s] = renewals[s]
  BY DEF Known
<1>9. flight' # None =>
       /\ flight' = flight /\ flow'[flight].cred = flow[flight].cred
       /\ flow'[flight].reply \in {"none", "ok"} => flow[flight].reply \in {"none", "ok"}
  BY <1>2, <1>3 DEF TypeOK
<1> QED
  BY <1>2, <1>4, <1>5, <1>6, <1>7, <1>8, <1>9 DEF Calm, Steady

LEMMA MeStep ==
  ASSUME IInv, NEW f \in Flow, AnswerMe(f)
  PROVE  IInv'
<1>1. /\ Waiting(f) /\ flow[f].pc = "me"
      /\ UNCHANGED <<serverVars, store, process, strays, history, events>>
  BY DEF AnswerMe
<1>2. PICK p \in {"ok", "denied", "refused"} :
        /\ Reply(f, p, None)
        /\ p = "refused" => server[flow[f].cred.session] # "open" \/ flow[f].cred.token < MaxRenewals
  BY DEF AnswerMe
<1>3. UNCHANGED <<server, renewals, store, process, strays, abandoned, left, events>>
  BY <1>1 DEF serverVars, history
<1>4. ShapeInv' /\ Calm
  <2>1. p \in {"ok", "refused", "denied", "failed"}
    OBVIOUS
  <2> QED
    BY <1>1, <1>2, <1>3, <2>1, ReplyCalm
<1>5. /\ flow' \in [Flow -> FlowState] /\ ScreenInv' /\ JoinInv'
      /\ \A h \in Flow : h # f => flow'[h] = flow[h]
      /\ flow'[f].pc = "me" /\ flow'[f].cred = flow[f].cred /\ flow'[f].reply = p
  BY <1>1, <1>2, <1>3, ReplyStep
<1>6. TypeOK'
  BY <1>3, <1>5 DEF IInv, TypeOK, process
<1>7. BoundInv'
  BY <1>2, <1>3, <1>5 DEF IInv, BoundInv
<1>8. OwnReuse'
  BY <1>3 DEF IInv, OwnReuse
<1> QED
  BY <1>4, <1>5, <1>6, <1>7, <1>8, CalmStep

LEMMA SignOutAnswered ==
  ASSUME IInv, NEW f \in Flow, AnswerSignOut(f)
  PROVE  IInv'
<1>1. /\ Waiting(f) /\ flow[f].pc = "revoke"
      /\ UNCHANGED <<renewals, store, process, strays, history, events>>
  BY DEF AnswerSignOut
<1>2. PICK p \in {"ok", "refused"} : Reply(f, p, None)
  BY DEF AnswerSignOut
<1>3. UNCHANGED <<renewals, store, process, strays, abandoned, left, events>>
  BY <1>1 DEF history
<1>4. \/ server' = server
      \/ server[flow[f].cred.session] = "open"
         /\ server' = [server EXCEPT ![flow[f].cred.session] = "ended"]
  BY DEF AnswerSignOut
<1>5. /\ server' \in [Session -> {"none", "open", "ended", "reuse"}]
      /\ \A s \in Session : server'[s] = server[s] \/ (server[s] = "open" /\ server'[s] = "ended")
  BY <1>4 DEF IInv, TypeOK
<1>6. ShapeInv' /\ Calm
  <2>1. p \in {"ok", "refused", "denied", "failed"}
    OBVIOUS
  <2> QED
    BY <1>1, <1>2, <1>3, <1>5, <2>1, ReplyCalm
<1>7. /\ flow' \in [Flow -> FlowState] /\ ScreenInv' /\ JoinInv'
      /\ \A h \in Flow : h # f => flow'[h] = flow[h]
      /\ flow'[f].pc = "revoke"
  BY <1>1, <1>2, <1>3, ReplyStep
<1>8. TypeOK'
  BY <1>3, <1>5, <1>7 DEF IInv, TypeOK, process
<1>9. BoundInv'
  <2>1. \A h \in Flow : flow[h].pc \in {"me", "renew"} => flow[h].cred.session \in Session
    BY FlowIs, NoneIs DEF IInv, ShapeInv, Shape
  <2>2. \A c \in strays : c.session \in Session
    BY NoneIs DEF IInv, TypeOK
  <2> QED
    BY <1>3, <1>5, <1>7, <2>1, <2>2 DEF IInv, BoundInv
<1>10. OwnReuse'
  BY <1>3, <1>5 DEF IInv, OwnReuse
<1> QED
  BY <1>6, <1>7, <1>8, <1>9, <1>10, CalmStep

\* What is given up may still reach the server.
LEMMA RequestsAre ==
  ASSUME IInv, NEW F \in SUBSET Flow
  PROVE  /\ Renewing(F) \subseteq Session /\ Renewing({f \in F : Waiting(f)}) \subseteq Renewing(F)
         /\ \A c \in Requests(F) :
              /\ c \in Credentials /\ c.session \in Renewing({f \in F : Waiting(f)})
              /\ \E f \in F : flow[f].pc = "renew" /\ c = flow[f].cred
              /\ server[c.session] = "open" => c.token < MaxRenewals
<1>1. \A f \in Flow : flow[f].pc = "renew" => flow[f].cred \in Credentials /\ flow[f].cred.session \in Session
  BY FlowIs, NoneIs DEF IInv, ShapeInv, Shape
<1>2. Requests(F) = {flow[f].cred : f \in {g \in F : Waiting(g) /\ flow[g].pc = "renew"}}
  BY DEF Requests
<1>3. /\ Renewing({f \in F : Waiting(f)}) = {flow[f].cred.session : f \in {g \in F : Waiting(g) /\ flow[g].pc = "renew"}}
      /\ Renewing(F) = {flow[f].cred.session : f \in {g \in F : flow[g].pc = "renew"}}
  BY DEF Renewing, SessionsOf
<1>4. ASSUME NEW c \in Requests(F)
      PROVE  /\ c \in Credentials /\ c.session \in Renewing({f \in F : Waiting(f)})
             /\ \E f \in F : flow[f].pc = "renew" /\ c = flow[f].cred
             /\ server[c.session] = "open" => c.token < MaxRenewals
  <2>1. PICK f \in F : Waiting(f) /\ flow[f].pc = "renew" /\ c = flow[f].cred
    BY <1>2
  <2>2. flow[f].reply = "none"
    BY <2>1 DEF Waiting
  <2> QED
    BY <1>1, <1>3, <2>1, <2>2 DEF IInv, BoundInv
<1>5. Renewing(F) \subseteq Session
  BY <1>1, <1>3
<1> QED
  BY <1>3, <1>4, <1>5

LEMMA GivenUp ==
  ASSUME IInv, NEW F \in SUBSET Flow, GiveUp(F)
  PROVE  /\ strays' \subseteq Credentials /\ abandoned' \subseteq Session
         /\ abandoned \subseteq abandoned'
         /\ \A c \in strays' : /\ c \in strays \/ \E f \in F : flow[f].pc = "renew" /\ c = flow[f].cred
                               /\ server[c.session] = "open" => c.token < MaxRenewals
                               /\ c.session \in abandoned'
<1>1. strays' \subseteq strays \cup Requests(F) /\ abandoned' = abandoned \cup Renewing({f \in F : Waiting(f)})
  BY DEF GiveUp
<1>2. strays \subseteq Credentials /\ abandoned \subseteq Session
  BY DEF IInv, TypeOK
<1>3. ASSUME NEW c \in strays'
      PROVE  /\ c \in Credentials
             /\ c \in strays \/ \E f \in F : flow[f].pc = "renew" /\ c = flow[f].cred
             /\ server[c.session] = "open" => c.token < MaxRenewals
             /\ c.session \in abandoned'
  <2>1. CASE c \in strays
    BY <1>1, <1>2, <2>1 DEF IInv, BoundInv
  <2>2. CASE c \in Requests(F)
    BY <1>1, <2>2, RequestsAre
  <2> QED
    BY <1>1, <2>1, <2>2
<1>4. abandoned' \subseteq Session
  BY <1>1, <1>2, RequestsAre
<1> QED
  BY <1>1, <1>3, <1>4

LEMMA TimeOutStep ==
  ASSUME IInv, NEW f \in Flow, TimeOut(f)
  PROVE  IInv'
<1>1. /\ Waiting(f) /\ GiveUp({f}) /\ Reply(f, "failed", None)
      /\ UNCHANGED <<serverVars, store, process, left, events>>
  BY DEF TimeOut
<1>2. UNCHANGED <<server, renewals, store, process, left, events>>
  BY <1>1 DEF serverVars
<1>3. /\ strays' \subseteq Credentials /\ abandoned' \subseteq Session
      /\ abandoned \subseteq abandoned'
      /\ \A c \in strays' : /\ c \in strays \/ \E h \in {f} : flow[h].pc = "renew" /\ c = flow[h].cred
                            /\ server[c.session] = "open" => c.token < MaxRenewals
                            /\ c.session \in abandoned'
  BY <1>1, GivenUp
<1>4. ShapeInv' /\ Calm
  BY <1>1, <1>2, <1>3, ReplyCalm
<1>5. /\ flow' \in [Flow -> FlowState] /\ ScreenInv' /\ JoinInv'
      /\ \A h \in Flow : h # f => flow'[h] = flow[h]
      /\ flow'[f].reply = "failed"
  BY <1>1, <1>2, ReplyStep
<1>6. TypeOK'
  BY <1>2, <1>3, <1>5 DEF IInv, TypeOK, process
<1>7. BoundInv'
  BY <1>2, <1>3, <1>5 DEF IInv, BoundInv
<1>8. OwnReuse'
  BY <1>2, <1>3 DEF IInv, OwnReuse
<1> QED
  BY <1>4, <1>5, <1>6, <1>7, <1>8, CalmStep

\* A session is ended for reuse only of a token the application had lost sight of.
LEMMA NotRenewable ==
  ASSUME IInv, NEW c \in Credentials, ~Renewable(c), Renew(c),
         server[c.session] = "open" => c.session \in abandoned
  PROVE  /\ renewals' = renewals
         /\ server' \in [Session -> {"none", "open", "ended", "reuse"}]
         /\ \A s \in Session : \/ server'[s] = server[s]
                               \/ server[s] = "open" /\ server'[s] = "reuse" /\ s \in abandoned
<1>1. c.session \in Session
  BY NoneIs
<1>2. /\ server' = [server EXCEPT ![c.session] = IF @ = "open" THEN "reuse" ELSE @]
      /\ renewals' = renewals
  BY DEF Renew
<1>3. server \in [Session -> {"none", "open", "ended", "reuse"}]
  BY DEF IInv, TypeOK
<1> QED
  BY <1>1, <1>2, <1>3

LEMMA IsRenewable ==
  ASSUME IInv, NEW c \in Credentials, Renewable(c), Renew(c), c.token < MaxRenewals
  PROVE  /\ server' = server
         /\ renewals' \in [Session -> 0..MaxRenewals]
         /\ renewals'[c.session] = c.token + 1
         /\ \A s \in Session : s # c.session => renewals'[s] = renewals[s]
<1>1. c.session \in Session /\ c.token \in 0..MaxRenewals
  BY NoneIs
<1>2. renewals' = [renewals EXCEPT ![c.session] = @ + 1] /\ server' = server /\ c.token = renewals[c.session]
  BY DEF Renew, Renewable
<1>3. renewals \in [Session -> 0..MaxRenewals]
  BY DEF IInv, TypeOK
<1>4. c.token + 1 \in 0..MaxRenewals
  BY <1>1, MobileAssumption
<1> QED
  BY <1>1, <1>2, <1>3, <1>4

LEMMA RenewalRefused ==
  ASSUME IInv, NEW f \in Flow, AnswerRenewal(f), ~Renewable(flow[f].cred)
  PROVE  IInv'
<1>1. /\ Waiting(f) /\ flow[f].pc = "renew" /\ Renew(flow[f].cred) /\ Reply(f, "refused", None)
      /\ UNCHANGED <<store, process, strays, history, events>>
  BY DEF AnswerRenewal
<1>2. UNCHANGED <<store, process, strays, abandoned, left, events>>
  BY <1>1 DEF history
<1>3. Active(f) /\ flow[f].cred \in Credentials /\ flow[f].cred # None /\ flow[f].cred.session \in Session
  BY <1>1, FlowIs, NoneIs DEF IInv, ScreenInv, ShapeInv, Shape
<1>4. server[flow[f].cred.session] = "open" => flow[f].cred.session \in abandoned
  <2>1. ASSUME Known(flow[f].cred.session) PROVE flow[f].cred.token = renewals[flow[f].cred.session]
    BY <1>1, <1>3, <2>1 DEF IInv, TokenInv, On
  <2> QED
    BY <2>1 DEF Known, Renewable
<1>5. /\ renewals' = renewals
      /\ server' \in [Session -> {"none", "open", "ended", "reuse"}]
      /\ \A s \in Session : \/ server'[s] = server[s]
                            \/ server[s] = "open" /\ server'[s] = "reuse" /\ s \in abandoned
  BY <1>1, <1>3, <1>4, NotRenewable
<1>6. ShapeInv' /\ Calm
  BY <1>1, <1>2, <1>5, ReplyCalm
<1>7. /\ flow' \in [Flow -> FlowState] /\ ScreenInv' /\ JoinInv'
      /\ \A h \in Flow : h # f => flow'[h] = flow[h]
      /\ flow'[f].pc = "renew" /\ flow'[f].reply = "refused"
  BY <1>1, <1>2, ReplyStep
<1>8. TypeOK'
  BY <1>2, <1>5, <1>7 DEF IInv, TypeOK, process
<1>9. BoundInv'
  <2>1. \A h \in Flow : flow[h].pc \in {"me", "renew"} => flow[h].cred.session \in Session
    BY FlowIs, NoneIs DEF IInv, ShapeInv, Shape
  <2>2. \A c \in strays : c.session \in Session
    BY NoneIs DEF IInv, TypeOK
  <2> QED
    BY <1>2, <1>5, <1>7, <2>1, <2>2 DEF IInv, BoundInv
<1>10. OwnReuse'
  BY <1>2, <1>5 DEF IInv, OwnReuse
<1> QED
  BY <1>6, <1>7, <1>8, <1>9, <1>10, CalmStep

LEMMA StrayStep ==
  ASSUME IInv, NEW c \in strays, ServeStray(c)
  PROVE  IInv'
<1>1. /\ server[c.session] = "open" /\ strays' = strays \ {c} /\ Renew(c)
      /\ UNCHANGED <<store, launch, who, started, current, flight, foreground, flow, abandoned, left, events>>
  BY DEF ServeStray, process, history
<1>2. /\ c \in Credentials /\ c.session \in Session /\ c.session \in abandoned /\ c.token < MaxRenewals
  BY <1>1, NoneIs DEF IInv, TypeOK, BoundInv
<1>3. /\ server' \in [Session -> {"none", "open", "ended", "reuse"}]
      /\ renewals' \in [Session -> 0..MaxRenewals]
      /\ \A s \in Session : s # c.session => renewals'[s] = renewals[s]
      /\ \A s \in Session : \/ server'[s] = server[s]
                            \/ server[s] = "open" /\ server'[s] = "reuse" /\ s \in abandoned
  <2>1. CASE Renewable(c)
    BY <1>1, <1>2, <2>1, IsRenewable DEF IInv, TypeOK
  <2>2. CASE ~Renewable(c)
    BY <1>1, <1>2, <2>2, NotRenewable DEF IInv, TypeOK
  <2> QED
    BY <2>1, <2>2
<1>4. TypeOK' /\ ShapeInv' /\ ScreenInv' /\ JoinInv'
  BY <1>1, <1>3 DEF IInv, TypeOK, ShapeInv, ScreenInv, JoinInv, InProgress, SigningIn, IsSignIn, Active, Cancelled, Waiting
<1>5. OwnReuse' /\ BoundInv'
  <2>1. \A h \in Flow : flow[h].pc \in {"me", "renew"} => flow[h].cred.session \in Session
    BY FlowIs, NoneIs DEF IInv, ShapeInv, Shape
  <2>2. \A d \in strays : d.session \in Session
    BY NoneIs DEF IInv, TypeOK
  <2> QED
    BY <1>1, <1>3, <2>1, <2>2 DEF IInv, OwnReuse, BoundInv
<1>6. Calm
  <2>1. \A f \in Flow : (Active(f)' <=> Active(f)) /\ (MayRenew(f)' <=> MayRenew(f)) /\ (SignedInTo(f)' <=> SignedInTo(f))
    BY <1>1 DEF Active, Cancelled, MayRenew, SignedInTo
  <2>2. \A f \in Flow : Wanted(f) /\ RenewalStays(f)
    BY <1>1, <2>1 DEF Wanted, RenewalStays
  <2>3. ASSUME NEW s \in Session PROVE NoNews(s)
    <3>1. s = c.session => Carried(s)
      BY DEF Carried
    <3>2. On(store, s)' => Carried(s)
      BY <1>1 DEF On, Carried
    <3>3. \A d \in strays' : d.session = s => Carried(s)
      BY <1>1 DEF Carried
    <3> QED
      BY <1>1, <1>3, <3>1, <3>2, <3>3 DEF NoNews, On
  <2>4. \A s \in Session : Known(s)' => Known(s) /\ renewals'[s] = renewals[s]
    BY <1>1, <1>2, <1>3 DEF Known
  <2>5. /\ Shows /\ (Unused => launch' = "out") /\ (SigningIn' <=> SigningIn) /\ Leaving' = Leaving
    BY <1>1 DEF Shows, Unused, SigningIn, IsSignIn, Leaving, IsSignOut
  <2> QED
    BY <1>1, <1>3, <2>1, <2>2, <2>3, <2>4, <2>5 DEF Calm, Steady
<1> QED
  BY <1>4, <1>5, <1>6, CalmStep

LEMMA EndStep ==
  ASSUME IInv, NEW s \in Session, EndSession(s)
  PROVE  IInv'
<1>1. /\ server[s] = "open" /\ server' = [server EXCEPT ![s] = "ended"]
      /\ UNCHANGED <<renewals, store, launch, who, started, current, flight, foreground, flow, strays, abandoned, left, events>>
  BY DEF EndSession, process, history
<1>2. /\ server' \in [Session -> {"none", "open", "ended", "reuse"}]
      /\ \A t \in Session : server'[t] = server[t] \/ (server[t] = "open" /\ server'[t] = "ended")
  BY <1>1 DEF IInv, TypeOK
<1>3. TypeOK' /\ ShapeInv' /\ ScreenInv' /\ JoinInv'
  BY <1>1, <1>2 DEF IInv, TypeOK, ShapeInv, ScreenInv, JoinInv, InProgress, SigningIn, IsSignIn, Active, Cancelled, Waiting
<1>4. OwnReuse' /\ BoundInv'
  <2>1. \A h \in Flow : flow[h].pc \in {"me", "renew"} => flow[h].cred.session \in Session
    BY FlowIs, NoneIs DEF IInv, ShapeInv, Shape
  <2>2. \A d \in strays : d.session \in Session
    BY NoneIs DEF IInv, TypeOK
  <2> QED
    BY <1>1, <1>2, <2>1, <2>2 DEF IInv, OwnReuse, BoundInv
<1>5. Calm
  <2>1. \A f \in Flow : (Active(f)' <=> Active(f)) /\ (MayRenew(f)' <=> MayRenew(f)) /\ (SignedInTo(f)' <=> SignedInTo(f))
    BY <1>1 DEF Active, Cancelled, MayRenew, SignedInTo
  <2>2. \A f \in Flow : Wanted(f) /\ RenewalStays(f)
    BY <1>1, <2>1 DEF Wanted, RenewalStays
  <2>3. ASSUME NEW t \in Session PROVE NoNews(t)
    BY <1>1 DEF NoNews, Carried, On
  <2>4. \A t \in Session : Known(t)' => Known(t)
    BY <1>1, <1>2 DEF Known
  <2>5. /\ Shows /\ (Unused => launch' = "out") /\ (SigningIn' <=> SigningIn) /\ Leaving' = Leaving
    BY <1>1 DEF Shows, Unused, SigningIn, IsSignIn, Leaving, IsSignOut
  <2> QED
    BY <1>1, <1>2, <2>1, <2>2, <2>3, <2>4, <2>5 DEF Calm, Steady
<1> QED
  BY <1>3, <1>4, <1>5, CalmStep

LEMMA RenewalAnswered ==
  ASSUME IInv, NEW f \in Flow, AnswerRenewal(f), Renewable(flow[f].cred)
  PROVE  IInv'
<1> DEFINE new == [flow[f].cred EXCEPT !.token = @ + 1]
<1>1. /\ Waiting(f) /\ flow[f].pc = "renew" /\ Renew(flow[f].cred) /\ Reply(f, "ok", new)
      /\ UNCHANGED <<store, process, strays, history, events>>
  BY DEF AnswerRenewal
<1>2. UNCHANGED <<store, process, strays, abandoned, left, events>>
  BY <1>1 DEF history
<1>3. PICK t \in Session : flow[f].cred.session = t
  BY <1>1, FlowIs, NoneIs DEF IInv, ShapeInv, Shape
<1>4. /\ Active(f) /\ flow[f].cred \in Credentials /\ flow[f].cred # None
      /\ flow[f].cred.token \in 0..MaxRenewals /\ flow[f].cred.token < MaxRenewals
  BY <1>1, FlowIs, NoneIs DEF IInv, ScreenInv, ShapeInv, Shape, BoundInv, Waiting, Renewable
<1>5. new \in Credentials /\ new.session = t /\ new.token = flow[f].cred.token + 1 /\ new # None
  <2>1. flow[f].cred.token + 1 \in 0..MaxRenewals
    BY <1>4, MobileAssumption
  <2>2. new \in Credentials /\ new.session = t /\ new.token = flow[f].cred.token + 1
    BY <1>3, <1>4, <2>1 DEF Credentials
  <2> QED
    BY <2>2, NoneIs
<1> HIDE DEF new
<1>6. /\ server' = server
      /\ renewals' \in [Session -> 0..MaxRenewals]
      /\ renewals'[t] = flow[f].cred.token + 1
      /\ \A s \in Session : s # t => renewals'[s] = renewals[s]
  BY <1>1, <1>3, <1>4, IsRenewable
<1>7. /\ flow' \in [Flow -> FlowState]
      /\ \A h \in Flow : h # f => flow'[h] = flow[h]
      /\ flow'[f].kind = flow[f].kind /\ flow'[f].pc = flow[f].pc /\ flow'[f].cred = flow[f].cred
      /\ flow'[f].same = flow[f].same /\ flow'[f].via = flow[f].via
      /\ flow'[f].reply = "ok" /\ flow'[f].got = new
      /\ flow[f].reply = "none"
      /\ \A h \in Flow : /\ Active(h)' <=> Active(h)
                         /\ MayRenew(h)' <=> MayRenew(h)
                         /\ Wanted(h)
      /\ ScreenInv' /\ JoinInv' /\ Shows
      /\ launch = "out" /\ ~SigningIn => launch' = "out" /\ ~SigningIn'
      /\ \A h \in Leaving : flow[h].same =>
           h \in Leaving' /\ flow'[h].same /\ flow'[h].cred = flow[h].cred
      /\ flight' = flight
      /\ flight \in Flow => flow'[flight].cred = flow[flight].cred
  BY <1>1, <1>2, <1>5, ReplyStep
<1>8. TypeOK'
  BY <1>2, <1>6, <1>7 DEF IInv, TypeOK, process
<1>9. ShapeInv'
  BY <1>1, <1>3, <1>5, <1>7 DEF IInv, ShapeInv, Shape
<1>10. BoundInv'
  BY <1>2, <1>6, <1>7 DEF IInv, BoundInv
<1>11. OwnReuse'
  BY <1>2, <1>6 DEF IInv, OwnReuse
<1>12. ShownInv'
  BY <1>2, <1>7, ShownStays DEF IInv
<1>13. LeftInv'
  <2>1. None \notin left
    BY MobileAssumption DEF IInv, TypeOK
  <2> QED
    BY <1>2, <1>7, <2>1, LeftStays DEF IInv
<1>14. SharedInv'
  <2>1. flight' # None =>
          /\ flight' = flight /\ flow'[flight].cred = flow[flight].cred
          /\ flow'[flight].reply \in {"none", "ok"} => flow[flight].reply \in {"none", "ok"}
    BY <1>7 DEF IInv, TypeOK
  <2> QED
    BY <1>2, <1>7, <2>1, SharedStays DEF IInv
<1>15. ASSUME NEW s \in Session PROVE NoNews(s)
  <2>1. s = t => Carried(s)
    BY <1>1, <1>3, <1>4 DEF Carried, On
  <2>2. On(store, s)' => Carried(s)
    BY <1>2 DEF On, Carried
  <2>3. \A d \in strays' : d.session = s => Carried(s)
    BY <1>2 DEF Carried
  <2>4. \A h \in Flow : On(flow[h].cred, s)' \/ On(flow[h].got, s)' =>
          On(flow[h].cred, s) \/ On(flow[h].got, s) \/ s = t
    BY <1>3, <1>5, <1>7 DEF On
  <2> QED
    BY <1>2, <1>6, <2>1, <2>2, <2>3, <2>4 DEF NoNews
<1>16. UnopenedInv'
  <2>1. \A s \in Session : server'[s] = "none" => server[s] = "none" /\ NoNews(s)
    BY <1>6, <1>15
  <2> QED
    BY <2>1, UnopenedStays DEF IInv
<1>17. FreshInv'
  <2>1. \A h \in Flow : SignedInTo(h)' => SignedInTo(h) /\ flow'[h].got = flow[h].got
    BY <1>1, <1>7 DEF SignedInTo
  <2> QED
    BY <1>15, <2>1, FreshStays DEF IInv
<1>18. TokenInv'
  <2> SUFFICES ASSUME NEW s \in Session, Known(s)'
      PROVE  /\ On(store, s)' => UpToDate(store)'
             /\ \A h \in Flow : Active(h)' /\ On(flow[h].cred, s)' =>
                  /\ MayRenew(h)' => UpToDate(flow[h].cred)'
                  /\ Waiting(h)' /\ flow'[h].pc = "renew" => flow'[h].cred.token = renewals'[s]
                  /\ Unread(h, s)' => flow'[h].got.token = renewals'[s]
             /\ \A h \in Flow : Unread(h, s)' /\ ~flow'[h].same =>
                  /\ \A g \in Flow : Active(g)' => ~On(flow[g].cred, s)'
                  /\ On(store, s)' => launch' = "out" /\ \A g \in Flow : Active(g)' => flow'[g].pc = "sign"
    BY DEF TokenInv
  <2>1. Known(s)
    BY <1>2, <1>6 DEF Known
  <2>2. \A h \in Flow : (Active(h) => h = f) /\ flow[f].same
    BY <1>4, OneActive DEF IInv
  <2>3. CASE s = t
    <3>1. Unread(f, s)'
      BY <1>1, <1>3, <1>7, <2>3 DEF Unread
    <3>2. \A c : c.session = s => UpToDate(c)'
      BY <3>1 DEF UpToDate
    <3>3. On(store, s)' => UpToDate(store)'
      BY <3>1 DEF UpToDate, On
    <3>4. ASSUME NEW h \in Flow, Active(h)', On(flow[h].cred, s)'
          PROVE  /\ UpToDate(flow[h].cred)'
                 /\ ~Waiting(h)'
                 /\ flow'[h].got.token = renewals'[s]
      <4>1. h = f
        BY <1>7, <2>2, <3>4
      <4> QED
        BY <1>5, <1>6, <1>7, <2>3, <3>1, <3>4, <4>1 DEF UpToDate, On, Waiting
    <3>5. ASSUME NEW h \in Flow, Unread(h, s)', ~flow'[h].same PROVE FALSE
      <4>1. h # f
        BY <1>7, <2>2, <3>5
      <4>2. Unread(h, s) /\ ~flow[h].same
        BY <1>7, <3>5, <4>1 DEF Unread
      <4>3. ~On(flow[f].cred, s)
        BY <1>4, <2>1, <4>2 DEF IInv, TokenInv
      <4> QED
        BY <1>3, <1>4, <2>3, <4>3 DEF On
    <3> QED
      BY <3>3, <3>4, <3>5
  <2>4. CASE s # t
    <3>1. /\ renewals'[s] = renewals[s]
          /\ \A h \in Flow : Unread(h, s)' <=> Unread(h, s)
      BY <1>3, <1>6, <1>7, <2>4 DEF Unread
    <3>2. /\ On(store, s)' <=> On(store, s)
          /\ \A h \in Flow : On(flow[h].cred, s)' <=> On(flow[h].cred, s)
      BY <1>2, <1>7 DEF On
    <3>3. On(store, s)' => UpToDate(store)'
      BY <1>2, <2>1, <3>1, <3>2 DEF IInv, TokenInv, UpToDate, On
    <3>4. ASSUME NEW h \in Flow, Active(h)', On(flow[h].cred, s)' PROVE FALSE
      BY <1>3, <1>7, <2>2, <2>4, <3>2, <3>4 DEF On
    <3>5. ASSUME NEW h \in Flow, Unread(h, s)', ~flow'[h].same
          PROVE  On(store, s)' => launch' = "out" /\ \A g \in Flow : Active(g)' => flow'[g].pc = "sign"
      <4>1. Unread(h, s) /\ ~flow[h].same
        <5>1. CASE h = f
          BY <1>7, <2>2, <3>5, <5>1
        <5>2. CASE h # f
          BY <1>7, <3>1, <3>5, <5>2
        <5> QED
          BY <5>1, <5>2
      <4>2. On(store, s) => launch = "out" /\ \A g \in Flow : Active(g) => flow[g].pc = "sign"
        BY <2>1, <4>1 DEF IInv, TokenInv
      <4> QED
        BY <1>1, <1>2, <1>4, <1>7, <2>2, <3>2, <4>2 DEF process
    <3> QED
      BY <3>3, <3>4, <3>5
  <2> QED
    BY <2>3, <2>4
<1> QED
  BY <1>7, <1>8, <1>9, <1>10, <1>11, <1>12, <1>13, <1>14, <1>16, <1>17, <1>18 DEF IInv

LEMMA SignInAnswered ==
  ASSUME IInv, NEW f \in Flow, AnswerSignIn(f)
  PROVE  IInv'
<1>1. /\ Waiting(f) /\ flow[f].pc = "sign"
      /\ UNCHANGED <<renewals, store, process, strays, history, events>>
  BY DEF AnswerSignIn
<1>2. UNCHANGED <<renewals, store, process, strays, abandoned, left, events>>
  BY <1>1 DEF history
<1>3. ASSUME Reply(f, "refused", None), UNCHANGED server PROVE IInv'
  <2>1. ShapeInv' /\ Calm
    BY <1>1, <1>2, <1>3, ReplyCalm
  <2>2. /\ flow' \in [Flow -> FlowState] /\ ScreenInv' /\ JoinInv'
        /\ \A h \in Flow : h # f => flow'[h] = flow[h]
        /\ flow'[f].pc = "sign"
    BY <1>1, <1>2, <1>3, ReplyStep
  <2>3. TypeOK'
    BY <1>2, <1>3, <2>2 DEF IInv, TypeOK, process
  <2>4. BoundInv' /\ OwnReuse'
    BY <1>2, <1>3, <2>2 DEF IInv, BoundInv, OwnReuse
  <2> QED
    BY <2>1, <2>2, <2>3, <2>4, CalmStep
<1>4. ASSUME Unopened # {}, server' = [server EXCEPT ![FirstSession] = "open"],
             Reply(f, "ok", [session |-> FirstSession, token |-> 0])
      PROVE  IInv'
  <2>1. PICK t \in Session : t = FirstSession /\ server[t] = "none"
    BY <1>4 DEF Unopened, FirstSession
  <2> DEFINE new == [session |-> t, token |-> 0]
  <2>2. /\ new \in Credentials /\ new.session = t /\ new.token = 0 /\ Reply(f, "ok", new)
        /\ new \in Credentials \cup {None} /\ new # None
    <3>1. new \in Credentials
      BY MobileAssumption DEF Credentials
    <3> QED
      BY <1>4, <2>1, <3>1, NoneIs
  <2>3. /\ server' \in [Session -> {"none", "open", "ended", "reuse"}]
        /\ server'[t] = "open" /\ \A s \in Session : s # t => server'[s] = server[s]
    BY <1>4, <2>1 DEF IInv, TypeOK
  <2> HIDE DEF new
  <2>4. /\ flow' \in [Flow -> FlowState]
        /\ \A h \in Flow : h # f => flow'[h] = flow[h]
        /\ flow'[f].kind = flow[f].kind /\ flow'[f].pc = "sign" /\ flow'[f].cred = flow[f].cred
        /\ flow'[f].same = flow[f].same /\ flow'[f].via = flow[f].via
        /\ flow'[f].reply = "ok" /\ flow'[f].got = new
        /\ flow[f].reply = "none"
        /\ \A h \in Flow : /\ Active(h)' <=> Active(h)
                           /\ MayRenew(h)' <=> MayRenew(h)
                           /\ Wanted(h)
        /\ ScreenInv' /\ JoinInv' /\ Shows
        /\ Unused => launch' = "out"
        /\ launch = "out" /\ ~SigningIn => launch' = "out" /\ ~SigningIn'
        /\ \A h \in Leaving : flow[h].same =>
             h \in Leaving' /\ flow'[h].same /\ flow'[h].cred = flow[h].cred
        /\ flight' = flight
        /\ flight \in Flow => flow'[flight].cred = flow[flight].cred
    BY <1>1, <1>2, <2>2, ReplyStep
  <2>5. TypeOK'
    BY <1>2, <2>3, <2>4 DEF IInv, TypeOK, process
  <2>6. ShapeInv'
    BY <1>1, <2>2, <2>4 DEF IInv, ShapeInv, Shape
  <2>7. ~Seen(t, Flow)
    BY <2>1 DEF IInv, UnopenedInv
  <2>8. BoundInv' /\ OwnReuse'
    <3>1. \A h \in Flow : flow[h].pc \in {"me", "renew"} => flow[h].cred.session \in Session /\ flow[h].cred.session # t
      BY <2>7, FlowIs, NoneIs DEF IInv, ShapeInv, Shape, Seen, On
    <3>2. \A c \in strays : c.session \in Session /\ c.session # t
      BY <2>7, NoneIs DEF IInv, TypeOK, Seen
    <3> QED
      BY <1>2, <2>3, <2>4, <3>1, <3>2 DEF IInv, BoundInv, OwnReuse
  <2>9. ShownInv'
    BY <1>2, <2>4, ShownStays DEF IInv
  <2>10. LeftInv'
    <3>1. None \notin left
      BY MobileAssumption DEF IInv, TypeOK
    <3> QED
      BY <1>2, <2>4, <3>1, LeftStays DEF IInv
  <2>11. SharedInv'
    <3>1. flight' # None =>
            /\ flight' = flight /\ flow'[flight].cred = flow[flight].cred
            /\ flow'[flight].reply \in {"none", "ok"} => flow[flight].reply \in {"none", "ok"}
      BY <2>4 DEF IInv, TypeOK
    <3> QED
      BY <1>2, <2>4, <3>1, SharedStays DEF IInv
  <2>12. UnopenedInv'
    <3>1. ASSUME NEW s \in Session, s # t PROVE NoNews(s)
      <4>1. On(store, s)' => Carried(s)
        BY <1>2 DEF On, Carried
      <4>2. \A c \in strays' : c.session = s => Carried(s)
        BY <1>2 DEF Carried
      <4>3. \A h \in Flow : On(flow[h].cred, s)' \/ On(flow[h].got, s)' => On(flow[h].cred, s) \/ On(flow[h].got, s)
        BY <2>2, <2>4, <3>1 DEF On
      <4> QED
        BY <1>2, <4>1, <4>2, <4>3 DEF NoNews
    <3>2. \A s \in Session : server'[s] = "none" => server[s] = "none" /\ NoNews(s)
      BY <2>3, <3>1
    <3> QED
      BY <3>2, UnopenedStays DEF IInv
  <2>13. FreshInv'
    <3> SUFFICES ASSUME NEW h \in Flow, SignedInTo(h)' PROVE ~Seen(flow[h].got.session, Flow \ {h})'
      BY DEF FreshInv
    <3>1. Active(f) /\ Active(h)
      BY <1>1, <2>4 DEF SignedInTo, IInv, ScreenInv
    <3>2. h = f
      BY <3>1, OneActive DEF IInv
    <3> QED
      BY <1>2, <2>2, <2>4, <2>7, <3>2 DEF Seen, On
  <2>14. TokenInv'
    <3>1. \A s \in Session : Known(s)' => server[s] = "none" \/ (Known(s) /\ renewals'[s] = renewals[s])
      BY <1>2, <2>1, <2>3 DEF Known
    <3>2. \A h \in Flow : Wanted(h) /\ RenewalStays(h)
      BY <1>1, <2>4 DEF RenewalStays
    <3> QED
      BY <1>2, <2>4, <2>6, <3>1, <3>2, TokenStays DEF IInv
  <2> QED
    BY <2>4, <2>5, <2>6, <2>8, <2>9, <2>10, <2>11, <2>12, <2>13, <2>14 DEF IInv
<1> QED
  BY <1>3, <1>4 DEF AnswerSignIn

-----------------------------------------------------------------------------
(* A flow goes on, and the others stay as they are. *)

LEMMA MoveStep ==
  ASSUME IInv, NEW f \in Flow, NEW q \in FlowState, flow' = [flow EXCEPT ![f] = q],
         flow[f].kind # "none", q.kind \in {flow[f].kind, "none"}, started' = started,
         flow[f].kind = "signIn" /\ q.kind # "none" /\ flow[f].closed => q.closed,
         current' = current \/ (current = f /\ current' = None), current' = f => q.kind # "none",
         launch' = launch \/ (current' = None /\ (launch' = "out" \/ ~SigningIn)),
         q.pc \in Calls \ {"revoke"} /\ q.reply = "none" =>
           Active(f) /\ q.kind # "none" /\ current' = current /\ q.closed = flow[f].closed,
         Active(f) /\ q.kind # "none" => q.same
  PROVE  /\ flow' \in [Flow -> FlowState] /\ flow'[f] = q
         /\ \A h \in Flow : h # f =>
              /\ flow'[h] = flow[h]
              /\ Active(h)' <=> Active(h)
              /\ Wanted(h) /\ RenewalStays(h)
              /\ SignedInTo(h)' => SignedInTo(h) /\ flow'[h].got = flow[h].got
         /\ Active(f)' => Active(f) /\ q.kind = flow[f].kind
         /\ current' = current /\ q.kind = flow[f].kind /\ q.closed = flow[f].closed => (Active(f)' <=> Active(f))
         /\ SigningIn' => SigningIn
         /\ ScreenInv'
<1>1. flow \in [Flow -> FlowState] /\ f # None
  BY MobileAssumption DEF IInv, TypeOK
<1>2. flow' \in [Flow -> FlowState] /\ flow'[f] = q /\ \A h \in Flow : h # f => flow'[h] = flow[h]
  BY <1>1
<1>3. \A h \in Flow : h # f => (Active(h)' <=> Active(h))
  BY <1>1, <1>2, MobileAssumption DEF Active, Cancelled
<1>4. Active(f)' => Active(f) /\ q.kind = flow[f].kind
  BY <1>1, <1>2, FieldsOf DEF Active, Cancelled
<1>5. current' = current /\ q.kind = flow[f].kind /\ q.closed = flow[f].closed => (Active(f)' <=> Active(f))
  BY <1>1, <1>2 DEF Active, Cancelled
<1>6. \A h \in Flow : h # f => Wanted(h) /\ RenewalStays(h)
  BY <1>2, <1>3, FlowIs DEF Wanted, RenewalStays, MayRenew, IInv
<1>7. \A h \in Flow : h # f => (SignedInTo(h)' => SignedInTo(h) /\ flow'[h].got = flow[h].got)
  BY <1>2, <1>3 DEF SignedInTo
<1>8. \A h \in Flow : flow'[h].kind = "signIn" /\ ~flow'[h].closed => flow[h].kind = "signIn" /\ ~flow[h].closed
  BY <1>1, <1>2, FieldsOf
<1>9. SigningIn' => SigningIn
  BY <1>8 DEF SigningIn, IsSignIn
<1>10. ScreenInv'
  <2>1. current' # None => current' \in Flow /\ flow'[current'].kind \in {"check", "signOut"}
    BY <1>1, <1>2 DEF IInv, ScreenInv, TypeOK
  <2>2. started'
    BY DEF IInv, ScreenInv
  <2>3. launch' = "out" => ~InProgress'
    BY <1>2, <2>1 DEF IInv, ScreenInv, InProgress
  <2>4. SigningIn' => launch' = "out"
    BY <1>9 DEF IInv, ScreenInv
  <2>5. ASSUME NEW h \in Flow, NEW g \in Flow, IsSignIn(h)', ~flow'[h].closed, IsSignIn(g)', ~flow'[g].closed
        PROVE  h = g
    <3>1. IsSignIn(h) /\ ~flow[h].closed /\ IsSignIn(g) /\ ~flow[g].closed
      BY <1>8, <2>5 DEF IsSignIn
    <3> QED
      BY <3>1 DEF IInv, ScreenInv
  <2>6. \A h \in Flow : Active(h)' => flow'[h].same
    BY <1>2, <1>3, <1>4, FieldsOf DEF IInv, ScreenInv, Active
  <2>7. ASSUME NEW h \in Flow, Waiting(h)', flow'[h].pc # "revoke" PROVE Active(h)'
    <3>1. CASE h = f
      BY <1>2, <1>5, <2>7, <3>1 DEF Waiting
    <3>2. CASE h # f
      BY <1>2, <1>3, <2>7, <3>2 DEF IInv, ScreenInv, Waiting
    <3> QED
      BY <3>1, <3>2
  <2> QED
    BY <2>1, <2>2, <2>3, <2>4, <2>5, <2>6, <2>7 DEF ScreenInv
<1> QED
  BY <1>2, <1>3, <1>4, <1>5, <1>6, <1>7, <1>9, <1>10

\* Nothing but the flow, the flight and what is stored and shown changes.
LEMMA MoveNews ==
  ASSUME IInv, NEW f \in Flow, \A h \in Flow : h # f => flow'[h] = flow[h],
         flow'[f].cred \in {flow[f].cred, None}, flow'[f].got \in {flow[f].got, None},
         UNCHANGED <<serverVars, strays, history>>, store' \in {store, None}
  PROVE  /\ \A s \in Session :
              /\ NoNews(s) /\ (server'[s] = "none" => server[s] = "none")
              /\ Known(s)' => server[s] = "none" \/ (Known(s) /\ renewals'[s] = renewals[s])
         /\ UNCHANGED <<server, renewals, strays, abandoned, left>>
<1>1. UNCHANGED <<server, renewals, strays, abandoned, left>>
  BY DEF serverVars, history
<1>2. ASSUME NEW s \in Session PROVE NoNews(s)
  <2>1. On(store, s)' => Carried(s)
    BY DEF On, Carried
  <2>2. \A d \in strays' : d.session = s => Carried(s)
    BY <1>1 DEF Carried
  <2>3. \A h \in Flow : On(flow[h].cred, s)' \/ On(flow[h].got, s)' => On(flow[h].cred, s) \/ On(flow[h].got, s)
    BY DEF On
  <2> QED
    BY <1>1, <2>1, <2>2, <2>3 DEF NoNews
<1> QED
  BY <1>1, <1>2 DEF Known

\* A check or sign-in goes on with the credentials it has.
LEMMA GoesOn ==
  ASSUME IInv, NEW f \in Flow, NEW q \in FlowState, flow' = [flow EXCEPT ![f] = q],
         flow[f].kind \in {"check", "signIn"}, flow[f].pc \in {"read", "me", "wrote"},
         q.kind = flow[f].kind, q.closed = flow[f].closed, q.cred = flow[f].cred, q.got = None,
         q.pc \in {"me", "joined", "renew", "done"}, Shape(q),
         q.pc = "me" /\ q.again => MayRenew(f),
         q.reply = "none" /\ q.pc \in {"me", "renew"} => Active(f),
         q.pc = "renew" => q.reply # "ok" /\ MayRenew(f) /\ flight = None,
         q.pc = "renew" /\ q.reply = "none" /\ server[q.cred.session] = "open" => q.cred.token < MaxRenewals,
         q.reply = "none" \/ q.pc # "me" \/ q.reply = "cancelled",
         Active(f) => q.same, store' \in {store, None},
         flight' \in Flow \cup {None}, JoinInv',
         UNCHANGED <<serverVars, launch, who, started, current, foreground, strays, history, events>>
  PROVE  /\ Steady /\ TypeOK' /\ ShapeInv' /\ BoundInv' /\ ScreenInv' /\ OwnReuse'
         /\ \A h \in Flow : (h # f => flow'[h] = flow[h]) /\ (Active(h)' <=> Active(h))
         /\ flow'[f] = q
<1>1. started' = started /\ launch' = launch /\ current' = current /\ who' = who
  OBVIOUS
<1>2. q.pc \in Calls \ {"revoke"} /\ q.reply = "none" => Active(f)
  BY DEF Calls
<1>3. /\ flow' \in [Flow -> FlowState] /\ flow'[f] = q
      /\ \A h \in Flow : h # f =>
           /\ flow'[h] = flow[h]
           /\ Active(h)' <=> Active(h)
           /\ Wanted(h) /\ RenewalStays(h)
           /\ SignedInTo(h)' => SignedInTo(h) /\ flow'[h].got = flow[h].got
      /\ Active(f)' <=> Active(f)
      /\ SigningIn' => SigningIn
      /\ ScreenInv'
  BY <1>1, <1>2, MoveStep
<1>4. /\ \A s \in Session :
           /\ NoNews(s) /\ (server'[s] = "none" => server[s] = "none")
           /\ Known(s)' => server[s] = "none" \/ (Known(s) /\ renewals'[s] = renewals[s])
      /\ UNCHANGED <<server, renewals, strays, abandoned, left>>
  BY <1>3, MoveNews
<1>5. Wanted(f)
  BY <1>3 DEF Wanted, MayRenew
<1>6. RenewalStays(f)
  BY <1>3 DEF RenewalStays
<1>7. ~SignedInTo(f)'
  BY <1>3 DEF SignedInTo
<1>8. \A h \in Leaving : h \in Leaving' /\ flow'[h].same = flow[h].same /\ flow'[h].cred = flow[h].cred
  BY <1>3 DEF Leaving, IsSignOut
<1>9. Steady
  BY <1>1, <1>3, <1>4, <1>5, <1>6, <1>7, <1>8 DEF Steady, Shows, Unused
<1>10. ShapeInv'
  BY <1>3 DEF IInv, ShapeInv
<1>11. BoundInv'
  BY <1>3, <1>4 DEF IInv, BoundInv
<1>12. TypeOK'
  BY <1>3, <1>4 DEF IInv, TypeOK
<1>13. OwnReuse'
  BY <1>4 DEF IInv, OwnReuse
<1> QED
  BY <1>3, <1>9, <1>10, <1>11, <1>12, <1>13

LEMMA DoneStep ==
  ASSUME IInv, NEW f \in Flow, NEW o \in Outcome, flow' = [flow EXCEPT ![f] = Done(flow[f], o)],
         flow[f].kind \in {"check", "signIn"}, flow[f].pc \in {"read", "me"},
         flow[f].cred = None => flow[f].kind = "check" /\ o = "NoStored",
         store' \in {store, None}, flight' = flight,
         UNCHANGED <<serverVars, launch, who, started, current, foreground, strays, history, events>>
  PROVE  IInv'
<1> DEFINE q == Done(flow[f], o)
<1>1. /\ q \in FlowState /\ q.kind = flow[f].kind /\ q.pc = "done" /\ q.cred = flow[f].cred
      /\ q.same /\ q.closed = flow[f].closed /\ q.reply = "none"
      /\ q.got = None /\ q.outcome = o
  BY FlowIs, DoneIs DEF IInv
<1> HIDE DEF q
<1>2. flow' = [flow EXCEPT ![f] = q]
  BY DEF q
<1>3. Shape(q)
  BY <1>1 DEF Shape
<1>4. flow \in [Flow -> FlowState] /\ flight \in Flow \cup {None} /\ f # None
  BY MobileAssumption DEF IInv, TypeOK
<1>5. /\ flow'[f] = q /\ \A h \in Flow : h # f => flow'[h] = flow[h]
  BY <1>1, <1>2, <1>4
<1>6. JoinInv'
  <2>1. \A h \in Flow : h # f => (Active(h)' <=> Active(h))
    BY <1>5 DEF Active, Cancelled
  <2> QED
    BY <1>1, <1>5, <2>1 DEF IInv, JoinInv
<1>7. /\ Steady /\ TypeOK' /\ ShapeInv' /\ BoundInv' /\ ScreenInv' /\ OwnReuse'
  BY <1>1, <1>2, <1>3, <1>4, <1>6, GoesOn
<1>8. flight' # None => flight # f
  BY <1>4 DEF IInv, JoinInv
<1>9. Calm
  BY <1>4, <1>5, <1>7, <1>8 DEF Calm
<1> QED
  BY <1>6, <1>7, <1>9, CalmStep

LEMMA AskStep ==
  ASSUME IInv, NEW f \in Flow, flow' = [flow EXCEPT ![f] = Ask(flow[f], flow[f].cred, TRUE, Cancelled(f))],
         flow[f].kind \in {"check", "signIn"}, flow[f].pc \in {"read", "wrote"}, flow[f].cred # None,
         store' = store, flight' = flight,
         UNCHANGED <<serverVars, launch, who, started, current, foreground, strays, history, events>>
  PROVE  IInv'
<1>0. flow[f] \in FlowState /\ flow[f].cred \in Credentials /\ Cancelled(f) \in BOOLEAN
  BY FlowIs DEF IInv
<1>b. PICK b \in BOOLEAN : b = Cancelled(f)
  BY <1>0
<1>y. PICK yes \in BOOLEAN : yes
  BY TRUE \in BOOLEAN
<1> DEFINE q == Ask(flow[f], flow[f].cred, yes, b)
<1>1. /\ q \in FlowState /\ q.kind = flow[f].kind /\ q.pc = "me" /\ q.cred = flow[f].cred
      /\ q.same /\ q.closed = flow[f].closed /\ q.reply = IF b THEN "cancelled" ELSE "none"
      /\ q.got = None
  BY <1>0, AskIs
<1> HIDE DEF q
<1>2. flow' = [flow EXCEPT ![f] = q] /\ (b <=> Cancelled(f))
  BY <1>b, <1>y DEF q
<1>3. Shape(q)
  BY <1>1 DEF Shape
<1>4. flow \in [Flow -> FlowState] /\ flight \in Flow \cup {None} /\ f # None
  BY MobileAssumption DEF IInv, TypeOK
<1>5. /\ flow'[f] = q /\ \A h \in Flow : h # f => flow'[h] = flow[h]
  BY <1>1, <1>2, <1>4
<1>6. JoinInv'
  <2>1. \A h \in Flow : h # f => (Active(h)' <=> Active(h))
    BY <1>5 DEF Active, Cancelled
  <2> QED
    BY <1>1, <1>5, <2>1 DEF IInv, JoinInv
<1>7. MayRenew(f) /\ (~Cancelled(f) => Active(f))
  BY DEF MayRenew, Active
<1>8. /\ Steady /\ TypeOK' /\ ShapeInv' /\ BoundInv' /\ ScreenInv' /\ OwnReuse'
  BY <1>1, <1>2, <1>3, <1>4, <1>6, <1>7, GoesOn
<1>9. flight' # None => flight # f
  BY <1>4 DEF IInv, JoinInv
<1>10. Calm
  BY <1>4, <1>5, <1>8, <1>9 DEF Calm
<1> QED
  BY <1>6, <1>8, <1>10, CalmStep

LEMMA RenewOnceStep ==
  ASSUME IInv, NEW f \in Flow, RenewOnce(f, flow[f]), MayRenew(f),
         flow[f].kind \in {"check", "signIn"}, flow[f].cred # None,
         server[flow[f].cred.session] = "open" => flow[f].cred.token < MaxRenewals,
         store' = store,
         UNCHANGED <<serverVars, launch, who, started, current, foreground, strays, history, events>>
  PROVE  IInv'
<1>0. flow[f] \in FlowState /\ Cancelled(f) \in BOOLEAN
  BY FlowIs DEF IInv
<1>b. PICK b \in BOOLEAN : b = Cancelled(f)
  BY <1>0
<1>1. /\ flow \in [Flow -> FlowState] /\ flight \in Flow \cup {None} /\ f # None
      /\ flow[f].pc \in {"read", "me", "wrote"} /\ flow[f].got = None
  BY MobileAssumption DEF IInv, TypeOK, MayRenew, ShapeInv, Shape
<1>2. CASE flight = None
  <2> DEFINE r == [flow[f] EXCEPT !.same = TRUE]
             q == Send(r, "renew", b)
  <2>1. /\ r \in FlowState /\ r.kind = flow[f].kind /\ r.cred = flow[f].cred
        /\ r.same /\ r.closed = flow[f].closed
    BY <1>0 DEF FlowState
  <2> HIDE DEF r
  <2>2. /\ q \in FlowState /\ q.kind = flow[f].kind /\ q.pc = "renew" /\ q.cred = flow[f].cred
        /\ q.same /\ q.closed = flow[f].closed /\ q.reply = IF b THEN "cancelled" ELSE "none"
        /\ q.got = None
    <3>1. "renew" \in Calls
      BY DEF Calls
    <3> QED
      BY <2>1, <3>1, SendIs
  <2>3. flow' = [flow EXCEPT ![f] = q] /\ flight' = f /\ (b <=> Cancelled(f))
    BY <1>2, <1>b DEF RenewOnce, r
  <2> HIDE DEF q
  <2>4. Shape(q)
    BY <2>2 DEF Shape
  <2>5. /\ flow'[f] = q /\ \A h \in Flow : h # f => flow'[h] = flow[h]
    BY <1>1, <2>2, <2>3
  <2>6. JoinInv'
    <3>1. \A h \in Flow : Active(h)' <=> Active(h)
      BY <2>2, <2>5 DEF Active, Cancelled
    <3>2. \A h \in Flow : ~(Active(h) /\ flow[h].pc = "joined")
      BY <1>2 DEF IInv, JoinInv, ShapeInv, Shape
    <3>3. \A h \in Flow : ~(flow[h].pc \in {"renew", "kept"} /\ flow[h].same)
      BY <1>2, MobileAssumption DEF IInv, JoinInv
    <3> QED
      BY <2>2, <2>3, <2>5, <3>1, <3>2, <3>3 DEF JoinInv
  <2>7. Cancelled(f) \/ Active(f)
    BY DEF Active
  <2>8. /\ Steady /\ TypeOK' /\ ShapeInv' /\ BoundInv' /\ ScreenInv' /\ OwnReuse'
        /\ \A h \in Flow : Active(h)' <=> Active(h)
    BY <1>1, <1>2, <2>2, <2>3, <2>4, <2>6, <2>7, GoesOn
  <2>9. SharedInv'
    <3> SUFFICES ASSUME flow'[f].reply \in {"none", "ok"}
                 PROVE  /\ SameOf(store, flow[f].cred)'
                        /\ flow'[f].cred.session \notin left'
                        /\ \A g \in Flow \ {f} : ~Active(g)'
      BY <2>3 DEF SharedInv
    <3>1. Active(f)
      BY <2>2, <2>3, <2>5, <2>7
    <3>2. SameOf(flow[f].cred, store) /\ flow[f].cred.session \notin left
      BY <3>1 DEF IInv, ShownInv, LeftInv
    <3>3. left' = left /\ store' = store
      BY DEF history
    <3> QED
      BY <2>2, <2>5, <2>8, <3>1, <3>2, <3>3, OneActive DEF SameOf, IInv
  <2> QED
    BY <2>6, <2>8, <2>9, SteadyStep
<1>3. CASE flight # None
  <2> DEFINE r == [flow[f] EXCEPT !.pc = "joined"]
             q == [r EXCEPT !.via = flight]
  <2>1. r \in FlowState
    BY <1>1 DEF FlowState
  <2> HIDE DEF r
  <2>2. q \in FlowState
    BY <1>1, <2>1 DEF FlowState
  <2>3. /\ q.kind = flow[f].kind /\ q.pc = "joined" /\ q.cred = flow[f].cred
        /\ q.same = flow[f].same /\ q.closed = flow[f].closed /\ q.got = None /\ q.via = flight
    BY <1>1, <2>1 DEF r, FlowState
  <2>4. flow' = [flow EXCEPT ![f] = q] /\ flight' = flight
    BY <1>3 DEF RenewOnce, r
  <2> HIDE DEF q
  <2>5. Shape(q)
    BY <1>3, <2>3 DEF Shape
  <2>6. /\ flow'[f] = q /\ \A h \in Flow : h # f => flow'[h] = flow[h]
    BY <1>1, <2>2, <2>4
  <2>7. JoinInv'
    <3>1. \A h \in Flow : Active(h)' <=> Active(h)
      BY <2>3, <2>6 DEF Active, Cancelled
    <3> QED
      BY <1>1, <2>3, <2>4, <2>6, <3>1 DEF IInv, JoinInv
  <2>8. Active(f) => q.same
    BY <2>3 DEF IInv, ScreenInv
  <2>9. /\ Steady /\ TypeOK' /\ ShapeInv' /\ BoundInv' /\ ScreenInv' /\ OwnReuse'
    BY <1>1, <2>2, <2>3, <2>4, <2>5, <2>7, <2>8, GoesOn
  <2>10. flight # f
    BY <1>1 DEF IInv, JoinInv
  <2>11. Calm
    BY <1>1, <2>4, <2>6, <2>9, <2>10 DEF Calm
  <2> QED
    BY <2>7, <2>9, <2>11, CalmStep
<1> QED
  BY <1>2, <1>3

LEMMA ResolveStep ==
  ASSUME IInv, NEW f \in Flow, Resolve(f, flow[f].cred),
         flow[f].kind \in {"check", "signIn"}, flow[f].pc \in {"read", "wrote"}, flow[f].cred # None,
         store' = store,
         UNCHANGED <<serverVars, launch, who, started, current, foreground, strays, history, events>>
  PROVE  IInv'
<1>1. CASE flow' = [flow EXCEPT ![f] = Ask(flow[f], flow[f].cred, TRUE, Cancelled(f))] /\ flight' = flight
  BY <1>1, AskStep
<1>2. CASE flow[f].cred.token < MaxRenewals /\ RenewOnce(f, [flow[f] EXCEPT !.cred = flow[f].cred])
  <2>1. [flow[f] EXCEPT !.cred = flow[f].cred] = flow[f]
    BY DEF IInv, TypeOK, FlowState
  <2>2. MayRenew(f)
    BY DEF MayRenew
  <2>3. RenewOnce(f, flow[f])
    BY <1>2, <2>1
  <2> QED
    BY <1>2, <2>2, <2>3, RenewOnceStep
<1> QED
  BY <1>1, <1>2 DEF Resolve

-----------------------------------------------------------------------------
(* A flow ends, or a sign-out goes on. *)

LEMMA EndsStep ==
  ASSUME IInv, NEW f \in Flow, NEW q \in FlowState, flow' = [flow EXCEPT ![f] = q],
         flow[f].kind # "none", flow[f].pc \notin {"renew", "kept"},
         q.kind = "none" \/ (q.kind = "signOut" /\ flow[f].kind = "signOut"),
         q.pc \in {"idle", "cleared", "revoke"}, Shape(q), q.cred \in {flow[f].cred, None},
         started' = started, foreground' = foreground, flight' = flight, events' = events,
         UNCHANGED <<serverVars, strays, history>>, store' \in {store, None},
         current' = current \/ (current = f /\ current' = None), current' = f => q.kind # "none",
         launch' \in {"checking", "retrying", "error", "out", "denied", "authenticated"},
         launch' = launch \/ (current' = None /\ (launch' = "out" \/ launch # "out")),
         launch = "out" => launch' = "out", who' \in Session \cup {None}, Shows,
         store' = None \/ f \notin Leaving \/ ~flow[f].same
           \/ (q.kind = "signOut" /\ q.pc = "revoke" /\ q.cred = flow[f].cred /\ q.same)
  PROVE  IInv'
<1>1. launch' = launch \/ (current' = None /\ (launch' = "out" \/ ~SigningIn))
  BY DEF IInv, ScreenInv
<1>2. q.kind \in {flow[f].kind, "none"} /\ (flow[f].kind = "signIn" => q.kind = "none")
  OBVIOUS
<1>3. ~(q.pc \in Calls \ {"revoke"}) /\ ~(Active(f) /\ q.kind # "none")
  BY DEF Calls, Active
<1>4. /\ flow' \in [Flow -> FlowState] /\ flow'[f] = q
      /\ \A h \in Flow : h # f =>
           /\ flow'[h] = flow[h]
           /\ Active(h)' <=> Active(h)
           /\ Wanted(h) /\ RenewalStays(h)
           /\ SignedInTo(h)' => SignedInTo(h) /\ flow'[h].got = flow[h].got
      /\ Active(f)' => Active(f) /\ q.kind = flow[f].kind
      /\ SigningIn' => SigningIn
      /\ ScreenInv'
  BY <1>1, <1>2, <1>3, MoveStep
<1>5. q.got = None
  BY DEF Shape
<1>6. /\ \A s \in Session :
           /\ NoNews(s) /\ (server'[s] = "none" => server[s] = "none")
           /\ Known(s)' => server[s] = "none" \/ (Known(s) /\ renewals'[s] = renewals[s])
      /\ UNCHANGED <<server, renewals, strays, abandoned, left>>
  BY <1>4, <1>5, MoveNews
<1>7. ~Active(f)' /\ Wanted(f) /\ RenewalStays(f) /\ ~SignedInTo(f)'
  BY <1>4 DEF Wanted, RenewalStays, SignedInTo, Active
<1>8. TypeOK'
  BY <1>4, <1>6 DEF IInv, TypeOK
<1>9. ShapeInv' /\ BoundInv' /\ OwnReuse'
  BY <1>4, <1>6 DEF IInv, ShapeInv, BoundInv, OwnReuse
<1>10. f # flight
  BY MobileAssumption DEF IInv, JoinInv
<1>11. JoinInv'
  BY <1>4, <1>7, <1>10 DEF IInv, JoinInv
<1>12. store' = None \/ \A h \in Leaving : flow[h].same =>
         h \in Leaving' /\ flow'[h].same /\ flow'[h].cred = flow[h].cred
  BY <1>4 DEF Leaving, IsSignOut
<1>13. Unused => launch' = "out"
  BY DEF Unused
<1>14. launch = "out" /\ ~SigningIn => launch' = "out" /\ ~SigningIn'
  BY <1>4
<1>15. flight' # None =>
       /\ flight' = flight /\ flow'[flight].cred = flow[flight].cred
       /\ flow'[flight].reply \in {"none", "ok"} => flow[flight].reply \in {"none", "ok"}
  BY <1>4, <1>10 DEF IInv, TypeOK
<1>16. Calm
  <2>1. \A h \in Flow : /\ Wanted(h) /\ RenewalStays(h)
                        /\ SignedInTo(h)' => SignedInTo(h) /\ flow'[h].got = flow[h].got
    BY <1>4, <1>7
  <2>2. Steady
    BY <1>6, <1>12, <1>13, <1>14, <2>1 DEF Steady
  <2> QED
    BY <1>15, <2>2 DEF Calm
<1> QED
  BY <1>4, <1>8, <1>9, <1>11, <1>16, CalmStep

LEMMA IdleStep ==
  ASSUME IInv, NEW f \in Flow, flow' = [flow EXCEPT ![f] = Idle],
         flow[f].kind # "none", flow[f].pc \notin {"renew", "kept"}, f \notin Leaving,
         started' = started, foreground' = foreground, flight' = flight, events' = events, store' = store,
         UNCHANGED <<serverVars, strays, history>>,
         \/ UNCHANGED <<launch, who, current>>  /\ current # f
         \/ current = f /\ current' = None /\ UNCHANGED <<launch, who>>
         \/ current = f /\ current' = None /\ launch' = "out" /\ who' = None
         \/ /\ current = f /\ current' = None /\ launch # "out" /\ Shows
            /\ launch' \in {"out", "error", "denied", "authenticated"} /\ who' \in Session \cup {None}
  PROVE  IInv'
<1>1. Shows
  BY DEF Shows
<1>2. PICK q \in FlowState : q = Idle
  BY IdleIs
<1>3. /\ q.kind = "none" /\ q.pc = "idle" /\ q.cred = None /\ q.got = None
      /\ flow' = [flow EXCEPT ![f] = q]
  BY <1>2, IdleIs
<1>4. Shape(q)
  BY <1>3 DEF Shape
<1>5. /\ launch \in {"checking", "retrying", "error", "out", "denied", "authenticated"}
      /\ who \in Session \cup {None} /\ f # None
  BY MobileAssumption DEF IInv, TypeOK
<1>6. /\ current' = current \/ (current = f /\ current' = None)
      /\ current' # f
      /\ launch' \in {"checking", "retrying", "error", "out", "denied", "authenticated"}
      /\ launch' = launch \/ (current' = None /\ (launch' = "out" \/ launch # "out"))
      /\ launch = "out" => launch' = "out"
      /\ who' \in Session \cup {None}
  BY <1>5
<1> QED
  BY <1>1, <1>3, <1>4, <1>6, EndsStep

LEMMA ClearedIs ==
  LET q == [Idle EXCEPT !.kind = "signOut", !.pc = "cleared"] IN
  /\ q \in FlowState /\ q.kind = "signOut" /\ q.pc = "cleared" /\ q.cred = None
  /\ q.got = None
<1> DEFINE q1 == [Idle EXCEPT !.kind = "signOut"]
           q2 == [q1 EXCEPT !.pc = "cleared"]
<1> HIDE DEF q1, q2
<1>1. q1 \in FlowState /\ q1.kind = "signOut" /\ q1.cred = None /\ q1.got = None
  BY IdleIs DEF q1, FlowState
<1>2. q2 \in FlowState /\ q2.kind = "signOut" /\ q2.pc = "cleared" /\ q2.cred = None /\ q2.got = None
  BY <1>1 DEF q2, FlowState
<1>3. [Idle EXCEPT !.kind = "signOut", !.pc = "cleared"] = q2
  BY DEF q1, q2
<1> QED
  BY <1>2, <1>3

LEMMA ClearStep ==
  ASSUME IInv, NEW f \in Flow, ClearOwn(f), IsSignOut(f),
         flow[f].cred = None \/ flow[f].pc = "revoke",
         UNCHANGED <<serverVars, process, strays, history, events>>
  PROVE  IInv'
<1>1. PICK q \in FlowState : q = [Idle EXCEPT !.kind = "signOut", !.pc = "cleared"]
  BY ClearedIs
<1>2. /\ q.kind = "signOut" /\ q.pc = "cleared" /\ q.cred = None /\ q.got = None
      /\ flow' = [flow EXCEPT ![f] = q]
  BY <1>1, ClearedIs DEF ClearOwn
<1>3. Shape(q)
  BY <1>2 DEF Shape
<1>4. UNCHANGED <<launch, who, started, current, flight, foreground>>
  BY DEF process
<1>5. /\ launch \in {"checking", "retrying", "error", "out", "denied", "authenticated"}
      /\ who \in Session \cup {None} /\ flow[f].pc \in {"read", "revoke", "cleared"}
      /\ flow[f].kind = "signOut"
  BY DEF IInv, TypeOK, ShapeInv, Shape, IsSignOut
<1>6. store' \in {store, None} /\ (store' = None \/ f \notin Leaving \/ ~flow[f].same)
  BY DEF ClearOwn, Leaving
<1>7. Shows
  BY <1>4 DEF Shows
<1> QED
  BY <1>2, <1>3, <1>4, <1>5, <1>6, <1>7, EndsStep

LEMMA RevokeStep ==
  ASSUME IInv, NEW f \in Flow, RevokeStored(f)
  PROVE  IInv'
<1>1. IsSignOut(f) /\ flow[f].pc = "read" /\ UNCHANGED <<serverVars, process, strays, history, events>>
  BY DEF RevokeStored
<1>2. CASE flow[f].cred = None
  BY <1>1, <1>2, ClearStep DEF RevokeStored
<1>3. CASE flow[f].cred # None
  <2>y. PICK no \in BOOLEAN : ~no
    BY FALSE \in BOOLEAN
  <2>0. "revoke" \in Calls /\ flow[f] \in FlowState
    BY FlowIs DEF Calls, IInv
  <2> DEFINE q == Send(flow[f], "revoke", no)
  <2>1. /\ q \in FlowState /\ q.kind = flow[f].kind /\ q.pc = "revoke" /\ q.cred = flow[f].cred
        /\ q.same = flow[f].same /\ q.got = None
    BY <2>0, SendIs
  <2>2. flow' = [flow EXCEPT ![f] = q] /\ store' = store
    BY <1>3, <2>y DEF RevokeStored
  <2> HIDE DEF q
  <2>3. Shape(q)
    BY <1>1, <1>3, <2>1 DEF Shape, IsSignOut
  <2>4. UNCHANGED <<launch, who, started, current, flight, foreground>>
    BY <1>1 DEF process
  <2>5. /\ launch \in {"checking", "retrying", "error", "out", "denied", "authenticated"}
        /\ who \in Session \cup {None} /\ flow[f].kind = "signOut" /\ flow[f].same \in BOOLEAN
    BY <1>1, FlowIs DEF IInv, TypeOK, IsSignOut
  <2>6. Shows
    BY <2>4 DEF Shows
  <2> QED
    BY <1>1, <2>1, <2>2, <2>3, <2>4, <2>5, <2>6, EndsStep
<1> QED
  BY <1>2, <1>3

LEMMA RevokedStep ==
  ASSUME IInv, NEW f \in Flow, Revoked(f)
  PROVE  IInv'
<1>1. IsSignOut(f)
  BY DEF Revoked, IInv, ShapeInv, Shape, IsSignOut, TypeOK, FlowState
<1> QED
  BY <1>1, ClearStep DEF Revoked

LEMMA SignedOutStep ==
  ASSUME IInv, NEW f \in Flow, SignedOut(f)
  PROVE  IInv'
<1>1. flow[f].kind = "signOut" /\ f \notin Leaving /\ flow[f].pc = "cleared"
  BY DEF SignedOut, IInv, ShapeInv, Shape, Leaving, TypeOK, FlowState
<1> QED
  BY <1>1, IdleStep DEF SignedOut

LEMMA CheckedStep ==
  ASSUME IInv, NEW f \in Flow, Checked(f)
  PROVE  IInv'
<1>1. /\ flow[f].kind = "check" /\ flow[f].pc = "done" /\ f \notin Leaving
      /\ current' = (IF current = f THEN None ELSE current) /\ flow' = [flow EXCEPT ![f] = Idle]
      /\ UNCHANGED <<serverVars, store, started, flight, foreground, strays, history, events>>
  BY DEF Checked, Leaving, IsSignOut
<1>2. CASE launch' = launch /\ who' = who
  BY <1>1, <1>2, IdleStep
<1>3. CASE current = f /\ Apply(flow[f].outcome, IF flow[f].cred = None THEN None ELSE flow[f].cred.session)
  <2>1. PICK o \in Outcome : o = flow[f].outcome
    BY FlowIs DEF IInv
  <2>2. PICK s : s = IF flow[f].cred = None THEN None ELSE flow[f].cred.session
    OBVIOUS
  <2>3. /\ launch' \in {"out", "error", "denied", "authenticated"} /\ who' \in {s, None}
        /\ launch' = "authenticated" \/ who' # None => o = "Resolved" /\ who' = s
    BY <1>3, <2>1, <2>2 DEF Apply, Outcome
  <2>4. s \in Session \cup {None} /\ (o = "Resolved" => flow[f].cred # None)
    BY <1>1, <2>1, <2>2, FlowIs, NoneIs DEF IInv, ShapeInv, Shape
  <2>5. launch # "out" /\ Active(f)
    <3>1. f # None
      BY MobileAssumption
    <3> QED
      BY <1>1, <1>3, <3>1 DEF IInv, ScreenInv, InProgress, Active, Cancelled
  <2>6. \A g \in Flow : ~Active(g)'
    <3>1. \A g \in Flow : g # f => ~Active(g) /\ flow'[g] = flow[g]
      BY <1>1, <2>5, OneActive DEF IInv, TypeOK
    <3>2. flow'[f].kind = "none"
      BY <1>1, IdleIs DEF IInv, TypeOK
    <3>3. current' = None
      BY <1>1, <1>3
    <3> QED
      BY <3>1, <3>2, <3>3, MobileAssumption DEF Active, Cancelled
  <2>7. Shows
    BY <2>2, <2>3, <2>4, <2>5, <2>6 DEF Shows
  <2> QED
    BY <1>1, <1>3, <2>3, <2>4, <2>5, <2>7, IdleStep
<1> QED
  BY <1>2, <1>3 DEF Checked

LEMMA StoredStep ==
  ASSUME IInv, NEW f \in Flow, Stored(f)
  PROVE  IInv'
<1>1. /\ flow[f].kind = "check" /\ flow[f].pc = "read"
      /\ UNCHANGED <<serverVars, launch, who, started, current, foreground, strays, history, events>>
  BY DEF Stored
<1>2. CASE /\ flow[f].cred = None /\ flow' = [flow EXCEPT ![f] = Done(@, "NoStored")]
           /\ UNCHANGED <<store, flight>>
  <2>1. "NoStored" \in Outcome
    BY DEF Outcome
  <2>2. PICK o \in Outcome : o = "NoStored"
    BY <2>1
  <2>3. flow' = [flow EXCEPT ![f] = Done(flow[f], o)]
    BY <1>2, <2>2 DEF IInv, TypeOK
  <2> QED
    BY <1>1, <1>2, <2>2, <2>3, DoneStep
<1>3. CASE /\ flow[f].cred # None /\ store' = None
           /\ flow' = [flow EXCEPT ![f] = Done(@, "Invalid")] /\ UNCHANGED flight
  <2>1. "Invalid" \in Outcome
    BY DEF Outcome
  <2>2. PICK o \in Outcome : o = "Invalid"
    BY <2>1
  <2>3. flow' = [flow EXCEPT ![f] = Done(flow[f], o)]
    BY <1>3, <2>2 DEF IInv, TypeOK
  <2> QED
    BY <1>1, <1>3, <2>2, <2>3, DoneStep
<1>4. CASE flow[f].cred # None /\ Resolve(f, flow[f].cred) /\ UNCHANGED store
  BY <1>1, <1>4, ResolveStep
<1> QED
  BY <1>2, <1>3, <1>4 DEF Stored

LEMMA IdentifiedStep ==
  ASSUME IInv, NEW f \in Flow, Identified(f)
  PROVE  IInv'
<1>1. /\ flow[f].pc = "me" /\ flow[f].kind \in {"check", "signIn"} /\ flow[f].cred # None
      /\ UNCHANGED <<serverVars, launch, who, started, current, foreground, strays, history, events>>
  BY FlowIs, FieldsOf DEF Identified, IInv, ShapeInv, Shape
<1>2. CASE /\ flow[f].reply = "refused" /\ flow[f].again
           /\ RenewOnce(f, flow[f]) /\ UNCHANGED store
  <2>1. MayRenew(f)
    BY <1>1, <1>2 DEF MayRenew
  <2>2. server[flow[f].cred.session] = "open" => flow[f].cred.token < MaxRenewals
    BY <1>1, <1>2 DEF IInv, BoundInv
  <2> QED
    BY <1>1, <1>2, <2>1, <2>2, RenewOnceStep
<1>3. ASSUME NEW o \in Outcome, flow' = [flow EXCEPT ![f] = Done(@, o)],
             store' \in {store, None}, flight' = flight
      PROVE  IInv'
  <2>1. flow' = [flow EXCEPT ![f] = Done(flow[f], o)]
    BY <1>3 DEF IInv, TypeOK
  <2> QED
    BY <1>1, <1>3, <2>1, DoneStep
<1>4. DEFINE r == flow[f]
             o == IF ~r.same \/ (r.reply = "ok" /\ Cancelled(f)) THEN "Cancelled"
                  ELSE IF r.reply = "ok" THEN "Resolved"
                  ELSE IF r.reply = "denied" THEN "Denied"
                  ELSE IF r.reply = "refused" THEN "Invalid" ELSE "Transient"
<1>5. o \in Outcome /\ (o = "Invalid" => r.reply = "refused")
  BY DEF Outcome
<1>6. \/ o = "Invalid" /\ r.again /\ RenewOnce(f, r) /\ UNCHANGED store
      \/ /\ flow' = [flow EXCEPT ![f] = Done(@, o)]
         /\ store' = (IF o = "Invalid" THEN None ELSE store)
         /\ UNCHANGED flight
  BY DEF Identified
<1> HIDE DEF o
<1> QED
  BY <1>2, <1>3, <1>5, <1>6

LEMMA WroteStep ==
  ASSUME IInv, NEW f \in Flow, Wrote(f)
  PROVE  IInv'
<1>1. flow[f].pc = "wrote" /\ flow[f].kind \in {"check", "signIn"} /\ flow[f].cred # None
  BY FlowIs, FieldsOf DEF Wrote, IInv, ShapeInv, Shape
<1> QED
  BY <1>1, ResolveStep DEF Wrote

LEMMA SignInFailed ==
  ASSUME IInv, NEW f \in Flow, SignedIn(f), ~(flow[f].reply = "ok" /\ ~Cancelled(f))
  PROVE  IInv'
<1>1. /\ flow[f].pc = "sign" /\ flow[f].kind = "signIn" /\ f \notin Leaving /\ current # f
      /\ flow' = [flow EXCEPT ![f] = Idle] /\ store' = store
      /\ UNCHANGED <<serverVars, launch, who, started, current, flight, foreground, strays, history, events>>
  BY FlowIs, FieldsOf, MobileAssumption DEF SignedIn, IInv, ShapeInv, Shape, ScreenInv, Leaving, process
<1> QED
  BY <1>1, IdleStep

\* The session is new: nobody else knows it, and the flow is the only active one.
LEMMA SignInStored ==
  ASSUME IInv, NEW f \in Flow, SignedIn(f), flow[f].reply = "ok", ~Cancelled(f)
  PROVE  IInv'
<1>1. /\ flow[f].pc = "sign" /\ store' = flow[f].got
      /\ flow' = [flow EXCEPT ![f] = [Idle EXCEPT !.kind = "signIn", !.pc = "wrote", !.cred = flow[f].got]]
      /\ UNCHANGED <<server, renewals, launch, who, started, current, flight, foreground, strays, abandoned, left, events>>
  BY DEF SignedIn, serverVars, process, history
<1>2. /\ flow[f].kind = "signIn" /\ ~flow[f].closed /\ flow[f].got # None /\ flow[f].got.token = 0
      /\ flow[f].got \in Credentials /\ flow[f].got.session \in Session
      /\ flow \in [Flow -> FlowState] /\ f # None
  BY <1>1, FlowIs, NoneIs, FieldsOf, MobileAssumption DEF IInv, TypeOK, ShapeInv, Shape, Cancelled
<1>3. PICK t \in Session : flow[f].got.session = t
  BY <1>2
<1>4. Active(f) /\ SignedInTo(f)
  BY <1>1, <1>2 DEF Active, SignedInTo
<1>5. ~Seen(t, Flow \ {f})
  BY <1>3, <1>4 DEF IInv, FreshInv
<1> DEFINE
     q1 == [Idle EXCEPT !.kind = "signIn"]
     q2 == [q1 EXCEPT !.pc = "wrote"]
     q3 == [q2 EXCEPT !.cred = flow[f].got]
<1> HIDE DEF q1, q2, q3
<1>6. /\ q3 \in FlowState /\ q3.kind = "signIn" /\ q3.pc = "wrote" /\ q3.cred = flow[f].got
      /\ q3.same /\ ~q3.closed /\ q3.reply = "none" /\ q3.got = None
  <2>1. q1 \in FlowState /\ q1.kind = "signIn" /\ q1.same /\ ~q1.closed /\ q1.reply = "none" /\ q1.got = None
    BY IdleIs DEF q1, FlowState
  <2>2. /\ q2 \in FlowState /\ q2.kind = "signIn" /\ q2.pc = "wrote" /\ q2.same /\ ~q2.closed
        /\ q2.reply = "none" /\ q2.got = None
    BY <2>1 DEF q2, FlowState
  <2> QED
    BY <1>2, <2>2 DEF q3, FlowState
<1>7. flow' = [flow EXCEPT ![f] = q3]
  BY <1>1 DEF q1, q2, q3
<1>8. /\ flow' \in [Flow -> FlowState] /\ flow'[f] = q3 /\ \A h \in Flow : h # f => flow'[h] = flow[h]
  BY <1>2, <1>6, <1>7
<1>9. \A h \in Flow : (Active(h) => h = f) /\ (Active(h)' <=> Active(h))
  <2>1. \A h \in Flow : Active(h) => h = f
    BY <1>4, OneActive DEF IInv
  <2>2. \A h \in Flow : Active(h)' <=> Active(h)
    BY <1>1, <1>2, <1>6, <1>8 DEF Active, Cancelled
  <2> QED
    BY <2>1, <2>2
<1>10. SigningIn /\ launch = "out"
  BY <1>2 DEF SigningIn, IsSignIn, IInv, ScreenInv
<1>11. TypeOK'
  BY <1>1, <1>2, <1>8 DEF IInv, TypeOK
<1>12. ShapeInv'
  BY <1>2, <1>6, <1>8 DEF IInv, ShapeInv, Shape
<1>13. BoundInv' /\ OwnReuse'
  BY <1>1, <1>6, <1>8 DEF IInv, BoundInv, OwnReuse
<1>14. ScreenInv'
  <2>1. \A h \in Flow : /\ flow'[h].kind = flow[h].kind /\ flow'[h].closed = flow[h].closed
                        /\ Waiting(h)' => Waiting(h) /\ flow'[h] = flow[h]
    BY <1>2, <1>6, <1>8, FieldsOf DEF Waiting, Calls
  <2>2. \A h \in Flow : Active(h)' => flow'[h].same
    BY <1>6, <1>8, <1>9
  <2>3. InProgress' <=> InProgress
    BY <1>1, <2>1 DEF InProgress, IInv, TypeOK
  <2>4. SigningIn' <=> SigningIn
    BY <2>1 DEF SigningIn, IsSignIn
  <2> QED
    BY <1>1, <1>9, <2>1, <2>2, <2>3, <2>4 DEF IInv, TypeOK, ScreenInv, IsSignIn
<1>15. flight # f
  BY <1>1, <1>2 DEF IInv, JoinInv
<1>16. JoinInv'
  BY <1>1, <1>6, <1>8, <1>9, <1>15 DEF IInv, JoinInv
<1>17. SharedInv'
  <2>1. ~(flight # None /\ flow[flight].reply \in {"none", "ok"})
    BY <1>2, <1>4, <1>15 DEF IInv, SharedInv
  <2>2. flight # None => flow'[flight] = flow[flight]
    BY <1>8, <1>15 DEF IInv, TypeOK
  <2> QED
    BY <1>1, <2>1, <2>2 DEF SharedInv
<1>18. ShownInv'
  BY <1>1, <1>6, <1>8, <1>9, <1>10 DEF ShownInv, SameOf, ShownIsStored
<1>19. LeftInv'
  <2>1. t \notin left
    BY <1>5 DEF Seen
  <2> QED
    BY <1>1, <1>3, <1>6, <1>8, <1>9, <2>1 DEF IInv, LeftInv
<1>20. UnopenedInv'
  <2> SUFFICES ASSUME NEW s \in Session, server[s] = "none", Seen(s, Flow)' PROVE FALSE
    BY <1>1 DEF UnopenedInv
  <2>1. On(flow[f].got, s) => Seen(s, Flow)
    BY DEF Seen
  <2>2. ASSUME NEW h \in Flow, On(flow[h].cred, s)' \/ On(flow[h].got, s)' PROVE Seen(s, Flow)
    BY <1>6, <1>8, <2>1, <2>2 DEF On, Seen
  <2>3. On(store, s)' => Seen(s, Flow)
    BY <1>1, <2>1 DEF On
  <2>4. Seen(s, Flow)
    BY <1>1, <2>2, <2>3 DEF Seen
  <2> QED
    BY <2>4 DEF IInv, UnopenedInv
<1>21. FreshInv'
  BY <1>6, <1>8, <1>9 DEF FreshInv, SignedInTo
<1>22. TokenInv'
  <2>1. \A h \in Flow : ~On(flow[h].cred, t) /\ ~Unread(h, t) /\ (Unread(h, t)' => Unread(h, t))
    <3>1. \A h \in Flow : h # f => ~On(flow[h].cred, t)
      BY <1>5 DEF Seen
    <3>2. flow[f].cred = None
      BY <1>1 DEF IInv, ShapeInv, Shape
    <3>3. \A h \in Flow : ~On(flow[h].cred, t)
      BY <3>1, <3>2 DEF On
    <3>4. \A h \in Flow : ~Unread(h, t)
      BY <3>3 DEF Unread, On, IInv, ShapeInv, Shape
    <3>5. \A h \in Flow : Unread(h, t)' => Unread(h, t)
      BY <1>6, <1>8 DEF Unread
    <3> QED
      BY <3>3, <3>4, <3>5
  <2>2. renewals[t] = 0
    BY <1>5 DEF Seen
  <2>3. store'.token = renewals'[t] /\ store'.session = t /\ flow'[f].cred = store'
    BY <1>1, <1>2, <1>3, <1>6, <1>8, <2>2
  <2>4. \A s \in Session : On(store, s)' => s = t
    BY <1>1, <1>3 DEF On
  <2>5. \A s \in Session, h \in Flow : Active(h)' /\ On(flow[h].cred, s)' => h = f /\ s = t
    BY <1>3, <1>6, <1>8, <1>9 DEF On
  <2>6. UpToDate(store)' /\ UpToDate(flow[f].cred)'
    BY <2>3 DEF UpToDate
  <2>7. \A s \in Session : ~(Waiting(f)' /\ flow'[f].pc = "renew") /\ ~Unread(f, s)'
    BY <1>6, <1>8 DEF Unread
  <2>8. \A h \in Flow, s \in Session : Unread(h, s)' => s # t
    BY <2>1
  <2> HIDE DEF UpToDate, On, Unread, Waiting, Active, MayRenew
  <2> QED
    BY <2>4, <2>5, <2>6, <2>7, <2>8 DEF TokenInv
<1> QED
  BY <1>11, <1>12, <1>13, <1>14, <1>16, <1>17, <1>18, <1>19, <1>20, <1>21, <1>22 DEF IInv

LEMMA FinishedStep ==
  ASSUME IInv, NEW f \in Flow, FinishSignIn(f)
  PROVE  IInv'
<1>1. /\ flow[f].kind = "signIn" /\ flow[f].pc = "done" /\ f \notin Leaving /\ f # None
      /\ flow \in [Flow -> FlowState]
      /\ UNCHANGED <<server, renewals, store, started, flight, foreground, left, events>>
  BY MobileAssumption DEF FinishSignIn, IsSignIn, Leaving, IsSignOut, serverVars, IInv, TypeOK
<1>2. CASE /\ flow' = [flow EXCEPT ![f] = Idle]
           /\ UNCHANGED <<launch, who, current, strays, abandoned>>
  <2>1. current # f
    BY <1>1 DEF IInv, ScreenInv
  <2>2. UNCHANGED <<serverVars, strays, history>>
    BY <1>1, <1>2 DEF serverVars, history
  <2> QED
    BY <1>1, <1>2, <2>1, <2>2, IdleStep
<1>3. CASE /\ ~flow[f].closed
           /\ GiveUp(ActiveCheck)
           /\ flow' = [CheckCancelled EXCEPT ![f] = Idle]
           /\ current' = None
           /\ Apply(flow[f].outcome, flow[f].cred.session)
  <2>1. launch = "out" /\ SigningIn /\ ~InProgress
    BY <1>1, <1>3 DEF SigningIn, IsSignIn, IInv, ScreenInv
  <2>2. ActiveCheck = {} /\ CheckCancelled = flow
    BY <1>1, <2>1 DEF ActiveCheck, CheckCancelled
  <2>3. strays' \subseteq strays /\ abandoned' = abandoned
    BY <1>3, <2>2 DEF GiveUp, Requests, Renewing, SessionsOf
  <2>4. /\ flow' \in [Flow -> FlowState] /\ flow'[f] = Idle /\ \A h \in Flow : h # f => flow'[h] = flow[h]
    BY <1>1, <1>3, <2>2, IdleIs
  <2>5. Active(f)
    BY <1>1, <1>3 DEF Active, Cancelled
  <2>6. \A h \in Flow : (Active(h) => h = f) /\ ~Active(h)'
    <3>1. \A h \in Flow : Active(h) => h = f
      BY <2>5, OneActive DEF IInv
    <3>2. \A h \in Flow : h # f => (Active(h)' => Active(h))
      BY <1>3, <2>4, MobileAssumption DEF Active, Cancelled
    <3>3. ~Active(f)'
      BY <2>4, IdleIs DEF Active
    <3> QED
      BY <3>1, <3>2, <3>3
  <2>7. PICK o \in Outcome : o = flow[f].outcome
    BY FlowIs DEF IInv
  <2>8. PICK s \in Session : s = flow[f].cred.session
    BY <1>1, FlowIs, NoneIs DEF IInv, ShapeInv, Shape
  <2>9. /\ launch' \in {"out", "error", "denied", "authenticated"} /\ who' \in {s, None}
        /\ launch' = "authenticated" \/ who' # None => who' = s
    BY <1>3, <2>7, <2>8 DEF Apply, Outcome
  <2>10. Shows
    <3>1. flow[f].cred # None
      BY <1>1 DEF IInv, ShapeInv, Shape
    <3> QED
      BY <2>5, <2>6, <2>8, <2>9, <3>1 DEF Shows
  <2>11. TypeOK'
    BY <1>1, <1>3, <2>3, <2>4, <2>9 DEF IInv, TypeOK
  <2>12. ShapeInv' /\ BoundInv' /\ OwnReuse'
    BY <1>1, <2>3, <2>4, IdleIs DEF IInv, ShapeInv, Shape, BoundInv, OwnReuse
  <2>13. ScreenInv'
    <3>1. ~SigningIn' /\ \A h \in Flow : ~(IsSignIn(h)' /\ ~flow'[h].closed)
      BY <1>1, <1>3, <2>4, IdleIs DEF SigningIn, IsSignIn, IInv, ScreenInv
    <3>2. started' /\ ~InProgress'
      BY <1>1, <1>3 DEF InProgress, IInv, ScreenInv
    <3>3. ASSUME NEW h \in Flow, Waiting(h)', flow'[h].pc # "revoke" PROVE FALSE
      <4>1. h # f /\ flow'[h] = flow[h]
        BY <2>4, <3>3, IdleIs DEF Waiting, Calls
      <4> QED
        BY <2>6, <3>3, <4>1 DEF Waiting, IInv, ScreenInv
    <3> QED
      BY <1>3, <2>6, <3>1, <3>2, <3>3 DEF ScreenInv
  <2>14. flight # f
    BY <1>1 DEF IInv, JoinInv
  <2>15. JoinInv'
    BY <1>1, <2>4, <2>6, <2>14, IdleIs DEF IInv, JoinInv
  <2>16. \A h \in Flow : /\ Wanted(h) /\ RenewalStays(h)
                         /\ SignedInTo(h)' => SignedInTo(h) /\ flow'[h].got = flow[h].got
    <3>1. \A h \in Flow : Wanted(h) /\ ~SignedInTo(h)'
      BY <2>6 DEF Wanted, SignedInTo
    <3>2. \A h \in Flow : RenewalStays(h)
      BY <1>1, <2>4, IdleIs DEF RenewalStays
    <3> QED
      BY <3>1, <3>2
  <2>17. ASSUME NEW t \in Session PROVE NoNews(t)
    <3>1. On(store, t)' => Carried(t)
      BY <1>1 DEF On, Carried
    <3>2. \A d \in strays' : d.session = t => Carried(t)
      BY <2>3 DEF Carried
    <3>3. \A h \in Flow : On(flow[h].cred, t)' \/ On(flow[h].got, t)' => On(flow[h].cred, t) \/ On(flow[h].got, t)
      BY <2>4, IdleIs DEF On
    <3> QED
      BY <1>1, <3>1, <3>2, <3>3 DEF NoNews
  <2>18. \A t \in Session : Known(t)' => Known(t)
    BY <1>1, <2>3 DEF Known
  <2>19. \A h \in Leaving : flow[h].same => h \in Leaving' /\ flow'[h].same /\ flow'[h].cred = flow[h].cred
    BY <1>1, <2>4 DEF Leaving, IsSignOut
  <2>20. ~Unused
    BY <1>1, <2>5 DEF Unused
  <2>21. Steady
    BY <1>1, <2>1, <2>10, <2>16, <2>17, <2>18, <2>19, <2>20 DEF Steady
  <2>22. Calm
    BY <1>1, <2>4, <2>14, <2>21 DEF Calm, IInv, TypeOK
  <2> QED
    BY <2>11, <2>12, <2>13, <2>15, <2>22, CalmStep
<1> QED
  BY <1>2, <1>3 DEF FinishSignIn

LEMMA ClosedStep ==
  ASSUME IInv, NEW f \in Flow, CloseSignIn(f)
  PROVE  IInv'
<1>1. /\ flow[f].kind = "signIn" /\ ~flow[f].closed /\ f # None /\ flow[f] \in FlowState
      /\ flow \in [Flow -> FlowState] /\ GiveUp({f})
      /\ UNCHANGED <<server, renewals, store, launch, who, started, current, flight, foreground, left, events>>
  BY MobileAssumption DEF CloseSignIn, IsSignIn, serverVars, process, IInv, TypeOK
<1> DEFINE r == CancelCall(flow[f])
           q == [r EXCEPT !.closed = TRUE]
<1>2. /\ r \in FlowState
      /\ r.kind = flow[f].kind /\ r.pc = flow[f].pc /\ r.cred = flow[f].cred
      /\ r.same = flow[f].same
      /\ r.reply = IF flow[f].pc \in Calls /\ flow[f].reply = "none" THEN "cancelled" ELSE flow[f].reply
      /\ r.got = flow[f].got /\ r.via = flow[f].via
      /\ r.again = flow[f].again /\ r.outcome = flow[f].outcome
  BY <1>1, CancelIs
<1> HIDE DEF r
<1>3. /\ q \in FlowState /\ q.closed
      /\ q.kind = flow[f].kind /\ q.pc = flow[f].pc /\ q.cred = flow[f].cred
      /\ q.same = flow[f].same
      /\ q.reply = IF flow[f].pc \in Calls /\ flow[f].reply = "none" THEN "cancelled" ELSE flow[f].reply
      /\ q.got = flow[f].got /\ q.via = flow[f].via
      /\ q.again = flow[f].again /\ q.outcome = flow[f].outcome
  BY <1>2 DEF FlowState
<1>4. flow' = [flow EXCEPT ![f] = q]
  BY <1>1 DEF CloseSignIn, r
<1> HIDE DEF q
<1>5. started' = started /\ launch' = launch /\ current' = current
  BY <1>1
<1>6. ~(q.pc \in Calls \ {"revoke"} /\ q.reply = "none")
  BY <1>3
<1>7. Active(f) /\ SigningIn
  BY <1>1 DEF Active, Cancelled, SigningIn, IsSignIn
<1>8. q.same
  BY <1>3, <1>7 DEF IInv, ScreenInv
<1>9. /\ flow' \in [Flow -> FlowState] /\ flow'[f] = q
      /\ \A h \in Flow : h # f =>
           /\ flow'[h] = flow[h]
           /\ Active(h)' <=> Active(h)
           /\ Wanted(h) /\ RenewalStays(h)
           /\ SignedInTo(h)' => SignedInTo(h) /\ flow'[h].got = flow[h].got
      /\ SigningIn' => SigningIn
      /\ ScreenInv'
  BY <1>1, <1>3, <1>4, <1>5, <1>6, <1>8, MoveStep
<1>10. ~Active(f)' /\ Wanted(f) /\ ~SignedInTo(f)'
  BY <1>1, <1>3, <1>9 DEF Active, Cancelled, Wanted, SignedInTo
<1>11. RenewalStays(f)
  BY <1>3, <1>8, <1>9 DEF RenewalStays, Calls
<1>12. /\ strays' \subseteq Credentials /\ abandoned' \subseteq Session
       /\ abandoned \subseteq abandoned'
       /\ \A c \in strays' : /\ c \in strays \/ \E h \in {f} : flow[h].pc = "renew" /\ c = flow[h].cred
                             /\ server[c.session] = "open" => c.token < MaxRenewals
                             /\ c.session \in abandoned'
  BY <1>1, GivenUp
<1>13. TypeOK'
  BY <1>1, <1>9, <1>12 DEF IInv, TypeOK
<1>14. ShapeInv'
  BY <1>1, <1>3, <1>9 DEF IInv, ShapeInv, Shape
<1>15. BoundInv' /\ OwnReuse'
  BY <1>1, <1>3, <1>9, <1>12 DEF IInv, BoundInv, OwnReuse, Calls
<1>16. JoinInv'
  BY <1>1, <1>3, <1>9, <1>10 DEF IInv, JoinInv
<1>17. ASSUME NEW t \in Session PROVE NoNews(t)
  <2>1. On(store, t)' => Carried(t)
    BY <1>1 DEF On, Carried
  <2>2. \A d \in strays' : d.session = t => Carried(t)
    BY <1>12 DEF Carried, On, IInv, ShapeInv, Shape
  <2>3. \A h \in Flow : On(flow[h].cred, t)' \/ On(flow[h].got, t)' => On(flow[h].cred, t) \/ On(flow[h].got, t)
    BY <1>3, <1>9 DEF On
  <2> QED
    BY <1>1, <2>1, <2>2, <2>3 DEF NoNews
<1>18. \A t \in Session : Known(t)' => Known(t)
  BY <1>1, <1>12 DEF Known
<1>19. \A h \in Leaving : h \in Leaving' /\ flow'[h].same = flow[h].same /\ flow'[h].cred = flow[h].cred
  BY <1>1, <1>9 DEF Leaving, IsSignOut
<1>20. Shows /\ (Unused => launch' = "out")
  BY <1>1 DEF Shows, Unused
<1>21. Steady
  BY <1>1, <1>7, <1>9, <1>10, <1>11, <1>17, <1>18, <1>19, <1>20 DEF Steady
<1>22. flight' # None =>
       /\ flight' = flight /\ flow'[flight].cred = flow[flight].cred
       /\ flow'[flight].reply \in {"none", "ok"} => flow[flight].reply \in {"none", "ok"}
  BY <1>1, <1>3, <1>9 DEF IInv, TypeOK
<1>23. Calm
  BY <1>21, <1>22 DEF Calm
<1> QED
  BY <1>9, <1>13, <1>14, <1>15, <1>16, <1>23, CalmStep

-----------------------------------------------------------------------------
(* A renewal is over, for every flow that awaits it. *)

LEMMA OverStep ==
  ASSUME IInv, NEW f \in Flow, flow[f].pc \in {"renew", "kept"}, flow' \in [Flow -> FlowState],
         flight' = IF flight = f THEN None ELSE flight,
         \A h \in Flow \ Awaiting(f) : flow'[h] = flow[h],
         \A h \in Awaiting(f) :
           /\ flow'[h].kind = flow[h].kind /\ (flow'[h].closed <=> flow[h].closed) /\ flow'[h].same
           /\ flow'[h].pc \in {"me", "done"} /\ flow'[h].got = None /\ Shape(flow'[h])
           /\ flow'[h].pc = "me" => ~flow'[h].again /\ flow'[h].reply \in {"none", "cancelled"}
           /\ flow'[h].pc = "me" /\ flow'[h].reply = "none" => Active(h)
           /\ flow'[h].cred \in {flow[h].cred, flow[f].got} /\ flow'[h].cred # None
           /\ Active(h) => flow'[h].cred.session = flow[h].cred.session,
         flow[f].pc = "renew" /\ flow[f].reply = "ok" => flow[f].cred.session \in abandoned',
         store' \in {store, None}, abandoned \subseteq abandoned', abandoned' \subseteq Session,
         UNCHANGED <<serverVars, launch, who, started, current, foreground, strays, left, events>>
  PROVE  IInv'
<1>1. UNCHANGED <<server, renewals, launch, who, started, current, foreground, strays, left, events>>
  BY DEF serverVars
<1>2. /\ \A h \in Flow : h \in Awaiting(f) <=> h = f \/ (flow[h].pc = "joined" /\ flow[h].via = f)
      /\ flow \in [Flow -> FlowState] /\ flight \in Flow \cup {None} /\ f # None
  BY MobileAssumption DEF Awaiting, IInv, TypeOK
<1>3. \A h \in Awaiting(f) :
        h \in Flow /\ flow[h].pc \in {"renew", "kept", "joined"} /\ flow[h].kind \in {"check", "signIn"} /\ flow[h].cred # None
  BY <1>2, FieldsOf DEF IInv, ShapeInv, Shape, Awaiting
<1>4. \A h \in Flow : /\ flow'[h].kind = flow[h].kind /\ (flow'[h].closed <=> flow[h].closed)
                      /\ Active(h)' <=> Active(h)
  BY <1>1, <1>2, <1>3 DEF Active, Cancelled
<1>5. \A h \in Flow : Wanted(h)
  BY <1>2, <1>3, <1>4 DEF Wanted, MayRenew
<1>6. \A h \in Flow : RenewalStays(h)
  BY <1>2, <1>3 DEF RenewalStays
<1>7. \A h \in Flow : SignedInTo(h)' => SignedInTo(h) /\ flow'[h].got = flow[h].got
  BY <1>3, <1>4 DEF SignedInTo
<1>8. ASSUME NEW t \in Session PROVE NoNews(t)
  <2>1. On(store, t)' => Carried(t)
    BY DEF On, Carried
  <2>2. \A d \in strays' : d.session = t => Carried(t)
    BY <1>1 DEF Carried
  <2>3. On(flow[f].got, t) => Carried(t)
    BY DEF Carried
  <2>4. \A h \in Flow : On(flow[h].cred, t)' \/ On(flow[h].got, t)' =>
          On(flow[h].cred, t) \/ On(flow[h].got, t) \/ On(flow[f].got, t)
    BY <1>2 DEF On
  <2> QED
    BY <1>1, <2>1, <2>2, <2>3, <2>4 DEF NoNews
<1>9. \A t \in Session : Known(t)' => Known(t)
  BY <1>1 DEF Known
<1>10. \A h \in Leaving : h \in Leaving' /\ flow'[h] = flow[h]
  BY <1>3, <1>4 DEF Leaving, IsSignOut
<1>11. (SigningIn' <=> SigningIn) /\ (InProgress' <=> InProgress)
  BY <1>1, <1>4 DEF SigningIn, IsSignIn, InProgress, IInv, TypeOK
<1>12. Shows /\ (Unused => launch' = "out") /\ (launch = "out" /\ ~SigningIn => launch' = "out" /\ ~SigningIn')
  BY <1>1, <1>11 DEF Shows, Unused
<1>13. Steady
  BY <1>1, <1>5, <1>6, <1>7, <1>8, <1>9, <1>10, <1>12 DEF Steady
<1>14. flight # None => flow[flight].pc \in {"renew", "kept"}
  BY <1>2 DEF IInv, JoinInv
<1>15. flight' # None => flight' = flight /\ flow'[flight] = flow[flight]
  BY <1>2, <1>14
<1>16. Calm
  BY <1>13, <1>15 DEF Calm
<1>17. TypeOK'
  BY <1>1, <1>2 DEF IInv, TypeOK
<1>18. ShapeInv'
  BY <1>2 DEF IInv, ShapeInv
<1>19. BoundInv'
  <2>1. ASSUME NEW h \in Flow, h \in Awaiting(f)
        PROVE  ~(\/ flow'[h].pc = "renew" /\ flow'[h].reply = "none"
                 \/ flow'[h].pc = "me" /\ flow'[h].reply = "refused" /\ flow'[h].again)
    BY <2>1
  <2> QED
    BY <1>1, <1>2, <2>1 DEF IInv, BoundInv
<1>20. OwnReuse'
  BY <1>1 DEF IInv, OwnReuse
<1>21. JoinInv'
  <2>1. ASSUME NEW h \in Flow PROVE flow'[h].pc \in {"renew", "kept"} /\ flow'[h].same <=> flight' = h
    <3>1. CASE h \in Awaiting(f)
      <4>1. flow'[h].pc \notin {"renew", "kept"}
        BY <3>1
      <4>2. flight' # h
        BY <1>2, <1>14, <3>1, MobileAssumption
      <4> QED
        BY <4>1, <4>2
    <3>2. CASE h \notin Awaiting(f)
      <4>1. flow'[h] = flow[h] /\ h # f
        BY <1>2, <3>2
      <4>2. flight' = h <=> flight = h
        BY <4>1, MobileAssumption
      <4> QED
        BY <4>1, <4>2 DEF IInv, JoinInv
    <3> QED
      BY <3>1, <3>2
  <2>2. ASSUME NEW h \in Flow, Active(h)', flow'[h].pc = "joined" PROVE flight' = flow'[h].via
    <3>1. h \notin Awaiting(f)
      BY <2>2
    <3>2. flow'[h] = flow[h] /\ Active(h) /\ flow[h].via # f
      BY <1>2, <1>4, <2>2, <3>1
    <3> QED
      BY <2>2, <3>2 DEF IInv, JoinInv
  <2> QED
    BY <2>1, <2>2 DEF JoinInv
<1>22. ScreenInv'
  <2>1. current' # None => current' \in Flow /\ flow'[current'].kind \in {"check", "signOut"}
    BY <1>1, <1>4 DEF IInv, ScreenInv, TypeOK
  <2>2. ASSUME NEW h \in Flow, NEW g \in Flow, IsSignIn(h)', ~flow'[h].closed, IsSignIn(g)', ~flow'[g].closed
        PROVE  h = g
    <3>1. IsSignIn(h) /\ ~flow[h].closed /\ IsSignIn(g) /\ ~flow[g].closed
      BY <1>4, <2>2 DEF IsSignIn
    <3> QED
      BY <3>1 DEF IInv, ScreenInv
  <2>3. \A h \in Flow : Active(h)' => flow'[h].same
    BY <1>4 DEF IInv, ScreenInv
  <2>4. ASSUME NEW h \in Flow, Waiting(h)', flow'[h].pc # "revoke" PROVE Active(h)'
    <3>1. CASE h \in Awaiting(f)
      BY <1>4, <2>4, <3>1 DEF Waiting, Calls
    <3>2. CASE h \notin Awaiting(f)
      BY <1>4, <2>4, <3>2 DEF IInv, ScreenInv, Waiting
    <3> QED
      BY <3>1, <3>2
  <2>5. ~started' => launch' = "checking" /\ \A h \in Flow : flow'[h].kind = "none"
    BY <1>1, <1>4 DEF IInv, ScreenInv
  <2>6. /\ launch' = "out" => ~InProgress'
        /\ SigningIn' => launch' = "out"
    BY <1>1, <1>11 DEF IInv, ScreenInv
  <2> QED
    BY <2>1, <2>2, <2>3, <2>4, <2>5, <2>6 DEF ScreenInv
<1> QED
  BY <1>16, <1>17, <1>18, <1>19, <1>20, <1>21, <1>22, CalmStep

\* Without new credentials.
LEMMA NotRenewed ==
  ASSUME IInv, NEW f \in Flow, NEW o \in Outcome, o # "Resolved", RenewalEnds(f, o), flow[f].pc = "renew",
         flow[f].reply = "ok" => flow[f].cred.session \in abandoned',
         store' \in {store, None}, abandoned \subseteq abandoned', abandoned' \subseteq Session,
         UNCHANGED <<serverVars, launch, who, started, current, foreground, strays, left, events>>
  PROVE  IInv'
<1>1. /\ \A h \in Flow \ Awaiting(f) : flow'[h] = flow[h]
      /\ \A h \in Awaiting(f) : h \in Flow /\ flow'[h] = Done(flow[h], o)
      /\ flow' = [h \in Flow |-> flow'[h]]
  BY DEF RenewalEnds, Awaiting
<1>2. \A h \in Flow : flow[h] \in FlowState
  BY DEF IInv, TypeOK
<1>3. ASSUME NEW h \in Awaiting(f)
      PROVE  /\ flow'[h] \in FlowState
             /\ flow'[h].kind = flow[h].kind /\ flow'[h].pc = "done" /\ flow'[h].cred = flow[h].cred
             /\ flow'[h].same /\ flow'[h].closed = flow[h].closed /\ flow'[h].reply = "none"
             /\ flow'[h].got = None
  BY <1>1, <1>2, DoneIs
<1>4. ASSUME NEW h \in Awaiting(f)
      PROVE  flow[h].kind \in {"check", "signIn"} /\ flow[h].cred # None
  BY <1>2, FieldsOf DEF IInv, ShapeInv, Shape, Awaiting
<1>5. \A h \in Awaiting(f) : Shape(flow'[h])
  BY <1>3, <1>4 DEF Shape
<1>6. flow' \in [Flow -> FlowState]
  BY <1>1, <1>2, <1>3
<1>7. flight' = IF flight = f THEN None ELSE flight
  BY DEF RenewalEnds
<1> QED
  BY <1>1, <1>3, <1>4, <1>5, <1>6, <1>7, OverStep

\* With them: whoever awaits it and is active asks about the session of the renewal.
LEMMA KeptStep ==
  ASSUME IInv, NEW f \in Flow, Kept(f)
  PROVE  IInv'
<1>1. /\ flow[f].pc = "kept" /\ RenewalEnds(f, "Resolved")
      /\ UNCHANGED <<serverVars, store, launch, who, started, current, foreground, strays, abandoned, left, events>>
  BY DEF Kept, history
<1>2. /\ flow[f].reply = "ok" /\ flow[f].got # None /\ flow[f].got.session = flow[f].cred.session
      /\ flow[f].got \in Credentials
  BY <1>1, FlowIs DEF IInv, ShapeInv, Shape
<1>3. /\ \A h \in Flow \ Awaiting(f) : flow'[h] = flow[h]
      /\ \A h \in Awaiting(f) :
           h \in Flow /\ flow'[h] = Ask([flow[h] EXCEPT !.via = None], flow[f].got, FALSE, Cancelled(h))
      /\ flow' = [h \in Flow |-> flow'[h]]
  BY <1>1 DEF RenewalEnds, Awaiting
<1>4. \A h \in Flow : flow[h] \in FlowState /\ Cancelled(h) \in BOOLEAN
  BY FlowIs DEF IInv
<1>5. ASSUME NEW h \in Awaiting(f)
      PROVE  /\ flow'[h] \in FlowState
             /\ flow'[h].kind = flow[h].kind /\ flow'[h].pc = "me" /\ flow'[h].cred = flow[f].got
             /\ flow'[h].same /\ flow'[h].closed = flow[h].closed
             /\ flow'[h].reply = (IF Cancelled(h) THEN "cancelled" ELSE "none")
             /\ flow'[h].got = None /\ ~flow'[h].again
  <2>b. PICK b \in BOOLEAN : b = Cancelled(h)
    BY <1>3, <1>4
  <2>y. PICK no \in BOOLEAN : ~no
    BY FALSE \in BOOLEAN
  <2> DEFINE r == [flow[h] EXCEPT !.via = None]
  <2>0. h \in Flow /\ flow[h] \in FlowState
    BY <1>4 DEF Awaiting
  <2>1. r \in FlowState /\ r.kind = flow[h].kind /\ r.closed = flow[h].closed
    BY <2>0 DEF FlowState
  <2>2. flow'[h] = Ask(r, flow[f].got, no, b)
    BY <1>3, <2>b, <2>y
  <2> HIDE DEF r
  <2>3. /\ flow'[h] \in FlowState
        /\ flow'[h].kind = r.kind /\ flow'[h].pc = "me" /\ flow'[h].cred = flow[f].got
        /\ flow'[h].same /\ flow'[h].closed = r.closed
        /\ flow'[h].reply = (IF b THEN "cancelled" ELSE "none")
        /\ flow'[h].got = None /\ flow'[h].again = no
    BY <1>2, <2>1, <2>2, AskIs
  <2> QED
    BY <2>1, <2>3, <2>b, <2>y
<1>6. ASSUME NEW h \in Awaiting(f)
      PROVE  flow[h].kind \in {"check", "signIn"} /\ flow[h].cred # None
  BY <1>1, <1>4, FieldsOf DEF IInv, ShapeInv, Shape, Awaiting
<1>7. \A h \in Awaiting(f) : Shape(flow'[h])
  BY <1>2, <1>5, <1>6 DEF Shape
<1>8. ASSUME NEW h \in Awaiting(f), Active(h) PROVE flow[f].got.session = flow[h].cred.session
  <2>1. CASE h = f
    BY <1>2, <2>1
  <2>2. CASE h # f
    <3>1. flow[h].pc = "joined" /\ flow[h].via = f /\ h \in Flow
      BY <2>2 DEF Awaiting
    <3>2. flight = f /\ f # None
      BY <1>8, <3>1, MobileAssumption DEF IInv, JoinInv
    <3>3. SameOf(flow[h].cred, flow[f].cred)
      BY <1>2, <1>8, <2>2, <3>1, <3>2 DEF IInv, SharedInv
    <3>4. flow[f].cred # None
      BY <1>1 DEF IInv, ShapeInv, Shape
    <3> QED
      BY <1>2, <1>6, <3>3, <3>4 DEF SameOf
  <2> QED
    BY <2>1, <2>2
<1>9. \A h \in Awaiting(f) : flow'[h].reply = "none" => Active(h)
  BY <1>5, <1>6 DEF Active
<1>10. flow' \in [Flow -> FlowState]
  BY <1>3, <1>4, <1>5
<1>11. flight' = IF flight = f THEN None ELSE flight
  BY <1>1 DEF RenewalEnds
<1>12. abandoned' \subseteq Session /\ abandoned \subseteq abandoned'
  BY <1>1 DEF IInv, TypeOK
<1>13. \A h \in Awaiting(f) :
           /\ flow'[h].kind = flow[h].kind /\ (flow'[h].closed <=> flow[h].closed) /\ flow'[h].same
           /\ flow'[h].pc \in {"me", "done"} /\ flow'[h].got = None /\ Shape(flow'[h])
           /\ flow'[h].pc = "me" => ~flow'[h].again /\ flow'[h].reply \in {"none", "cancelled"}
           /\ flow'[h].pc = "me" /\ flow'[h].reply = "none" => Active(h)
           /\ flow'[h].cred \in {flow[h].cred, flow[f].got} /\ flow'[h].cred # None
           /\ Active(h) => flow'[h].cred.session = flow[h].cred.session
  BY <1>2, <1>5, <1>7, <1>8, <1>9
<1> QED
  BY <1>1, <1>3, <1>10, <1>11, <1>12, <1>13, OverStep

LEMMA KeepStep ==
  ASSUME IInv, NEW f \in Flow, flow[f].pc = "renew", flow[f].reply = "ok", ~Cancelled(f), flow[f].same,
         store' = flow[f].got, flow' = [flow EXCEPT ![f].pc = "kept"], flight' = flight, abandoned' = abandoned,
         UNCHANGED <<serverVars, launch, who, started, current, foreground, strays, left, events>>
  PROVE  IInv'
<1>1. UNCHANGED <<server, renewals, launch, who, started, current, foreground, strays, left, events>>
  BY DEF serverVars
<1>2. /\ flow \in [Flow -> FlowState] /\ f # None /\ flow[f].cred \in Credentials
      /\ flow[f].got \in Credentials /\ flow[f].got # None /\ flow[f].cred # None
      /\ flow[f].kind \in {"check", "signIn"}
  BY FlowIs, FieldsOf, MobileAssumption DEF IInv, TypeOK, ShapeInv, Shape
<1>3. PICK t \in Session : flow[f].cred.session = t /\ flow[f].got.session = t
  BY <1>2, NoneIs DEF IInv, ShapeInv, Shape
<1>4. Active(f) /\ flight = f
  BY <1>2 DEF Active, IInv, JoinInv
<1>5. /\ flow' \in [Flow -> FlowState] /\ \A h \in Flow : h # f => flow'[h] = flow[h]
      /\ flow'[f].kind = flow[f].kind /\ flow'[f].pc = "kept" /\ flow'[f].cred = flow[f].cred
      /\ flow'[f].same = flow[f].same /\ flow'[f].closed = flow[f].closed /\ flow'[f].reply = flow[f].reply
      /\ flow'[f].got = flow[f].got /\ flow'[f].via = flow[f].via
  <2> DEFINE q == [flow[f] EXCEPT !.pc = "kept"]
  <2>0. flow[f] \in FlowState
    BY <1>2
  <2>1. /\ q \in FlowState
        /\ q.kind = flow[f].kind /\ q.pc = "kept" /\ q.cred = flow[f].cred
        /\ q.same = flow[f].same /\ q.closed = flow[f].closed /\ q.reply = flow[f].reply
        /\ q.got = flow[f].got /\ q.via = flow[f].via
    BY <2>0 DEF FlowState
  <2>2. flow' = [flow EXCEPT ![f] = q]
    BY <1>2
  <2> HIDE DEF q
  <2> QED
    BY <1>2, <2>1, <2>2
<1>6. \A h \in Flow : (Active(h) => h = f) /\ (Active(h)' <=> Active(h))
  <2>1. \A h \in Flow : Active(h) => h = f
    BY <1>4, OneActive DEF IInv
  <2>2. \A h \in Flow : Active(h)' <=> Active(h)
    BY <1>1, <1>5 DEF Active, Cancelled
  <2> QED
    BY <2>1, <2>2
<1>7. /\ SameOf(store, flow[f].cred) /\ t \notin left
      /\ launch = "authenticated" => who = t
  BY <1>2, <1>3, <1>4 DEF IInv, SharedInv, LeftInv, ShownInv
<1>8. TypeOK'
  BY <1>1, <1>2, <1>5 DEF IInv, TypeOK
<1>9. ShapeInv'
  BY <1>2, <1>5 DEF IInv, ShapeInv, Shape
<1>10. BoundInv' /\ OwnReuse'
  BY <1>1, <1>5 DEF IInv, BoundInv, OwnReuse
<1>11. ScreenInv'
  <2>1. \A h \in Flow : /\ flow'[h].kind = flow[h].kind /\ flow'[h].closed = flow[h].closed
                        /\ flow'[h].same = flow[h].same
                        /\ Waiting(h)' => Waiting(h) /\ flow'[h] = flow[h]
    BY <1>5 DEF Waiting
  <2>2. InProgress' <=> InProgress
    BY <1>1, <2>1 DEF InProgress, IInv, TypeOK
  <2>3. SigningIn' <=> SigningIn
    BY <2>1 DEF SigningIn, IsSignIn
  <2> QED
    BY <1>1, <1>6, <2>1, <2>2, <2>3 DEF IInv, TypeOK, ScreenInv, IsSignIn
<1>12. JoinInv'
  BY <1>5, <1>6 DEF IInv, JoinInv
<1>13. SharedInv'
  BY <1>1, <1>3, <1>4, <1>5, <1>6, <1>7 DEF SharedInv, SameOf
<1>14. ShownInv'
  BY <1>1, <1>3, <1>5, <1>6, <1>7 DEF ShownInv, SameOf, ShownIsStored
<1>15. LeftInv'
  BY <1>1, <1>3, <1>5, <1>6, <1>7 DEF IInv, LeftInv
<1>16. UnopenedInv'
  <2>1. ASSUME NEW s \in Session PROVE NoNews(s)
    <3>1. On(flow[f].got, s) => Carried(s)
      BY DEF Carried
    <3>2. On(store, s)' => Carried(s)
      BY <3>1 DEF On
    <3>3. \A d \in strays' : d.session = s => Carried(s)
      BY <1>1 DEF Carried
    <3>4. \A h \in Flow : On(flow[h].cred, s)' \/ On(flow[h].got, s)' => On(flow[h].cred, s) \/ On(flow[h].got, s)
      BY <1>5 DEF On
    <3> QED
      BY <1>1, <3>2, <3>3, <3>4 DEF NoNews
  <2>2. \A s \in Session : server'[s] = "none" => server[s] = "none" /\ NoNews(s)
    BY <1>1, <2>1
  <2> QED
    BY <2>2, UnopenedStays DEF IInv
<1>17. FreshInv'
  BY <1>5, <1>6 DEF FreshInv, SignedInTo
<1>18. TokenInv'
  <2> SUFFICES ASSUME NEW s \in Session, Known(s)'
      PROVE  /\ On(store, s)' => UpToDate(store)'
             /\ \A h \in Flow : Active(h)' /\ On(flow[h].cred, s)' =>
                  /\ MayRenew(h)' => UpToDate(flow[h].cred)'
                  /\ Waiting(h)' /\ flow'[h].pc = "renew" => flow'[h].cred.token = renewals'[s]
                  /\ Unread(h, s)' => flow'[h].got.token = renewals'[s]
             /\ \A h \in Flow : Unread(h, s)' /\ ~flow'[h].same =>
                  /\ \A g \in Flow : Active(g)' => ~On(flow[g].cred, s)'
                  /\ On(store, s)' => launch' = "out" /\ \A g \in Flow : Active(g)' => flow'[g].pc = "sign"
    BY DEF TokenInv
  <2>1. Known(s)
    BY <1>1 DEF Known
  <2>2. (On(store, s)' => s = t) /\ (On(flow[f].cred, s)' <=> s = t) /\ On(flow[f].cred, t)
    BY <1>2, <1>3, <1>5 DEF On
  <2>3. s = t => flow[f].got.token = renewals[t]
    <3>1. Unread(f, t)
      BY <1>3 DEF Unread
    <3> QED
      BY <1>4, <2>1, <2>2, <3>1 DEF IInv, TokenInv
  <2>4. On(store, s)' => UpToDate(store)'
    BY <1>1, <1>3, <2>2, <2>3 DEF UpToDate
  <2>5. ASSUME NEW h \in Flow, Active(h)' PROVE ~MayRenew(h)' /\ flow'[h].pc # "renew"
    BY <1>5, <1>6, <2>5 DEF MayRenew
  <2>6. ASSUME NEW h \in Flow, Unread(h, s)', ~flow'[h].same PROVE s # t
    <3>1. h # f /\ Unread(h, s) /\ ~flow[h].same
      BY <1>5, <2>6 DEF Unread
    <3>2. ~On(flow[f].cred, s)
      BY <1>4, <2>1, <3>1 DEF IInv, TokenInv
    <3> QED
      BY <2>2, <3>2
  <2>7. ASSUME NEW h \in Flow, Active(h)' PROVE ~Unread(h, s)' /\ h = f
    BY <1>6, <2>5, <2>7 DEF Unread
  <2> HIDE DEF On, UpToDate, Unread, MayRenew, Waiting, Active
  <2> QED
    BY <2>2, <2>4, <2>5, <2>6, <2>7
<1> QED
  BY <1>8, <1>9, <1>10, <1>11, <1>12, <1>13, <1>14, <1>15, <1>16, <1>17, <1>18 DEF IInv

LEMMA RenewedStep ==
  ASSUME IInv, NEW f \in Flow, Renewed(f)
  PROVE  IInv'
<1>1. /\ flow[f].pc = "renew"
      /\ UNCHANGED <<serverVars, launch, who, started, current, foreground, strays, left, events>>
  BY DEF Renewed
<1>2. /\ abandoned \subseteq Session /\ flow[f].cred.session \in Session
  BY <1>1, FlowIs, NoneIs DEF IInv, TypeOK, ShapeInv, Shape
<1>3. CASE /\ flow[f].reply = "ok" /\ ~Cancelled(f) /\ flow[f].same
           /\ store' = flow[f].got /\ flow' = [flow EXCEPT ![f].pc = "kept"]
           /\ UNCHANGED <<flight, abandoned>>
  BY <1>1, <1>3, KeepStep
<1>4. CASE /\ flow[f].reply = "ok" /\ RenewalEnds(f, "Transient")
           /\ abandoned' = abandoned \cup {flow[f].cred.session} /\ UNCHANGED store
  <2>1. "Transient" \in Outcome
    BY DEF Outcome
  <2> QED
    BY <1>1, <1>2, <1>4, <2>1, NotRenewed
<1>5. CASE /\ flow[f].reply = "refused"
           /\ RenewalEnds(f, IF flow[f].same THEN "Invalid" ELSE "Cancelled")
           /\ store' = (IF flow[f].same THEN None ELSE store)
           /\ UNCHANGED abandoned
  <2>1. "Invalid" \in Outcome /\ "Cancelled" \in Outcome
    BY DEF Outcome
  <2>2. PICK o \in Outcome : o = (IF flow[f].same THEN "Invalid" ELSE "Cancelled")
    BY <2>1
  <2>3. RenewalEnds(f, o) /\ o # "Resolved"
    BY <1>5, <2>2
  <2> QED
    BY <1>1, <1>2, <1>5, <2>3, NotRenewed
<1>6. CASE /\ flow[f].reply \in {"failed", "cancelled"} /\ RenewalEnds(f, "Transient")
           /\ UNCHANGED <<store, abandoned>>
  <2>1. "Transient" \in Outcome
    BY DEF Outcome
  <2> QED
    BY <1>1, <1>2, <1>6, <2>1, NotRenewed
<1> QED
  BY <1>3, <1>4, <1>5, <1>6 DEF Renewed

-----------------------------------------------------------------------------
(* A check starts. *)

LEMMA CheckStarts ==
  ASSUME IInv, NEW b \in BOOLEAN, StartCheck(b), launch # "out", started' = TRUE,
         \/ launch' = launch /\ who' = who
         \/ launch' \in {"checking", "retrying"} /\ who' \in {who, None},
         foreground' \in BOOLEAN,
         UNCHANGED <<serverVars, store, flight, strays, history, events>>
  PROVE  IInv'
<1>1. UNCHANGED <<server, renewals, store, flight, strays, abandoned, left, events>>
  BY DEF serverVars, history
<1>2. PICK f \in Flow : f = FreeFlow /\ flow[f].kind = "none"
  BY DEF StartCheck, SomeFlowFree, FreeFlow
<1>3. /\ flow \in [Flow -> FlowState] /\ f # None /\ flow[f].pc = "idle" /\ flow[f].got = None
      /\ store \in Credentials \cup {None} /\ flight \in Flow \cup {None}
  BY <1>2, MobileAssumption DEF IInv, TypeOK, ShapeInv, Shape
<1> DEFINE
     q1 == [Idle EXCEPT !.kind = "check"]
     q2 == [q1 EXCEPT !.pc = "read"]
     q3 == [q2 EXCEPT !.cred = store]
     q == [q3 EXCEPT !.background = b]
<1> HIDE DEF q1, q2, q3, q
<1>4. /\ q \in FlowState /\ q.kind = "check" /\ q.pc = "read" /\ q.cred = store
      /\ q.same /\ q.reply = "none" /\ q.got = None
  <2>1. q1 \in FlowState /\ q1.kind = "check" /\ q1.same /\ q1.reply = "none" /\ q1.got = None
    BY IdleIs DEF q1, FlowState
  <2>2. q2 \in FlowState /\ q2.kind = "check" /\ q2.pc = "read" /\ q2.same /\ q2.reply = "none" /\ q2.got = None
    BY <2>1 DEF q2, FlowState
  <2>3. /\ q3 \in FlowState /\ q3.kind = "check" /\ q3.pc = "read" /\ q3.cred = store
        /\ q3.same /\ q3.reply = "none" /\ q3.got = None
    BY <1>3, <2>2 DEF q3, FlowState
  <2> QED
    BY <2>3 DEF q, FlowState
<1>5. flow' = [flow EXCEPT ![f] = q] /\ current' = f /\ ~InProgress
  BY <1>2 DEF StartCheck, q1, q2, q3, q
<1>6. /\ flow' \in [Flow -> FlowState] /\ flow'[f] = q /\ \A h \in Flow : h # f => flow'[h] = flow[h]
  BY <1>3, <1>4, <1>5
<1>7. ~SigningIn
  BY DEF IInv, ScreenInv
<1>8. \A h \in Flow : ~Active(h)
  BY <1>5, <1>7, MobileAssumption DEF Active, Cancelled, SigningIn, IsSignIn, InProgress
<1>9. \A h \in Flow : Active(h)' <=> h = f
  <2>1. \A h \in Flow : h # f => (Active(h)' => Active(h))
    BY <1>5, <1>6 DEF Active, Cancelled
  <2>2. Active(f)'
    BY <1>4, <1>5, <1>6 DEF Active, Cancelled
  <2> QED
    BY <1>8, <2>1, <2>2
<1>10. /\ TypeOK' /\ ShapeInv' /\ BoundInv' /\ OwnReuse'
  <2>1. TypeOK'
    BY <1>1, <1>5, <1>6 DEF IInv, TypeOK
  <2>2. Shape(q)
    BY <1>4 DEF Shape
  <2>3. ShapeInv'
    BY <1>6, <2>2 DEF IInv, ShapeInv
  <2> QED
    BY <1>1, <1>4, <1>6, <2>1, <2>3 DEF IInv, BoundInv, OwnReuse
<1>11. launch' # "out" /\ ~SigningIn' /\ \A h \in Flow : ~(IsSignIn(h)' /\ ~flow'[h].closed)
  BY <1>4, <1>6, <1>7 DEF SigningIn, IsSignIn
<1>12. ScreenInv'
  <2>1. ASSUME NEW h \in Flow, Waiting(h)', flow'[h].pc # "revoke" PROVE FALSE
    <3>1. h # f /\ flow'[h] = flow[h]
      BY <1>4, <1>6, <2>1 DEF Waiting, Calls
    <3> QED
      BY <1>8, <2>1, <3>1 DEF Waiting, IInv, ScreenInv
  <2> QED
    BY <1>4, <1>5, <1>6, <1>9, <1>11, <2>1 DEF ScreenInv
<1>13. flight # f
  BY <1>3 DEF IInv, JoinInv
<1>14. JoinInv'
  BY <1>1, <1>3, <1>4, <1>6, <1>8, <1>9, <1>13 DEF IInv, JoinInv
<1>15. \A h \in Flow : /\ Wanted(h) /\ RenewalStays(h)
                       /\ SignedInTo(h)' => SignedInTo(h) /\ flow'[h].got = flow[h].got
  <2>1. \A h \in Flow : Wanted(h)
    BY <1>4, <1>6, <1>9 DEF Wanted
  <2>2. \A h \in Flow : RenewalStays(h)
    BY <1>3, <1>4, <1>6 DEF RenewalStays
  <2>3. \A h \in Flow : ~SignedInTo(h)'
    BY <1>4, <1>6, <1>9 DEF SignedInTo
  <2> QED
    BY <2>1, <2>2, <2>3
<1>16. ASSUME NEW t \in Session PROVE NoNews(t)
  <2>1. On(store, t)' => Carried(t)
    BY <1>1 DEF On, Carried
  <2>2. \A d \in strays' : d.session = t => Carried(t)
    BY <1>1 DEF Carried
  <2>3. \A h \in Flow : On(flow[h].cred, t)' \/ On(flow[h].got, t)' =>
          On(flow[h].cred, t) \/ On(flow[h].got, t) \/ Carried(t)
    BY <1>4, <1>6 DEF On, Carried
  <2> QED
    BY <1>1, <2>1, <2>2, <2>3 DEF NoNews
<1>17. \A t \in Session : Known(t)' => Known(t)
  BY <1>1 DEF Known
<1>18. \A h \in Leaving : h \in Leaving' /\ flow'[h] = flow[h]
  BY <1>2, <1>6 DEF Leaving, IsSignOut
<1>19. Shows /\ ~Unused
  BY DEF Shows, Unused
<1>20. Steady
  BY <1>1, <1>15, <1>16, <1>17, <1>18, <1>19 DEF Steady
<1>21. Calm
  BY <1>1, <1>3, <1>6, <1>13, <1>20 DEF Calm
<1> QED
  BY <1>10, <1>12, <1>14, <1>21, CalmStep

\* Nothing happens that anybody remembers.
LEMMA QuietStep ==
  ASSUME IInv, foreground' \in BOOLEAN,
         UNCHANGED <<server, renewals, store, launch, who, started, current, flight, flow,
                     strays, abandoned, left, events>>
  PROVE  IInv'
<1>1. /\ SigningIn' <=> SigningIn
      /\ InProgress' <=> InProgress
      /\ \A f \in Flow : /\ Active(f)' <=> Active(f)
                         /\ Waiting(f)' <=> Waiting(f)
                         /\ MayRenew(f)' <=> MayRenew(f)
                         /\ SignedInTo(f)' <=> SignedInTo(f)
      /\ Leaving' = Leaving
  BY DEF SigningIn, IsSignIn, InProgress, Active, Cancelled, Waiting, MayRenew, SignedInTo, Leaving, IsSignOut
<1>2. TypeOK' /\ ShapeInv' /\ BoundInv' /\ OwnReuse'
  BY DEF IInv, TypeOK, ShapeInv, BoundInv, OwnReuse
<1>3. ScreenInv' /\ JoinInv'
  BY <1>1 DEF IInv, ScreenInv, IsSignIn, JoinInv
<1>4. Calm
  <2>1. \A f \in Flow : Wanted(f) /\ RenewalStays(f)
    BY <1>1 DEF Wanted, RenewalStays
  <2>2. \A s \in Session : NoNews(s)
    BY DEF NoNews, Carried, On
  <2>3. \A s \in Session : Known(s)' => Known(s)
    BY DEF Known
  <2>4. Shows /\ (Unused => launch' = "out")
    BY DEF Shows, Unused
  <2> QED
    BY <1>1, <2>1, <2>2, <2>3, <2>4 DEF Calm, Steady
<1> QED
  BY <1>2, <1>3, <1>4, CalmStep

LEMMA InitializeStep ==
  ASSUME IInv, Initialize
  PROVE  IInv'
<1>0. PICK no \in BOOLEAN : no = FALSE
  BY FALSE \in BOOLEAN
<1>1. StartCheck(no)
  BY <1>0 DEF Initialize
<1>2. /\ started' = TRUE /\ launch # "out" /\ launch' = launch /\ who' = who
      /\ foreground' \in BOOLEAN
      /\ UNCHANGED <<serverVars, store, flight, strays, history, events>>
  BY DEF Initialize, IInv, ScreenInv, TypeOK
<1> QED
  BY <1>1, <1>2, CheckStarts

LEMMA RetryStep ==
  ASSUME IInv, Retry
  PROVE  IInv'
<1>0. PICK no \in BOOLEAN : no = FALSE
  BY FALSE \in BOOLEAN
<1>1. StartCheck(no)
  BY <1>0 DEF Retry
<1>2. /\ started' = TRUE /\ launch # "out" /\ launch' = "retrying" /\ who' = who
      /\ foreground' \in BOOLEAN
      /\ UNCHANGED <<serverVars, store, flight, strays, history, events>>
  BY DEF Retry, IInv, ScreenInv, TypeOK
<1> QED
  BY <1>1, <1>2, CheckStarts

LEMMA ResumeStep ==
  ASSUME IInv, Resume
  PROVE  IInv'
<1>1. CASE Revalidates /\ ~InProgress
  <2>0. PICK b \in BOOLEAN : b = (launch = "authenticated")
    BY DEF IInv
  <2>1. StartCheck(b)
    BY <1>1, <2>0 DEF Resume
  <2>2. /\ started' = TRUE /\ launch # "out"
        /\ \/ launch' = launch /\ who' = who
           \/ launch' = "checking" /\ who' = None
        /\ foreground' \in BOOLEAN
        /\ UNCHANGED <<serverVars, store, flight, strays, history, events>>
    BY <1>1 DEF Resume, Revalidates, IInv, ScreenInv, TypeOK
  <2> QED
    BY <2>1, <2>2, CheckStarts
<1>2. CASE ~(Revalidates /\ ~InProgress)
  <2>1. /\ foreground' \in BOOLEAN
        /\ UNCHANGED <<server, renewals, store, launch, who, started, current, flight, flow,
                       strays, abandoned, left, events>>
    BY <1>2 DEF Resume, serverVars, history
  <2> QED
    BY <2>1, QuietStep
<1> QED
  BY <1>1, <1>2

-----------------------------------------------------------------------------
(* What concerns every flow: the system pauses the application, the user     *)
(* signs in, signs out or kills it.                                          *)

LEMMA CheckIsCancelled ==
  ASSUME IInv
  PROVE  /\ CheckCancelled \in [Flow -> FlowState]
         /\ \A h \in Flow :
              LET r == flow[h]
                  q == CheckCancelled[h] IN
              /\ q.kind = r.kind /\ q.pc = r.pc /\ q.cred = r.cred /\ q.got = r.got
              /\ q.same = r.same /\ q.closed = r.closed /\ q.via = r.via /\ q.again = r.again /\ q.outcome = r.outcome
              /\ q.reply = r.reply \/ (q.reply = "cancelled" /\ r.reply = "none" /\ r.pc \in Calls)
              /\ r.kind = "check" /\ current = h => ~(q.pc \in Calls /\ q.reply = "none")
<1>1. flow \in [Flow -> FlowState]
  BY DEF IInv, TypeOK
<1>2. ASSUME NEW h \in Flow
      PROVE  LET r == flow[h]
                 q == CheckCancelled[h] IN
             /\ q \in FlowState
             /\ q.kind = r.kind /\ q.pc = r.pc /\ q.cred = r.cred /\ q.got = r.got
             /\ q.same = r.same /\ q.closed = r.closed /\ q.via = r.via /\ q.again = r.again /\ q.outcome = r.outcome
             /\ q.reply = r.reply \/ (q.reply = "cancelled" /\ r.reply = "none" /\ r.pc \in Calls)
             /\ r.kind = "check" /\ current = h => ~(q.pc \in Calls /\ q.reply = "none")
  <2>0. h # None
    BY MobileAssumption
  <2>1. CASE h \in ActiveCheck
    <3>1. CheckCancelled[h] = CancelCall(flow[h])
      BY <2>1 DEF CheckCancelled
    <3> QED
      BY <1>1, <3>1, CancelIs
  <2>2. CASE h \notin ActiveCheck
    <3>1. CheckCancelled[h] = flow[h]
      BY <2>2 DEF CheckCancelled
    <3>2. ~(flow[h].kind = "check" /\ current = h)
      BY <2>0, <2>2 DEF ActiveCheck, InProgress
    <3> QED
      BY <1>1, <3>1, <3>2
  <2> QED
    BY <2>1, <2>2
<1>3. CheckCancelled = [h \in Flow |-> CheckCancelled[h]]
  BY DEF CheckCancelled
<1> QED
  BY <1>2, <1>3

LEMMA NewGenerationIs ==
  ASSUME NEW F \in [Flow -> FlowState]
  PROVE  /\ NewGeneration(F) \in [Flow -> FlowState]
         /\ \A h \in Flow :
              LET r == F[h]
                  q == NewGeneration(F)[h] IN
              /\ q.kind = r.kind /\ q.pc = r.pc /\ q.cred = r.cred /\ q.got = r.got
              /\ ~q.same /\ q.closed = r.closed /\ q.via = r.via /\ q.again = r.again /\ q.outcome = r.outcome
              /\ q.reply = r.reply
<1>1. ASSUME NEW h \in Flow
      PROVE  LET r == F[h]
                 q == NewGeneration(F)[h] IN
             /\ q \in FlowState
             /\ q.kind = r.kind /\ q.pc = r.pc /\ q.cred = r.cred /\ q.got = r.got
             /\ ~q.same /\ q.closed = r.closed /\ q.via = r.via /\ q.again = r.again /\ q.outcome = r.outcome
             /\ q.reply = r.reply
  <2>1. NewGeneration(F)[h] = [F[h] EXCEPT !.same = FALSE]
    BY DEF NewGeneration
  <2>2. F[h] \in FlowState
    OBVIOUS
  <2> QED
    BY <2>1, <2>2 DEF FlowState
<1>2. NewGeneration(F) = [h \in Flow |-> NewGeneration(F)[h]]
  BY DEF NewGeneration
<1> QED
  BY <1>1, <1>2

LEMMA PauseStep ==
  ASSUME IInv, Pause
  PROVE  IInv'
<1>1. /\ foreground' = FALSE /\ flow' = CheckCancelled /\ current' = None
      /\ events' = events + 1 /\ events < MaxEvents
      /\ UNCHANGED <<server, renewals, store, launch, who, started, flight, left>>
  BY DEF Pause, serverVars
<1>2. /\ flow' \in [Flow -> FlowState]
      /\ \A h \in Flow :
           /\ flow'[h].kind = flow[h].kind /\ flow'[h].pc = flow[h].pc /\ flow'[h].cred = flow[h].cred
           /\ flow'[h].got = flow[h].got /\ flow'[h].same = flow[h].same
           /\ flow'[h].closed = flow[h].closed
           /\ flow'[h].via = flow[h].via /\ flow'[h].again = flow[h].again
           /\ flow'[h].outcome = flow[h].outcome
           /\ flow'[h].reply = flow[h].reply
                \/ (flow'[h].reply = "cancelled" /\ flow[h].reply = "none" /\ flow[h].pc \in Calls)
           /\ flow[h].kind = "check" /\ current = h => ~(flow'[h].pc \in Calls /\ flow'[h].reply = "none")
  BY <1>1, CheckIsCancelled
<1>3. ActiveCheck \in SUBSET Flow
  BY DEF ActiveCheck, InProgress, IInv, TypeOK
<1>4. /\ strays' \subseteq Credentials /\ abandoned' \subseteq Session
      /\ abandoned \subseteq abandoned'
      /\ \A c \in strays' : /\ c \in strays \/ \E f \in ActiveCheck : flow[f].pc = "renew" /\ c = flow[f].cred
                            /\ server[c.session] = "open" => c.token < MaxRenewals
                            /\ c.session \in abandoned'
  <2>1. GiveUp(ActiveCheck)
    BY DEF Pause
  <2> QED
    BY <1>3, <2>1, GivenUp
<1>5. \A h \in Flow : Active(h)' <=> Active(h) /\ flow[h].kind = "signIn"
  BY <1>1, <1>2, MobileAssumption DEF Active, Cancelled
<1>6. (SigningIn' <=> SigningIn) /\ ~InProgress'
  BY <1>1, <1>2 DEF SigningIn, IsSignIn, InProgress
<1>7. TypeOK'
  <2>1. events + 1 \in 0..MaxEvents
    BY <1>1, MobileAssumption DEF IInv, TypeOK
  <2> QED
    BY <1>1, <1>2, <1>4, <2>1 DEF IInv, TypeOK
<1>8. ShapeInv'
  BY <1>2 DEF IInv, ShapeInv, Shape, Calls
<1>9. BoundInv' /\ OwnReuse'
  BY <1>1, <1>2, <1>4 DEF IInv, BoundInv, OwnReuse
<1>10. ScreenInv'
  <2>1. ASSUME NEW h \in Flow, Waiting(h)', flow'[h].pc # "revoke" PROVE Active(h)'
    <3>1. Waiting(h) /\ flow[h].pc # "revoke"
      BY <1>2, <2>1 DEF Waiting
    <3>2. Active(h)
      BY <3>1 DEF IInv, ScreenInv
    <3>3. flow[h].kind # "check"
      BY <1>2, <2>1, <3>2 DEF Active, Cancelled, Waiting
    <3> QED
      BY <1>5, <3>2, <3>3 DEF Active
  <2>2. \A h \in Flow : Active(h)' => flow'[h].same
    BY <1>2, <1>5 DEF IInv, ScreenInv
  <2>3. ASSUME NEW h \in Flow, NEW g \in Flow, IsSignIn(h)', ~flow'[h].closed, IsSignIn(g)', ~flow'[g].closed
        PROVE  h = g
    <3>1. IsSignIn(h) /\ ~flow[h].closed /\ IsSignIn(g) /\ ~flow[g].closed
      BY <1>2, <2>3 DEF IsSignIn
    <3> QED
      BY <3>1 DEF IInv, ScreenInv
  <2>4. ~started' => launch' = "checking" /\ \A h \in Flow : flow'[h].kind = "none"
    BY <1>1, <1>2 DEF IInv, ScreenInv
  <2>5. SigningIn' => launch' = "out"
    BY <1>1, <1>6 DEF IInv, ScreenInv
  <2> QED
    BY <1>1, <1>6, <2>1, <2>2, <2>3, <2>4, <2>5 DEF ScreenInv
<1>11. JoinInv'
  BY <1>1, <1>2, <1>5 DEF IInv, JoinInv
<1>12. \A h \in Flow : /\ Wanted(h) /\ RenewalStays(h)
                       /\ SignedInTo(h)' => SignedInTo(h) /\ flow'[h].got = flow[h].got
  <2>1. \A h \in Flow : Wanted(h)
    BY <1>2, <1>5 DEF Wanted, MayRenew
  <2>2. \A h \in Flow : RenewalStays(h)
    BY <1>2 DEF RenewalStays
  <2>3. \A h \in Flow : SignedInTo(h)' => SignedInTo(h) /\ flow'[h].got = flow[h].got
    BY <1>2, <1>5 DEF SignedInTo
  <2> QED
    BY <2>1, <2>2, <2>3
<1>13. ASSUME NEW t \in Session PROVE NoNews(t)
  <2>1. On(store, t)' => Carried(t)
    BY <1>1 DEF On, Carried
  <2>2. \A d \in strays' : d.session = t => Carried(t)
    BY <1>3, <1>4 DEF Carried, On, IInv, ShapeInv, Shape
  <2>3. \A h \in Flow : On(flow[h].cred, t)' \/ On(flow[h].got, t)' => On(flow[h].cred, t) \/ On(flow[h].got, t)
    BY <1>2 DEF On
  <2> QED
    BY <1>1, <2>1, <2>2, <2>3 DEF NoNews
<1>14. \A t \in Session : Known(t)' => Known(t)
  BY <1>1, <1>4 DEF Known
<1>15. \A h \in Leaving : h \in Leaving' /\ flow'[h].same = flow[h].same /\ flow'[h].cred = flow[h].cred
  BY <1>2 DEF Leaving, IsSignOut
<1>16. Shows /\ (Unused => launch' = "out")
  BY <1>1 DEF Shows, Unused
<1>17. Steady
  BY <1>1, <1>6, <1>12, <1>13, <1>14, <1>15, <1>16 DEF Steady
<1>18. flight' # None =>
       /\ flight' = flight /\ flow'[flight].cred = flow[flight].cred
       /\ flow'[flight].reply \in {"none", "ok"} => flow[flight].reply \in {"none", "ok"}
  BY <1>1, <1>2 DEF IInv, TypeOK
<1>19. Calm
  BY <1>17, <1>18 DEF Calm
<1> QED
  BY <1>7, <1>8, <1>9, <1>10, <1>11, <1>19, CalmStep

LEMMA SignInStarts ==
  ASSUME IInv, StartSignIn
  PROVE  IInv'
<1>1. PICK f \in Flow : f = FreeFlow /\ flow[f].kind = "none"
  BY DEF StartSignIn, SomeFlowFree, FreeFlow
<1>2. /\ flow \in [Flow -> FlowState] /\ f # None /\ flow[f].pc = "idle" /\ flow[f].got = None
      /\ launch = "out" /\ ~SigningIn /\ ~InProgress /\ started
      /\ flight' = None /\ left' = left \ SessionsOf(Leaving) /\ events' = events + 1 /\ events < MaxEvents
      /\ UNCHANGED <<server, renewals, store, launch, who, started, current, foreground, strays, abandoned>>
  BY <1>1, MobileAssumption DEF StartSignIn, serverVars, IInv, TypeOK, ShapeInv, Shape, ScreenInv
<1> DEFINE
     q1 == [Idle EXCEPT !.kind = "signIn"]
     q == [q1 EXCEPT !.pc = "sign"]
     G == NewGeneration(flow)
<1> HIDE DEF q1, q, G
<1>3. /\ q \in FlowState /\ q.kind = "signIn" /\ q.pc = "sign" /\ q.cred = None
      /\ q.same /\ q.reply = "none" /\ q.got = None /\ ~q.closed
  <2>1. /\ q1 \in FlowState /\ q1.kind = "signIn" /\ q1.same /\ q1.reply = "none" /\ q1.got = None
        /\ q1.cred = None /\ ~q1.closed
    BY IdleIs DEF q1, FlowState
  <2> QED
    BY <2>1 DEF q, FlowState, Calls
<1>4. flow' = [G EXCEPT ![f] = q]
  BY <1>1 DEF StartSignIn, q1, q, G
<1>5. /\ G \in [Flow -> FlowState]
      /\ \A h \in Flow :
           /\ G[h].kind = flow[h].kind /\ G[h].pc = flow[h].pc /\ G[h].cred = flow[h].cred
           /\ G[h].got = flow[h].got /\ ~G[h].same /\ G[h].closed = flow[h].closed
           /\ G[h].via = flow[h].via /\ G[h].again = flow[h].again /\ G[h].reply = flow[h].reply
           /\ G[h].outcome = flow[h].outcome
  BY <1>2, NewGenerationIs DEF G
<1>6. /\ flow' \in [Flow -> FlowState] /\ flow'[f] = q
      /\ \A h \in Flow : h # f =>
           /\ flow'[h].kind = flow[h].kind /\ flow'[h].pc = flow[h].pc /\ flow'[h].cred = flow[h].cred
           /\ flow'[h].got = flow[h].got /\ ~flow'[h].same /\ flow'[h].closed = flow[h].closed
           /\ flow'[h].via = flow[h].via /\ flow'[h].again = flow[h].again /\ flow'[h].reply = flow[h].reply
           /\ flow'[h].outcome = flow[h].outcome
  BY <1>3, <1>4, <1>5
<1>7. \A h \in Flow : ~Active(h)
  BY <1>2, MobileAssumption DEF Active, Cancelled, SigningIn, IsSignIn, InProgress
<1>8. \A h \in Flow : Active(h)' <=> h = f
  <2>1. \A h \in Flow : h # f => (Active(h)' => Active(h))
    BY <1>2, <1>6 DEF Active, Cancelled
  <2>2. Active(f)'
    BY <1>3, <1>6 DEF Active, Cancelled
  <2> QED
    BY <1>7, <2>1, <2>2
<1>9. TypeOK'
  <2>1. events + 1 \in 0..MaxEvents
    BY <1>2, MobileAssumption DEF IInv, TypeOK
  <2> QED
    BY <1>2, <1>6, <2>1 DEF IInv, TypeOK
<1>10. ShapeInv'
  <2>1. Shape(q)
    BY <1>3 DEF Shape
  <2> QED
    BY <1>6, <2>1 DEF IInv, ShapeInv, Shape
<1>11. BoundInv' /\ OwnReuse'
  BY <1>2, <1>3, <1>6 DEF IInv, BoundInv, OwnReuse
<1>12. ScreenInv'
  <2>1. current' # None => current' \in Flow /\ current' # f /\ flow'[current'].kind \in {"check", "signOut"}
    BY <1>1, <1>2, <1>6 DEF IInv, ScreenInv, TypeOK
  <2>2. ~InProgress'
    BY <1>2, <1>6, <2>1 DEF InProgress
  <2>3. ASSUME NEW h \in Flow, Waiting(h)', flow'[h].pc # "revoke" PROVE h = f
    <3>1. CASE h # f
      <4>1. Waiting(h) /\ flow[h].pc # "revoke"
        BY <1>6, <2>3, <3>1 DEF Waiting
      <4> QED
        BY <1>7, <4>1 DEF IInv, ScreenInv
    <3> QED
      BY <3>1
  <2>4. ASSUME NEW h \in Flow, IsSignIn(h)', ~flow'[h].closed PROVE h = f
    <3>1. h # f => IsSignIn(h) /\ ~flow[h].closed
      BY <1>6, <2>4 DEF IsSignIn
    <3> QED
      BY <1>2, <3>1 DEF SigningIn
  <2>5. started' /\ launch' = "out"
    BY <1>2
  <2>6. flow'[f].same
    BY <1>3, <1>6
  <2> QED
    BY <1>8, <2>1, <2>2, <2>3, <2>4, <2>5, <2>6 DEF ScreenInv
<1>13. JoinInv'
  BY <1>2, <1>3, <1>6, <1>8, MobileAssumption DEF JoinInv
<1>14. \A h \in Flow : /\ Wanted(h) /\ RenewalStays(h)
  <2>1. \A h \in Flow : Wanted(h)
    BY <1>2, <1>3, <1>6, <1>8 DEF Wanted
  <2>2. Unused'
    BY <1>2, <1>3, <1>6, <1>8 DEF Unused
  <2>3. \A h \in Flow : RenewalStays(h)
    BY <1>2, <1>3, <1>6, <2>2 DEF RenewalStays
  <2> QED
    BY <2>1, <2>3
<1>15. \A h \in Flow : Wanted(h)
  BY <1>14
<1>16. Shows
  BY <1>2 DEF Shows
<1>17. ShownInv'
  BY <1>2, <1>15, <1>16, ShownStays DEF IInv
<1>18. SharedInv'
  BY <1>2 DEF SharedInv
<1>19. LeftInv'
  <2>1. store # None => store.session \notin left'
    BY <1>2 DEF IInv, LeftInv, SessionsOf
  <2> QED
    BY <1>2, <1>3, <1>6, <1>8, <2>1 DEF IInv, LeftInv
<1>20. UnopenedInv'
  <2>1. ASSUME NEW t \in Session PROVE NoNews(t)
    <3>1. On(store, t)' => Carried(t)
      BY <1>2 DEF On, Carried
    <3>2. \A d \in strays' : d.session = t => Carried(t)
      BY <1>2 DEF Carried
    <3>3. \A h \in Flow : On(flow[h].cred, t)' \/ On(flow[h].got, t)' => On(flow[h].cred, t) \/ On(flow[h].got, t)
      BY <1>3, <1>6 DEF On
    <3> QED
      BY <1>2, <3>1, <3>2, <3>3 DEF NoNews
  <2>2. \A t \in Session : server'[t] = "none" => server[t] = "none" /\ NoNews(t)
    BY <1>2, <2>1
  <2> QED
    BY <2>2, UnopenedStays DEF IInv
<1>21. FreshInv'
  BY <1>3, <1>6, <1>8 DEF FreshInv, SignedInTo
<1>22. TokenInv'
  <2>1. \A s \in Session : Known(s)' => server[s] = "none" \/ (Known(s) /\ renewals'[s] = renewals[s])
    BY <1>2 DEF Known
  <2>2. store' \in {store, None} /\ (Unused => launch' = "out")
    BY <1>2
  <2> QED
    BY <1>10, <1>14, <2>1, <2>2, TokenStays DEF IInv
<1> QED
  BY <1>9, <1>10, <1>11, <1>12, <1>13, <1>17, <1>18, <1>19, <1>20, <1>21, <1>22 DEF IInv

LEMMA SignOutStarts ==
  ASSUME IInv, SignOut
  PROVE  IInv'
<1>1. PICK f \in Flow : f = FreeFlow /\ flow[f].kind = "none"
  BY DEF SignOut, SomeFlowFree, FreeFlow
<1>2. /\ flow \in [Flow -> FlowState] /\ f # None /\ flow[f].pc = "idle" /\ flow[f].got = None
      /\ launch \in {"authenticated", "denied"} /\ ~SigningIn /\ started /\ store \in Credentials \cup {None}
      /\ current' = f /\ flight' = None /\ launch' = "out" /\ who' = None
      /\ left' = (IF store = None THEN left ELSE left \cup {store.session})
      /\ UNCHANGED <<server, renewals, store, started, foreground, events>>
  BY <1>1, MobileAssumption DEF SignOut, serverVars, IInv, TypeOK, ShapeInv, Shape, ScreenInv
<1> DEFINE
     q1 == [Idle EXCEPT !.kind = "signOut"]
     q2 == [q1 EXCEPT !.pc = "read"]
     q == [q2 EXCEPT !.cred = store]
     G == NewGeneration(CheckCancelled)
<1> HIDE DEF q1, q2, q, G
<1>3. /\ q \in FlowState /\ q.kind = "signOut" /\ q.pc = "read" /\ q.cred = store
      /\ q.same /\ q.reply = "none" /\ q.got = None
  <2>1. q1 \in FlowState /\ q1.kind = "signOut" /\ q1.same /\ q1.reply = "none" /\ q1.got = None
    BY IdleIs DEF q1, FlowState
  <2>2. /\ q2 \in FlowState /\ q2.kind = "signOut" /\ q2.pc = "read" /\ q2.same
        /\ q2.reply = "none" /\ q2.got = None
    BY <2>1 DEF q2, FlowState
  <2> QED
    BY <1>2, <2>2 DEF q, FlowState
<1>4. flow' = [G EXCEPT ![f] = q]
  BY <1>1 DEF SignOut, q1, q2, q, G
<1>5. /\ G \in [Flow -> FlowState]
      /\ \A h \in Flow :
           /\ G[h].kind = flow[h].kind /\ G[h].pc = flow[h].pc /\ G[h].cred = flow[h].cred
           /\ G[h].got = flow[h].got /\ ~G[h].same /\ G[h].closed = flow[h].closed
           /\ G[h].again = flow[h].again
           /\ G[h].reply = flow[h].reply
                \/ (G[h].reply = "cancelled" /\ flow[h].reply = "none" /\ flow[h].pc \in Calls)
           /\ flow[h].kind = "check" /\ current = h => ~(G[h].pc \in Calls /\ G[h].reply = "none")
           /\ G[h].via = flow[h].via /\ G[h].outcome = flow[h].outcome
  <2>1. CheckCancelled \in [Flow -> FlowState]
    BY CheckIsCancelled
  <2> QED
    BY <2>1, CheckIsCancelled, NewGenerationIs DEF G
<1>6. /\ flow' \in [Flow -> FlowState] /\ flow'[f] = q
      /\ \A h \in Flow : h # f => flow'[h] = G[h]
  BY <1>3, <1>4, <1>5
<1>7. ~SigningIn' /\ \A h \in Flow : ~Active(h)' /\ ~(IsSignIn(h)' /\ ~flow'[h].closed)
  <2>1. \A h \in Flow : ~(IsSignIn(h)' /\ ~flow'[h].closed)
    BY <1>2, <1>3, <1>5, <1>6 DEF SigningIn, IsSignIn
  <2>2. \A h \in Flow : ~Active(h)'
    BY <1>2, <1>3, <1>5, <1>6, <2>1 DEF Active, Cancelled, IsSignIn
  <2> QED
    BY <2>1, <2>2 DEF SigningIn
<1>8. ActiveCheck \in SUBSET Flow
  BY DEF ActiveCheck, InProgress, IInv, TypeOK
<1>9. /\ strays' \subseteq Credentials /\ abandoned' \subseteq Session
      /\ abandoned \subseteq abandoned'
      /\ \A c \in strays' : /\ c \in strays \/ \E h \in ActiveCheck : flow[h].pc = "renew" /\ c = flow[h].cred
                            /\ server[c.session] = "open" => c.token < MaxRenewals
                            /\ c.session \in abandoned'
  <2>1. GiveUp(ActiveCheck)
    BY DEF SignOut
  <2> QED
    BY <1>8, <2>1, GivenUp
<1>10. TypeOK'
  <2>1. left' \subseteq Session
    BY <1>2, NoneIs DEF IInv, TypeOK
  <2> QED
    BY <1>2, <1>6, <1>9, <2>1 DEF IInv, TypeOK
<1>11. ShapeInv'
  <2>1. Shape(q)
    BY <1>3 DEF Shape
  <2>2. \A h \in Flow : h # f => Shape(flow'[h])
    BY <1>5, <1>6 DEF IInv, ShapeInv, Shape, Calls
  <2> QED
    BY <1>6, <2>1, <2>2 DEF ShapeInv
<1>12. BoundInv' /\ OwnReuse'
  <2>1. \A h \in Flow : LET r == flow'[h] IN
          /\ \/ r.pc = "renew" /\ r.reply = "none"
             \/ r.pc = "me" /\ r.reply = "refused" /\ r.again
          => h # f /\ r.cred = flow[h].cred /\ r.pc = flow[h].pc /\ r.reply = flow[h].reply /\ r.again = flow[h].again
    BY <1>3, <1>5, <1>6
  <2>2. \A h \in Flow : LET r == flow'[h] IN
          /\ \/ r.pc = "renew" /\ r.reply = "none"
             \/ r.pc = "me" /\ r.reply = "refused" /\ r.again
          /\ server'[r.cred.session] = "open"
          => r.cred.token < MaxRenewals
    BY <1>2, <2>1 DEF IInv, BoundInv
  <2> QED
    BY <1>2, <1>9, <2>2 DEF IInv, BoundInv, OwnReuse
<1>13. ScreenInv'
  <2>1. ASSUME NEW h \in Flow, Waiting(h)', flow'[h].pc # "revoke" PROVE FALSE
    <3>1. h # f
      BY <1>3, <1>6, <2>1 DEF Waiting, Calls
    <3>2. Waiting(h) /\ flow[h].pc # "revoke" /\ ~(flow[h].kind = "check" /\ current = h)
      BY <1>5, <1>6, <2>1, <3>1 DEF Waiting
    <3>3. Active(h)
      BY <3>2 DEF IInv, ScreenInv
    <3> QED
      BY <1>2, <3>2, <3>3 DEF Active, Cancelled, SigningIn, IsSignIn
  <2> QED
    BY <1>2, <1>3, <1>6, <1>7, <2>1 DEF ScreenInv, InProgress
<1>14. JoinInv'
  BY <1>2, <1>3, <1>5, <1>6, <1>7, MobileAssumption DEF JoinInv
<1>15. SharedInv' /\ ShownInv' /\ FreshInv'
  BY <1>2, <1>7 DEF SharedInv, ShownInv, ShownIsStored, FreshInv, SignedInTo
<1>16. LeftInv'
  <2>1. None \notin left'
    BY <1>2, MobileAssumption, NoneIs DEF IInv, TypeOK
  <2>2. store # None => f \in Leaving'
    BY <1>2, <1>3, <1>6 DEF Leaving, IsSignOut
  <2> QED
    BY <1>2, <1>3, <1>6, <1>7, <2>1, <2>2 DEF LeftInv
<1>17. UnopenedInv'
  <2>1. ASSUME NEW t \in Session PROVE NoNews(t)
    <3>1. On(store, t)' => Carried(t)
      BY <1>2 DEF On, Carried
    <3>2. \A d \in strays' : d.session = t => Carried(t)
      BY <1>8, <1>9 DEF Carried, On, IInv, ShapeInv, Shape
    <3>3. \A h \in Flow : On(flow[h].cred, t)' \/ On(flow[h].got, t)' =>
            On(flow[h].cred, t) \/ On(flow[h].got, t) \/ Carried(t)
      BY <1>3, <1>5, <1>6 DEF On, Carried
    <3>4. t \in left' => t \in left \/ Carried(t)
      BY <1>2 DEF On, Carried
    <3> QED
      BY <1>2, <3>1, <3>2, <3>3, <3>4 DEF NoNews
  <2>2. \A t \in Session : server'[t] = "none" => server[t] = "none" /\ NoNews(t)
    BY <1>2, <2>1
  <2> QED
    BY <2>2, UnopenedStays DEF IInv
<1>18. TokenInv'
  <2>1. \A s \in Session : Known(s)' => server[s] = "none" \/ (Known(s) /\ renewals'[s] = renewals[s])
    BY <1>2, <1>9 DEF Known
  <2>2. store' \in {store, None} /\ (Unused => launch' = "out")
    BY <1>2
  <2>3. \A h \in Flow : Wanted(h)
    BY <1>7 DEF Wanted
  <2>4. Unused'
    BY <1>2, <1>7 DEF Unused
  <2>5. \A h \in Flow : RenewalStays(h)
    BY <1>2, <1>3, <1>5, <1>6, <2>4 DEF RenewalStays
  <2>6. \A h \in Flow : Wanted(h) /\ RenewalStays(h)
    BY <2>3, <2>5
  <2> QED
    BY <1>11, <2>1, <2>2, <2>6, TokenStays DEF IInv
<1> QED
  BY <1>10, <1>11, <1>12, <1>13, <1>14, <1>15, <1>16, <1>17, <1>18 DEF IInv

LEMMA KillStep ==
  ASSUME IInv, Kill
  PROVE  IInv'
<1>1. /\ flow' = [f \in Flow |-> Idle] /\ launch' = "checking" /\ who' = None /\ started' = FALSE
      /\ current' = None /\ flight' = None /\ foreground' = TRUE /\ events' = events + 1 /\ events < MaxEvents
      /\ left' = left \ SessionsOf(Leaving) /\ abandoned' = abandoned \cup Renewing(Flow)
      /\ UNCHANGED <<server, renewals, store>>
  BY DEF Kill, serverVars
<1>2. /\ flow' \in [Flow -> FlowState]
      /\ \A f \in Flow : /\ flow'[f].kind = "none" /\ flow'[f].pc = "idle" /\ flow'[f].cred = None
                         /\ flow'[f].reply = "none" /\ flow'[f].got = None /\ ~Active(f)'
  BY <1>1, IdleIs DEF Active
<1>3. /\ strays' \subseteq Credentials /\ abandoned' \subseteq Session
      /\ \A c \in strays' : /\ c \in strays \/ \E f \in Flow : flow[f].pc = "renew" /\ c = flow[f].cred
                            /\ server[c.session] = "open" => c.token < MaxRenewals
                            /\ c.session \in abandoned'
  <2>1. strays' \subseteq strays \cup Requests(Flow)
    BY DEF Kill
  <2>2. ASSUME NEW c \in Requests(Flow)
        PROVE  /\ c \in Credentials /\ c.session \in abandoned'
               /\ \E f \in Flow : flow[f].pc = "renew" /\ c = flow[f].cred
               /\ server[c.session] = "open" => c.token < MaxRenewals
    BY <1>1, RequestsAre
  <2>3. strays \subseteq Credentials /\ abandoned' \subseteq Session
    BY <1>1, RequestsAre DEF IInv, TypeOK
  <2>4. \A c \in strays : (server[c.session] = "open" => c.token < MaxRenewals) /\ c.session \in abandoned'
    BY <1>1 DEF IInv, BoundInv
  <2> QED
    BY <2>1, <2>2, <2>3, <2>4
<1>4. TypeOK'
  <2>1. events + 1 \in 0..MaxEvents
    BY <1>1, MobileAssumption DEF IInv, TypeOK
  <2> QED
    BY <1>1, <1>2, <1>3, <2>1 DEF IInv, TypeOK
<1>5. ShapeInv'
  BY <1>2 DEF ShapeInv, Shape
<1>6. BoundInv' /\ OwnReuse'
  BY <1>1, <1>2, <1>3 DEF IInv, BoundInv, OwnReuse
<1>7. ScreenInv' /\ JoinInv' /\ SharedInv'
  BY <1>1, <1>2, MobileAssumption DEF ScreenInv, InProgress, SigningIn, IsSignIn, Waiting, Calls, JoinInv, SharedInv
<1>8. ShownInv' /\ FreshInv'
  BY <1>1, <1>2 DEF ShownInv, ShownIsStored, FreshInv, SignedInTo
<1>9. LeftInv'
  <2>1. None \notin left'
    BY <1>1, MobileAssumption DEF IInv, TypeOK
  <2>2. store # None => store.session \notin left'
    BY <1>1 DEF IInv, LeftInv, SessionsOf
  <2> QED
    BY <1>1, <1>2, <2>1, <2>2 DEF LeftInv
<1>10. UnopenedInv'
  <2>1. ASSUME NEW t \in Session PROVE NoNews(t)
    <3>1. On(store, t)' => Carried(t)
      BY <1>1 DEF On, Carried
    <3>2. \A d \in strays' : d.session = t => Carried(t)
      BY <1>3 DEF Carried, On, IInv, ShapeInv, Shape
    <3>3. \A h \in Flow : ~On(flow[h].cred, t)' /\ ~On(flow[h].got, t)'
      BY <1>2 DEF On
    <3> QED
      BY <1>1, <3>1, <3>2, <3>3 DEF NoNews
  <2>2. \A t \in Session : server'[t] = "none" => server[t] = "none" /\ NoNews(t)
    BY <1>1, <2>1
  <2> QED
    BY <2>2, UnopenedStays DEF IInv
<1>11. TokenInv'
  <2>1. ASSUME NEW s \in Session, Known(s)' PROVE Known(s) /\ \A h \in Flow : ~Unread(h, s)
    <3>1. Known(s)
      BY <1>1, <2>1 DEF Known
    <3>2. ASSUME NEW h \in Flow, Unread(h, s) PROVE s \in Renewing(Flow)
      BY <3>2 DEF Renewing, SessionsOf, Unread
    <3> QED
      BY <1>1, <2>1, <3>1, <3>2 DEF Known
  <2>2. ASSUME NEW s \in Session, Known(s)', On(store, s)' PROVE UpToDate(store)'
    BY <1>1, <2>1, <2>2 DEF IInv, TokenInv, UpToDate, On
  <2>3. \A s \in Session, h \in Flow : ~Unread(h, s)'
    BY <1>2 DEF Unread
  <2> QED
    BY <1>2, <2>2, <2>3 DEF TokenInv
<1> QED
  BY <1>4, <1>5, <1>6, <1>7, <1>8, <1>9, <1>10, <1>11 DEF IInv

-----------------------------------------------------------------------------
(* Theorems. *)

LEMMA FlowStep ==
  ASSUME IInv, NEW f \in Flow, Advance(f) \/ CloseSignIn(f)
  PROVE  IInv'
<1>1. CASE AnswerSignIn(f)
  BY <1>1, SignInAnswered
<1>2. CASE AnswerMe(f)
  BY <1>2, MeStep
<1>3. CASE AnswerRenewal(f)
  BY <1>3, RenewalAnswered, RenewalRefused
<1>4. CASE AnswerSignOut(f)
  BY <1>4, SignOutAnswered
<1>5. CASE TimeOut(f)
  BY <1>5, TimeOutStep
<1>6. CASE Stored(f)
  BY <1>6, StoredStep
<1>7. CASE Identified(f)
  BY <1>7, IdentifiedStep
<1>8. CASE Renewed(f)
  BY <1>8, RenewedStep
<1>9. CASE Kept(f)
  BY <1>9, KeptStep
<1>10. CASE Checked(f)
  BY <1>10, CheckedStep
<1>11. CASE SignedIn(f)
  BY <1>11, SignInFailed, SignInStored
<1>12. CASE Wrote(f)
  BY <1>12, WroteStep
<1>13. CASE FinishSignIn(f)
  BY <1>13, FinishedStep
<1>14. CASE RevokeStored(f)
  BY <1>14, RevokeStep
<1>15. CASE Revoked(f)
  BY <1>15, RevokedStep
<1>16. CASE SignedOut(f)
  BY <1>16, SignedOutStep
<1>17. CASE CloseSignIn(f)
  BY <1>17, ClosedStep
<1> QED
  BY <1>1, <1>2, <1>3, <1>4, <1>5, <1>6, <1>7, <1>8, <1>9, <1>10, <1>11, <1>12, <1>13, <1>14, <1>15,
     <1>16, <1>17 DEF Advance, Answer, Continue

LEMMA IInvStep == IInv /\ [Next]_vars => IInv'
<1> SUFFICES ASSUME IInv, [Next]_vars PROVE IInv'
  OBVIOUS
<1>1. CASE Initialize
  BY <1>1, InitializeStep
<1>2. CASE Retry
  BY <1>2, RetryStep
<1>3. CASE Resume
  BY <1>3, ResumeStep
<1>4. CASE Pause
  BY <1>4, PauseStep
<1>5. CASE StartSignIn
  BY <1>5, SignInStarts
<1>6. CASE SignOut
  BY <1>6, SignOutStarts
<1>7. CASE Kill
  BY <1>7, KillStep
<1>8. CASE \E f \in Flow : Advance(f) \/ CloseSignIn(f)
  BY <1>8, FlowStep
<1>9. CASE \E c \in strays : ServeStray(c)
  BY <1>9, StrayStep
<1>10. CASE \E s \in Session : EndSession(s)
  BY <1>10, EndStep
<1>11. CASE UNCHANGED vars
  <2>1. UNCHANGED <<server, renewals, store, launch, who, started, current, flight, flow,
                    strays, abandoned, left, events, foreground>>
    BY <1>11 DEF vars, serverVars, process, history
  <2>2. foreground' \in BOOLEAN
    BY <2>1 DEF IInv, TypeOK
  <2> QED
    BY <2>1, <2>2, QuietStep
<1> QED
  BY <1>1, <1>2, <1>3, <1>4, <1>5, <1>6, <1>7, <1>8, <1>9, <1>10, <1>11 DEF Next

\* The inductive invariant holds in every reachable state.
THEOREM StaysInvariant == Spec => []IInv
BY InitHolds, IInvStep, PTL DEF Spec

\* Every variable keeps its type, for any sessions and flows and any bounds.
THEOREM TypesHold == Spec => []TypeOK
<1>1. IInv => TypeOK
  BY DEF IInv
<1> QED
  BY <1>1, StaysInvariant, PTL

\* The server ends no session of the application for reuse of a refresh token unless
\* an answer to a renewal of that session was given up, however many checks, sign-ins
\* and sign-outs run at once (auth_repository.dart 485-541).
THEOREM NoOwnReuse == Spec => []OwnReuse
<1>1. IInv => OwnReuse
  BY DEF IInv
<1> QED
  BY <1>1, StaysInvariant, PTL

\* While an actor is shown, storage holds the session the actor was read with or none:
\* no late write of an earlier check, renewal or sign-in replaces it.
THEOREM StoredIsShown == Spec => []ShownIsStored
<1>1. IInv => ShownIsStored
  BY DEF IInv, ShownInv
<1> QED
  BY <1>1, StaysInvariant, PTL

\* A session the user has signed out of is not shown again, and its credentials stay
\* stored only while the sign-out runs (auth_repository_test.dart 48).
THEOREM SignOutLasts == Spec => []SignedOutIsGone
<1>1. ASSUME IInv PROVE SignedOutIsGone
  <2>1. ASSUME NEW s \in left, store # None, store.session = s PROVE s \in SessionsOf(Leaving)
    <3>1. PICK f \in Leaving : flow[f].cred.session = store.session
      BY <1>1, <2>1 DEF IInv, LeftInv
    <3> QED
      BY <2>1, <3>1 DEF SessionsOf
  <2>2. who \notin left
    BY <1>1 DEF IInv, LeftInv
  <2> QED
    BY <2>1, <2>2 DEF SignedOutIsGone
<1> QED
  BY <1>1, StaysInvariant, PTL
=============================================================================
