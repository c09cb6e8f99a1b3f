------------------------- MODULE AccountChallenges -------------------------
(***************************************************************************)
(* Password recovery and e-mail verification of one KCCA account           *)
(* (apps/api/src/account-security/account-security.service.ts), together   *)
(* with the throttle of its sign-ins (LoginThrottle): both write the row   *)
(* of the account.  A recovery also locks the sessions of the account and  *)
(* their tokens, which a refresh locks in the other order; one session     *)
(* with one token stands for them here, and what becomes of them is in     *)
(* Sessions.  The delivery of the codes is in OutboxDelivery.              *)
(*                                                                         *)
(* No transaction holds a lock that serializes the requests for a code:    *)
(* each supersedes the codes it finds committed and inserts its own.  The  *)
(* model covers less than an hour, so every request counts for the rate.   *)
(***************************************************************************)
EXTENDS LoginThrottle

CONSTANTS
  Challenge,       \* rows of account_challenges
  Nothing,         \* no challenge
  MaxAttempts,     \* maximumAttempts of a code
  MaxPerHour       \* maximumRequestsPerHour

SessionRow == {"session", "token"}

ASSUME ChallengesAssumption ==
  /\ Nothing \notin Challenge /\ Challenge \cap (Row \cup SessionRow) = {}
  /\ SessionRow \cap Row = {}
  /\ MaxAttempts \in Nat \ {0} /\ MaxPerHour \in Nat \ {0}

VARIABLES
  issued,      \* the challenges in the order of their commits
  action,      \* the action of the security event that was written with the challenge
  consumed,    \* consumed_at is set
  superseded,  \* superseded_at is set
  expired,     \* expires_at has passed
  resendable,  \* resend_available_at has passed
  left,        \* attempts_remaining
  verified,    \* email_verified_at is set
  uses,        \* completions the code was good for (history), up to 2
  arg          \* what the call acts on: a challenge, or the action of a request

challenges == <<issued, action, consumed, superseded, expired, resendable, left, verified, uses>>
vars       == <<throttle, challenges, arg>>

Purpose   == {"PASSWORD_RECOVERY", "EMAIL_VERIFICATION"}
Action    == Purpose \X {"request", "resend"}
Step      == {"idle", "rows", "ask", "account", "wrong", "right", "rated", "counted",
              "answered", "request", "issue"} \cup Locking
Rows      == Row \cup Challenge \cup SessionRow

TypeOK ==
  /\ count \in [Row -> Nat] /\ locked \subseteq Row
  /\ aged \subseteq Row \ {"memory", "user"}
  /\ failures \in [SignInRow -> Nat]
  /\ admitted \in [Ip \cup Phone -> Nat]
  /\ started \in 0..MaxCalls
  /\ pc \in [Call -> Step]
  /\ todo \in [Call -> Seq(Rows)]
  /\ DOMAIN seen = Call
  /\ \A c \in Call : seen[c] \in [DOMAIN seen[c] -> Nat] /\ DOMAIN seen[c] \subseteq Row
  /\ held \in [Call -> SUBSET Rows]
  /\ advised \in [Call -> SUBSET (Ip \cup Phone)]
  /\ issued \in Seq(Challenge) /\ IsInjective(issued)
  /\ action \in [ToSet(issued) -> Action]
  /\ consumed \cup superseded \cup expired \cup resendable \subseteq ToSet(issued)
  /\ left \in [Challenge -> 0..MaxAttempts]
  /\ verified \in BOOLEAN
  /\ uses \in [Challenge -> 0..2]
  /\ arg \in [Call -> Challenge \cup Action \cup {Nothing}]

Init ==
  /\ ThrottleInit
  /\ issued = <<>> /\ action = [h \in {} |-> Nothing]
  /\ consumed = {} /\ superseded = {} /\ expired = {} /\ resendable = {}
  /\ left = [h \in Challenge |-> MaxAttempts]
  /\ verified = FALSE
  /\ uses = [h \in Challenge |-> 0]
  /\ arg = [c \in Call |-> Nothing]

Begin(c, step, rows, value) == Go(c, step, rows) /\ arg' = [arg EXCEPT ![c] = value]
End(c) == Return(c) /\ arg' = [arg EXCEPT ![c] = Nothing]

\* A statement fails: the API process ends, the database refuses it or ends the
\* transaction for a deadlock.
Abandon(c) ==
  /\ pc[c] # "idle"
  /\ End(c)
  /\ UNCHANGED <<counters, challenges>>

\* The process is started again, with an empty memory.
Restart ==
  /\ pc' = [c \in Call |-> "idle"] /\ todo' = [c \in Call |-> <<>>]
  /\ seen' = [c \in Call |-> Unseen] /\ held' = [c \in Call |-> {}]
  /\ advised' = [c \in Call |-> {}]
  /\ arg' = [c \in Call |-> Nothing]
  /\ WriteRows([k \in {"memory"} |-> 0])
  /\ failures' = [failures EXCEPT !["memory"] = 0]
  /\ UNCHANGED <<admitted, started, challenges>>

-----------------------------------------------------------------------------
(* Requests for a code: requestPasswordRecovery(), requestEmailVerification(), *)
(* resend(), assertRequestRate() and issue().                                  *)

OfPurpose(p) == {h \in ToSet(issued) : action[h][1] = p}
Open(h)      == h \notin consumed \cup superseded
Events(a)    == {h \in ToSet(issued) : action[h] = a}
WithinRate(a) == Cardinality(Events(a)) < MaxPerHour
Unissued     == Challenge \ ToSet(issued)

\* The rows of S in the order of the table.
Position(h) == CHOOSE i \in DOMAIN issued : issued[i] = h
InTableOrder(S) ==
  {rows \in UNION {[1..n -> S] : n \in 0..Len(issued)} :
     /\ ToSet(rows) = S
     /\ \A i, j \in DOMAIN rows : i < j => Position(rows[i]) < Position(rows[j])}

RequestCode(c, p) ==
  /\ Start(c)
  /\ p = "EMAIL_VERIFICATION" => ~verified
  /\ WithinRate(<<p, "request">>)
  /\ Begin(c, "rated", <<>>, <<p, "request">>)
  /\ UNCHANGED <<count, aged, locked, failures, admitted, seen, held, advised, challenges>>

Resend(c, h) ==
  /\ Start(c)
  /\ h \in resendable /\ Open(h)
  /\ WithinRate(<<action[h][1], "resend">>)
  /\ Begin(c, "rated", <<>>, <<action[h][1], "resend">>)
  /\ UNCHANGED <<count, aged, locked, failures, admitted, seen, held, advised, challenges>>

\* The update that supersedes: the rows it finds, in the order of the table.
FindEarlier(c) ==
  /\ pc[c] = "rated"
  /\ Unissued # {}
  /\ \E rows \in InTableOrder({h \in OfPurpose(arg[c][1]) : Open(h)}) : Go(c, "issue", rows)
  /\ UNCHANGED <<counters, seen, held, advised, challenges, arg>>

\* A row is updated if it is still open once it is free.
Supersede(c) ==
  /\ pc[c] = "issue" /\ todo[c] # <<>>
  /\ LET h == Head(todo[c]) IN
     /\ Free(c, h)
     /\ held' = [held EXCEPT ![c] = IF Open(h) THEN @ \cup {h} ELSE @]
  /\ todo' = [todo EXCEPT ![c] = Tail(@)]
  /\ UNCHANGED <<counters, pc, seen, advised, challenges, arg>>

\* The code and its event are inserted and committed.
Issue(c) ==
  /\ pc[c] = "issue" /\ todo[c] = <<>>
  /\ Unissued # {}
  /\ LET h == CHOOSE h \in Unissued : TRUE IN
     /\ issued' = Append(issued, h)
     /\ action' = [g \in ToSet(issued) \cup {h} |-> IF g = h THEN arg[c] ELSE action[g]]
  /\ superseded' = superseded \cup held[c]
  /\ End(c)
  /\ UNCHANGED <<counters, consumed, expired, resendable, left, verified, uses>>

BecomeResendable(h) ==
  /\ h \in ToSet(issued) \ resendable
  /\ resendable' = resendable \cup {h}
  /\ UNCHANGED <<throttle, issued, action, consumed, superseded, expired, left, verified, uses, arg>>

Expire(h) ==
  /\ h \in resendable \ expired
  /\ expired' = expired \cup {h}
  /\ UNCHANGED <<throttle, issued, action, consumed, superseded, resendable, left, verified, uses, arg>>

-----------------------------------------------------------------------------
(* Answers: validate(), completePasswordRecovery() and verifyEmail(). *)

Usable(h) == h \in ToSet(issued) \ expired /\ Open(h) /\ left[h] > 0

\* The challenge is read and the answer compared with it.
Answer(c, h) ==
  /\ Start(c)
  /\ Usable(h)
  /\ \E result \in {"counted", "answered"} : Begin(c, result, <<>>, h)
  /\ UNCHANGED <<count, aged, locked, failures, admitted, seen, held, advised, challenges>>

\* Broken: the attempts of the copy that was compared are counted down.
CountAnyway(c) ==
  /\ pc[c] = "counted"
  /\ Free(c, arg[c])
  /\ left' = [left EXCEPT ![arg[c]] = @ - 1]
  /\ End(c)
  /\ UNCHANGED <<counters, issued, action, consumed, superseded, expired, resendable, verified, uses>>

CountWrong(c) ==
  /\ pc[c] = "counted"
  /\ LET h == arg[c] IN
     /\ Free(c, h)
     /\ left' = [left EXCEPT ![h] = IF Open(h) /\ @ > 0 THEN @ - 1 ELSE @]
  /\ End(c)
  /\ UNCHANGED <<counters, issued, action, consumed, superseded, expired, resendable, verified, uses>>

\* The rows that are written after the code: a recovery ends the sessions there are.
ToComplete(h) ==
  {<<"user">>} \cup IF action[h][1] = "PASSWORD_RECOVERY" THEN {<<"user", "session", "token">>} ELSE {}

\* Broken: the copy that was compared decides.
ConsumeAnyway(c) ==
  /\ pc[c] = "answered"
  /\ Free(c, arg[c])
  /\ \E rows \in ToComplete(arg[c]) : Go(c, "complete", rows)
  /\ held' = [held EXCEPT ![c] = {arg[c]}]
  /\ UNCHANGED <<arg, counters, seen, advised, challenges>>

\* The row is consumed if it still may be; the attempts are not looked at again.
Consume(c) ==
  /\ pc[c] = "answered"
  /\ LET h == arg[c] IN
     /\ Free(c, h)
     /\ IF Open(h) /\ h \notin expired
        THEN /\ \E rows \in ToComplete(h) : Go(c, "complete", rows)
             /\ held' = [held EXCEPT ![c] = {h}]
             /\ UNCHANGED <<seen, advised, arg>>
        ELSE End(c)
  /\ UNCHANGED <<counters, challenges>>

\* The account has been written, and the transaction commits.
Complete(c) ==
  /\ pc[c] = "complete" /\ todo[c] = <<>>
  /\ LET h == arg[c] IN
     /\ consumed' = consumed \cup {h}
     /\ uses' = [uses EXCEPT ![h] = IF @ < 2 THEN @ + 1 ELSE @]
     /\ IF action[h][1] = "PASSWORD_RECOVERY"
        THEN WriteRows([k \in {"user"} |-> 0]) /\ UNCHANGED verified
        ELSE verified' = TRUE /\ UNCHANGED <<count, aged, locked>>
  /\ End(c)
  /\ UNCHANGED <<failures, admitted, started, issued, action, superseded, expired, resendable, left>>

-----------------------------------------------------------------------------
(* refresh() of the session. *)

\* The token is consumed, then the session touched.
Rotate(c) ==
  /\ Start(c)
  /\ Go(c, "rotate", <<"token", "session">>)
  /\ UNCHANGED <<count, aged, locked, failures, admitted, seen, held, advised, challenges, arg>>

Rotated(c) ==
  /\ pc[c] = "rotate" /\ todo[c] = <<>>
  /\ Return(c)
  /\ UNCHANGED <<counters, challenges, arg>>

-----------------------------------------------------------------------------

Next ==
  \/ ThrottleNext /\ UNCHANGED <<challenges, arg>>
  \/ \E c \in Call :
       \/ \E p \in Purpose : RequestCode(c, p)
       \/ FindEarlier(c) \/ Supersede(c) \/ Issue(c)
       \/ \E h \in Challenge : Resend(c, h) \/ Answer(c, h)
       \/ CountWrong(c) \/ Consume(c) \/ Complete(c)
       \/ Rotate(c) \/ Rotated(c)
       \/ Abandon(c)
  \/ \E h \in Challenge : BecomeResendable(h) \/ Expire(h)
  \/ Restart

Spec == Init /\ [][Next]_vars

-----------------------------------------------------------------------------

\* A code is used once or superseded, never both, although requests and answers
\* for it overlap and were compared with the same copy (95-116, 210-225, 276-296).
UsedOrSuperseded ==
  /\ consumed \cap superseded = {}
  /\ \A h \in Challenge : uses[h] <= 1

Recovers(c) == pc[c] = "complete" /\ action[arg[c]][1] = "PASSWORD_RECOVERY"

\* A deadlock has a deletion of throttle rows in it, which takes them as it finds
\* them, or a recovery beside a refresh: failed sign-ins, requests for codes, answers
\* and verifications among themselves lock in orders that never make the database
\* end one (58-60, 121-123, 144-204; account-security.service.ts:112-143, 285-299).
DeadlocksHaveCause ==
  \A S \in SUBSET Call : Stuck(S) =>
    \/ \E c \in S : pc[c] \in {"cleanup", "success"}
    \/ \E c, d \in S : Recovers(c) /\ pc[d] = "rotate"
=============================================================================
