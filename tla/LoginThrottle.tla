--------------------------- MODULE LoginThrottle ---------------------------
(***************************************************************************)
(* The counters that slow down sign-in (apps/api/src/auth/                 *)
(* login-throttle.service.ts, and signIn() of auth.service.ts as far as it *)
(* uses them): failed passwords by e-mail address, by network address, by  *)
(* account and in the memory of the process, and requests for a sign-in    *)
(* code by network address and by phone.                                   *)
(*                                                                         *)
(* The transactions run READ COMMITTED.  A call locks rows one by one, in  *)
(* the order of todo, keeps them until it commits, and computes what it    *)
(* writes from what it has read before.  A row that is deleted and written *)
(* again while a statement runs is taken for the row the statement found.  *)
(* The keys of the clients' requests and of the providers' are disjoint    *)
(* and treated alike: one kind is modelled.  One account, one e-mail       *)
(* address and one network address sign in; the account exists.            *)
(***************************************************************************)
EXTENDS Naturals, FiniteSets, SequencesExt

CONSTANTS
  Call,        \* concurrent calls
  Ip,          \* keys of network addresses that request codes
  Phone,       \* keys of phones codes are requested for
  AccountMax,  \* accountMaxAttempts
  IpMax,       \* ipMaxAttempts
  MaxCalls,    \* bound: calls, of every kind together
  MaxSignIns   \* bound: the first calls, which may be sign-ins

SignInRow == {"memory", "email", "ip", "user"}
Row       == SignInRow \cup Ip \cup Phone

\* Keys of different kinds differ: a prefix names the kind.
ASSUME ThrottleAssumption ==
  /\ AccountMax \in Nat \ {0} /\ IpMax \in Nat \ {0}
  /\ MaxCalls \in Nat /\ MaxSignIns \in Nat
  /\ IsFiniteSet(Ip) /\ IsFiniteSet(Phone)
  /\ Ip \cap Phone = {} /\ SignInRow \cap (Ip \cup Phone) = {}

VARIABLES
  count,     \* failed_attempts, failed_login_count, and failures in memory; 0 without a row
  aged,      \* rows of login_throttles whose window has passed
  locked,    \* rows whose locked_until has not passed
  failures,  \* failures since the row's window began, or the memory was cleared (history)
  admitted,  \* requests let through since the row's window began (history)
  started,   \* calls so far
  pc,        \* what the call is doing
  todo,      \* the rows it has still to lock
  seen,      \* what it has read of the rows it will write
  held,      \* the rows it has locked
  advised    \* the keys whose advisory lock it has

counters == <<count, aged, locked, failures, admitted, started>>
calls    == <<pc, todo, seen, held, advised>>
throttle == <<counters, calls>>

Maximum(k) == IF k \in Ip \cup {"ip", "memory"} THEN IpMax ELSE AccountMax

Unseen == [k \in {} |-> 0]

ThrottleInit ==
  /\ count = [k \in Row |-> 0]
  /\ aged = {} /\ locked = {}
  /\ failures = [k \in SignInRow |-> 0]
  /\ admitted = [k \in Ip \cup Phone |-> 0]
  /\ started = 0
  /\ pc = [c \in Call |-> "idle"]
  /\ todo = [c \in Call |-> <<>>]
  /\ seen = [c \in Call |-> Unseen]
  /\ held = [c \in Call |-> {}]
  /\ advised = [c \in Call |-> {}]

-----------------------------------------------------------------------------
(* Calls and locks. *)

Free(c, k) == \A d \in Call \ {c} : k \notin held[d]

Start(c) == pc[c] = "idle" /\ started < MaxCalls /\ started' = started + 1

\* The call goes on with a list of rows to lock.
Go(c, step, rows) ==
  /\ pc' = [pc EXCEPT ![c] = step]
  /\ todo' = [todo EXCEPT ![c] = rows]

\* The transaction has committed or was rolled back.
Return(c) ==
  /\ Go(c, "idle", <<>>)
  /\ seen' = [seen EXCEPT ![c] = Unseen]
  /\ held' = [held EXCEPT ![c] = {}]
  /\ advised' = [advised EXCEPT ![c] = {}]

\* recordFailure() reads a row before it writes it; the others lock at once.  A
\* call that counts or uses a code waits with no lock, and is left out.
Wants(c, k) ==
  /\ pc[c] # "request" /\ todo[c] # <<>>
  /\ k = Head(todo[c])
  /\ pc[c] = "failure" => k \in DOMAIN seen[c]

WaitsFor(c, d) ==
  /\ c # d
  /\ \/ \E k \in held[d] : Wants(c, k)
     \/ pc[c] = "request" /\ todo[c] # <<>> /\ Head(todo[c]) \in advised[d]

\* Each of a set of calls waits for another of them: the database ends one.
Stuck(S) == S # {} /\ \A a \in S : \E b \in S : WaitsFor(a, b)

\* The rows of login_throttles.
InTable(k) == count[k] > 0 \/ k \in aged

\* A row that a deletion has waited for is looked at again.
StillWanted(c, k) ==
  /\ pc[c] = "cleanup" => k \in aged
  /\ pc[c] = "success" => k = "user" \/ InTable(k)

Locking == {"failure", "success", "cleanup", "admit", "complete", "rotate"}

\* The next row is granted.
Take(c) ==
  /\ pc[c] \in Locking /\ todo[c] # <<>>
  /\ LET k == Head(todo[c]) IN
     /\ Wants(c, k) /\ Free(c, k)
     /\ held' = [held EXCEPT ![c] = IF StillWanted(c, k) THEN @ \cup {k} ELSE @]
  /\ todo' = [todo EXCEPT ![c] = Tail(@)]
  /\ UNCHANGED <<counters, pc, seen, advised>>

\* Rows are written with the counts given, and locked for a while by the last
\* attempt they allow.
WriteRows(value) ==
  LET rows == DOMAIN value IN
  /\ count' = [k \in Row |-> IF k \in rows THEN value[k] ELSE count[k]]
  /\ aged' = aged \ rows
  /\ locked' = (locked \ rows) \cup {k \in rows : value[k] >= Maximum(k)}

-----------------------------------------------------------------------------
(* Sign-in with a password: assertAllowed(), the account, the outcome. *)

\* The memory is looked at, then the rows.
AskMemory(c) ==
  /\ Start(c) /\ started < MaxSignIns
  /\ "memory" \notin locked
  /\ Go(c, "rows", <<>>)
  /\ UNCHANGED <<count, aged, locked, failures, admitted, seen, held, advised>>

\* deleteMany() of the rows past expires_at: of those whose window and lock have
\* passed it finds some, in the order of the plan.
FindExpired(c) ==
  /\ pc[c] = "rows"
  /\ \/ Go(c, "ask", <<>>)
     \/ \E S \in SUBSET (aged \ locked) \ {{}} : \E rows \in SetToSeqs(S) : Go(c, "cleanup", rows)
  /\ UNCHANGED <<counters, seen, held, advised>>

CleanedUp(c) ==
  /\ pc[c] = "cleanup" /\ todo[c] = <<>>
  /\ aged' = aged \ held[c]
  /\ Go(c, "ask", <<>>)
  /\ held' = [held EXCEPT ![c] = {}]
  /\ UNCHANGED <<count, locked, failures, admitted, started, seen, advised>>

\* findFirst().
AskRows(c) ==
  /\ pc[c] = "ask"
  /\ Go(c, IF {"email", "ip"} \cap locked = {} THEN "account" ELSE "idle", <<>>)
  /\ UNCHANGED <<counters, seen, held, advised>>

\* The account is read and the password compared: it is wrong, or right; while
\* the account is locked both fail.
ReadAccount(c) ==
  /\ pc[c] = "account"
  /\ \/ Go(c, "wrong", <<>>)
     \/ "user" \notin locked /\ Go(c, "right", <<>>)
  /\ UNCHANGED <<counters, seen, held, advised>>

\* recordFailure(): the memory at once, then one transaction for the rows.
RecordMemory(c) ==
  /\ pc[c] = "wrong"
  /\ WriteRows([k \in {"memory"} |-> count[k] + 1])
  /\ failures' = [failures EXCEPT !["memory"] = @ + 1]
  /\ Go(c, "failure", <<"email", "ip", "user">>)
  /\ UNCHANGED <<admitted, started, seen, held, advised>>

ReadRow(c) ==
  /\ pc[c] = "failure" /\ todo[c] # <<>>
  /\ Head(todo[c]) \notin DOMAIN seen[c]
  /\ seen' = [seen EXCEPT ![c] =
       [k \in DOMAIN @ \cup {Head(todo[c])} |-> IF k \in DOMAIN @ THEN @[k] ELSE count[k]]]
  /\ failures' = [failures EXCEPT ![Head(todo[c])] = @ + 1]
  /\ UNCHANGED <<count, aged, locked, admitted, started, pc, todo, held, advised>>

FailureRecorded(c) ==
  /\ pc[c] = "failure" /\ todo[c] = <<>>
  /\ WriteRows([k \in held[c] |-> seen[c][k] + 1])
  /\ Return(c)
  /\ UNCHANGED <<failures, admitted, started>>

\* The rows there are, in the order they are found, and then the account.
SuccessLists ==
  {<<"user">>, <<"email", "user">>, <<"ip", "user">>,
   <<"email", "ip", "user">>, <<"ip", "email", "user">>}
Deletions ==
  {rows \in SuccessLists :
     \A k \in {"email", "ip"} : (\E i \in DOMAIN rows : rows[i] = k) <=> InTable(k)}

\* recordSuccess(): the memory at once, then a transaction that deletes the rows
\* and clears the account.
RecordSuccess(c) ==
  /\ pc[c] = "right"
  /\ WriteRows([k \in {"memory"} |-> 0])
  /\ failures' = [failures EXCEPT !["memory"] = 0]
  /\ \E rows \in Deletions : Go(c, "success", rows)
  /\ UNCHANGED <<admitted, started, seen, held, advised>>

SuccessRecorded(c) ==
  /\ pc[c] = "success" /\ todo[c] = <<>>
  /\ WriteRows([k \in held[c] |-> 0])
  /\ Return(c)
  /\ UNCHANGED <<failures, admitted, started>>

-----------------------------------------------------------------------------
(* consumePhoneRequest(). *)

\* Broken: the locks are taken in either order.
LockOrderEither(i, p) == {<<i, p>>, <<p, i>>}

LockOrder(i, p) == {<<i, p>>}

Request(c) ==
  /\ Start(c)
  /\ \E i \in Ip, p \in Phone : \E rows \in LockOrder(i, p) : Go(c, "request", rows)
  /\ UNCHANGED <<count, aged, locked, failures, admitted, seen, held, advised>>

\* Broken: nobody waits for the advisory locks.
AdviseAnyway(c) ==
  /\ pc[c] = "request" /\ todo[c] # <<>>
  /\ advised' = [advised EXCEPT ![c] = @ \cup {Head(todo[c])}]
  /\ todo' = [todo EXCEPT ![c] = Tail(@)]
  /\ UNCHANGED <<counters, pc, seen, held>>

\* pg_advisory_xact_lock().
Advise(c) ==
  /\ pc[c] = "request" /\ todo[c] # <<>>
  /\ LET k == Head(todo[c]) IN
     /\ \A d \in Call \ {c} : k \notin advised[d]
     /\ advised' = [advised EXCEPT ![c] = @ \cup {k}]
  /\ todo' = [todo EXCEPT ![c] = Tail(@)]
  /\ UNCHANGED <<counters, pc, seen, held>>

\* Under both locks: the request is refused, or its rows have been read and are to
\* be written.
LookAtRequests(c) ==
  /\ pc[c] = "request" /\ todo[c] = <<>>
  /\ \/ advised[c] \cap locked # {} /\ Return(c)
     \/ /\ advised[c] \cap locked = {}
        /\ seen' = [seen EXCEPT ![c] = Restrict(count, advised[c])]
        /\ \E i \in Ip \cap advised[c], p \in Phone \cap advised[c] : Go(c, "admit", <<i, p>>)
        /\ UNCHANGED <<held, advised>>
  /\ UNCHANGED counters

RequestAdmitted(c) ==
  /\ pc[c] = "admit" /\ todo[c] = <<>>
  /\ WriteRows([k \in held[c] |-> seen[c][k] + 1])
  /\ admitted' = [k \in Ip \cup Phone |-> IF k \in held[c] THEN admitted[k] + 1 ELSE admitted[k]]
  /\ Return(c)
  /\ UNCHANGED <<failures, started>>

-----------------------------------------------------------------------------
(* Time.  No transaction is as long as a window or a lock. *)

Quiet == \A c \in Call : seen[c] = Unseen

Unlock(k) ==
  /\ Quiet
  /\ k \in locked
  /\ locked' = locked \ {k}
  /\ UNCHANGED <<count, aged, failures, admitted, started, calls>>

\* What the new window of a row forgets.
Forget(k) ==
  /\ failures' = [j \in SignInRow |-> IF j = k THEN 0 ELSE failures[j]]
  /\ admitted' = [j \in Ip \cup Phone |-> IF j = k THEN 0 ELSE admitted[j]]

\* Broken: attempts of earlier windows count.
NewWindowCounting(k) ==
  /\ Quiet
  /\ k # "user" /\ count[k] > 0
  /\ Forget(k)
  /\ UNCHANGED <<count, aged, locked, started, calls>>

\* The window of a row has passed; the account has no window.  The row stays until
\* it is deleted.
NewWindow(k) ==
  /\ Quiet
  /\ k # "user" /\ count[k] > 0
  /\ count' = [count EXCEPT ![k] = 0]
  /\ aged' = IF k = "memory" THEN aged ELSE aged \cup {k}
  /\ Forget(k)
  /\ UNCHANGED <<locked, started, calls>>

ThrottleNext ==
  \/ \E c \in Call :
       \/ AskMemory(c) \/ FindExpired(c) \/ CleanedUp(c) \/ AskRows(c) \/ ReadAccount(c)
       \/ RecordMemory(c) \/ ReadRow(c) \/ Take(c) \/ FailureRecorded(c)
       \/ RecordSuccess(c) \/ SuccessRecorded(c)
       \/ Request(c) \/ Advise(c) \/ LookAtRequests(c) \/ RequestAdmitted(c)
  \/ \E k \in Row : Unlock(k) \/ NewWindow(k)

-----------------------------------------------------------------------------

\* A sign-in row is locked only by as many failures within its window as lock it,
\* whatever overlapping transactions write back of what they have read (149-204).
LocksHaveCause ==
  [][\A k \in SignInRow : k \in locked' \ locked => failures'[k] >= Maximum(k)]_throttle

\* "Consume before lookup, under locks, so absent phones and concurrent requests
\* cannot evade protection" (27-28): no request that was let through is lost
\* from the counters, however many overlap.
RequestsAreCounted == \A k \in Ip \cup Phone : count[k] = admitted[k]
=============================================================================
