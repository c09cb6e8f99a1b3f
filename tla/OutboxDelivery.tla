--------------------------- MODULE OutboxDelivery ---------------------------
(***************************************************************************)
(* The PostgreSQL outbox and the delivery workers that drain it            *)
(* (apps/api/src/delivery/delivery.processor.ts), with the two ways the    *)
(* workflow service writes to the outbox: a row created once, and the      *)
(* reminder rows that a new assignment creates or queues again             *)
(* (apps/api/src/workflows/workflow.service.ts).                           *)
(*                                                                         *)
(* One row of "outbox_events" is an element of Event.  A claim is one      *)
(* transaction over a batch; the batch is then delivered event by event    *)
(* under the single lease the claim took, so a worker may outlive its      *)
(* lease, crash between any two steps, or lose the answer of a gateway.    *)
(* Time is not counted: `due' holds the rows whose next_attempt_at has     *)
(* passed and `lapsed' the claim tokens whose lease has, and either may    *)
(* happen at any moment, which covers every setting of the clocks of the   *)
(* workers and of the database.                                            *)
(***************************************************************************)
EXTENDS Naturals, Sequences, FiniteSets

CONSTANTS
  Event,        \* rows of outbox_events, by deduplication key
  Reminder,     \* the REMINDER rows createReminders upserts
  AssignPush,   \* the row keyed request:<id>:assigned:<provider>:push
  InApp,        \* the rows of channel IN_APP
  Conditional,  \* the rows whose subject content() reads again
  Worker,       \* delivery worker processes
  Token,        \* claim tokens
  NoToken,      \* claim_token IS NULL
  BatchSize,    \* DELIVERY_BATCH_SIZE
  MaxAttempts,  \* DELIVERY_MAX_ATTEMPTS
  MaxFaults,    \* bound: crashes, outlived leases and failed commits
  MaxAssigns    \* bound: calls of assignCallCentreRequest

ASSUME OutboxAssumption ==
  /\ Reminder \subseteq Event
  /\ AssignPush \in Event \ Reminder
  /\ AssignPush \notin InApp
  /\ InApp \subseteq Event
  /\ Conditional \subseteq Event
  /\ NoToken \notin Token
  /\ BatchSize \in Nat \ {0}
  /\ MaxAttempts \in Nat \ {0}
  /\ MaxFaults \in Nat
  /\ MaxAssigns \in Nat

VARIABLES
  status,    \* outbox_events.status, "NONE" before the insert, "PURGED" after the delete
  attempts,  \* outbox_events.attempts
  token,     \* outbox_events.claim_token
  rows,      \* delivery_attempts of the event: the result of attempt 1, 2, ...
  noted,     \* events with an operational_notifications row of that source
  due,       \* rows whose next_attempt_at has passed
  lapsed,    \* tokens whose claim_expires_at has passed
  moot,      \* conditional rows whose subject is no longer eligible
  sent,      \* the attempts whose message a gateway accepted (history)
  up,        \* the worker process runs
  hold,      \* the token of the batch the worker is delivering
  phase,     \* how far the worker got with each event of its batch
  tried,     \* the attempt number the worker's claim returned
  faults,    \* faults so far
  assigns    \* assignments so far

table   == <<status, attempts, token, rows, noted, due>>
memory  == <<up, hold, phase, tried>>
outside == <<lapsed, moot, sent, faults, assigns>>
vars    == <<table, memory, outside>>

Open     == {"PENDING", "FAILED", "PROCESSING"}
Terminal == {"DELIVERED", "DEAD_LETTER"}
Absent   == {"NONE", "PURGED"}
Status   == Open \cup Terminal \cup Absent
Result   == {"PROCESSING", "DELIVERED", "TRANSIENT_FAILURE", "PERMANENT_FAILURE"}

\* The phase of a claimed event that finish() is about to record, and the
\* result and the status finish() records for it.
Ending == {"delivered", "transient", "permanent"}
Phase  == {"none", "claimed", "dispatch"} \cup Ending

ResultOf(p) == IF p = "delivered" THEN "DELIVERED"
               ELSE IF p = "transient" THEN "TRANSIENT_FAILURE"
               ELSE "PERMANENT_FAILURE"

\* Broken: the result is stored as the status.
StatusOfResult(p) == ResultOf(p)

StatusOf(p) == IF p = "delivered" THEN "DELIVERED"
               ELSE IF p = "transient" THEN "FAILED"
               ELSE "DEAD_LETTER"

TypeOK ==
  /\ status \in [Event -> Status]
  /\ attempts \in [Event -> Nat]
  /\ token \in [Event -> Token \cup {NoToken}]
  /\ rows \in [Event -> Seq(Result)]
  /\ noted \subseteq Event
  /\ due \subseteq Event
  /\ lapsed \subseteq Token
  /\ moot \subseteq Conditional
  /\ sent \in [Event -> SUBSET Nat]
  /\ up \in [Worker -> BOOLEAN]
  /\ hold \in [Worker -> Token \cup {NoToken}]
  /\ phase \in [Worker -> [Event -> Phase]]
  /\ tried \in [Worker -> [Event -> Nat]]
  /\ faults \in 0..MaxFaults
  /\ assigns \in 0..MaxAssigns

Init ==
  /\ status = [e \in Event |-> "NONE"]
  /\ attempts = [e \in Event |-> 0]
  /\ token = [e \in Event |-> NoToken]
  /\ rows = [e \in Event |-> <<>>]
  /\ noted = {}
  /\ due = {}
  /\ lapsed = {}
  /\ moot = {}
  /\ sent = [e \in Event |-> {}]
  /\ up = [w \in Worker |-> TRUE]
  /\ hold = [w \in Worker |-> NoToken]
  /\ phase = [w \in Worker |-> [e \in Event |-> "none"]]
  /\ tried = [w \in Worker |-> [e \in Event |-> 0]]
  /\ faults = 0
  /\ assigns = 0

-----------------------------------------------------------------------------
(* The writers of the outbox. *)

\* outbox(): a row with a deduplication key of its own, due at once.
Publish(e) ==
  /\ e \notin Reminder \cup {AssignPush}
  /\ status[e] = "NONE"
  /\ status' = [status EXCEPT ![e] = "PENDING"]
  /\ due' = due \cup {e}
  /\ UNCHANGED <<attempts, token, rows, noted, memory, outside>>

\* assignCallCentreRequest: createReminders() upserts every reminder row and
\* outbox() inserts the push row, whose unique key rolls the transaction back
\* while an earlier row of that key is kept.  The update branch of the upsert
\* sets status, attempts and next_attempt_at; it leaves the claim token and
\* the delivery_attempts rows as they are.
AssignProvider ==
  LET queued  == Reminder \cup {AssignPush}
      created == {e \in queued : status[e] \in Absent} IN
  /\ assigns < MaxAssigns
  /\ status[AssignPush] \in Absent
  /\ status' = [e \in Event |-> IF e \in queued THEN "PENDING" ELSE status[e]]
  /\ attempts' = [e \in Event |-> IF e \in queued THEN 0 ELSE attempts[e]]
  /\ due' = (due \ Reminder) \cup {AssignPush}
  /\ sent' = [e \in Event |-> IF e \in created THEN {} ELSE sent[e]]
  /\ noted' = noted \ created
  /\ assigns' = assigns + 1
  /\ UNCHANGED <<token, rows, memory, lapsed, moot, faults>>

-----------------------------------------------------------------------------
(* Time and the subjects of the events. *)

BecomeDue(e) ==
  /\ status[e] \in {"PENDING", "FAILED"}
  /\ e \notin due
  /\ due' = due \cup {e}
  /\ UNCHANGED <<status, attempts, token, rows, noted, memory, outside>>

\* The request is cancelled or completed or its time has come, or the account
\* challenge is consumed, superseded or expired: none of these is undone.
BecomeMoot(e) ==
  /\ e \in Conditional \ moot
  /\ status[e] \in Open
  /\ moot' = moot \cup {e}
  /\ UNCHANGED <<table, memory, lapsed, sent, faults, assigns>>

Leased(t) == \E e \in Event : status[e] = "PROCESSING" /\ token[e] = t

\* The lease of a batch nobody is delivering any more.
LeaseLapses(t) ==
  /\ Leased(t)
  /\ t \notin lapsed
  /\ \A w \in Worker : hold[w] # t
  /\ lapsed' = lapsed \cup {t}
  /\ UNCHANGED <<table, memory, moot, sent, faults, assigns>>

\* The lease of a batch that takes its worker longer than the lease: one
\* claim_expires_at covers up to BatchSize deliveries in a row.
LeaseOutlived(w) ==
  /\ faults < MaxFaults
  /\ hold[w] # NoToken
  /\ Leased(hold[w])
  /\ hold[w] \notin lapsed
  /\ lapsed' = lapsed \cup {hold[w]}
  /\ faults' = faults + 1
  /\ UNCHANGED <<table, memory, moot, sent, assigns>>

-----------------------------------------------------------------------------
(* A worker: run(), processBatch(), claim(), deliver(), finish(), cleanup(). *)

\* Broken: abandoned claims are never taken over.
ClaimableOnce == {e \in Event : status[e] \in {"PENDING", "FAILED"} /\ e \in due}

\* Broken: a claim is taken over before its lease has passed.
ClaimableEarly == ClaimableOnce \cup {e \in Event : status[e] = "PROCESSING"}

Claimable ==
  {e \in Event : \/ status[e] \in {"PENDING", "FAILED"} /\ e \in due
                 \/ status[e] = "PROCESSING" /\ token[e] \in lapsed}

\* LIMIT batchSize.  Which of the claimable rows come first is left open.
Candidates ==
  {S \in SUBSET Claimable :
     Cardinality(S) = IF Cardinality(Claimable) < BatchSize
                      THEN Cardinality(Claimable) ELSE BatchSize}

InUse == {token[e] : e \in Event} \cup {hold[w] : w \in Worker}

\* randomUUID(): a token that no row and no worker knows.
Fresh == CHOOSE t \in Token : t \notin InUse

\* createMany() would insert a second row for an attempt already recorded.
Recorded(e) == attempts[e] + 1 \in DOMAIN rows[e]

Idle(w) == up[w] /\ hold[w] = NoToken

ClaimBatch(w, S) ==
  /\ Idle(w)
  /\ S # {}
  /\ \A e \in S : ~Recorded(e)
  /\ \E t \in Token : t \notin InUse
  /\ status' = [e \in Event |-> IF e \in S THEN "PROCESSING" ELSE status[e]]
  /\ attempts' = [e \in Event |-> IF e \in S THEN attempts[e] + 1 ELSE attempts[e]]
  /\ token' = [e \in Event |-> IF e \in S THEN Fresh ELSE token[e]]
  /\ rows' = [e \in Event |-> IF e \in S THEN Append(rows[e], "PROCESSING") ELSE rows[e]]
  /\ lapsed' = lapsed \ {Fresh}
  /\ hold' = [hold EXCEPT ![w] = Fresh]
  /\ phase' = [phase EXCEPT ![w] =
                [e \in Event |-> IF e \in S THEN "claimed" ELSE "none"]]
  /\ tried' = [tried EXCEPT ![w] =
                [e \in Event |-> IF e \in S THEN attempts[e] + 1 ELSE 0]]
  /\ UNCHANGED <<noted, due, up, moot, sent, faults, assigns>>

\* The unique index on (event, attempt number) rolls the whole claim back;
\* neither processBatch() nor run() catches the error, so the worker ends.
ClaimAborts(w, S) ==
  /\ Idle(w)
  /\ \E e \in S : Recorded(e)
  /\ up' = [up EXCEPT ![w] = FALSE]
  /\ UNCHANGED <<table, hold, phase, tried, outside>>

Claim(w) == \E S \in Candidates : ClaimBatch(w, S) \/ ClaimAborts(w, S)

\* Broken: one retry too many.
RetryPhaseLate(w, e) == IF tried[w][e] > MaxAttempts THEN "permanent" ELSE "transient"

\* deliver(): what the catch block records for a transient failure.
RetryPhase(w, e) == IF tried[w][e] >= MaxAttempts THEN "permanent" ELSE "transient"

Move(w, e, p) == phase' = [phase EXCEPT ![w][e] = p]

\* Broken: the subject is not read again.
EligibleAlways(e) == TRUE

Eligible(e) == e \notin moot

\* content(): the eligibility of a conditional event is read here, once, before
\* the message is handed to a gateway.
ReadContent(w, e) ==
  /\ up[w]
  /\ phase[w][e] = "claimed"
  /\ \A f \in Event : phase[w][f] \in {"none", "claimed"}
  /\ \/ Move(w, e, IF Eligible(e) THEN "dispatch" ELSE "permanent")
     \/ Move(w, e, RetryPhase(w, e))          \* the read fails
  /\ UNCHANGED <<table, up, hold, tried, outside>>

Accepted(w, e) == sent' = [sent EXCEPT ![e] = @ \cup {tried[w][e]}]

\* dispatch(): an IN_APP event needs no gateway.  A gateway accepts, accepts
\* and loses the answer, or refuses for a while or for good.
Dispatch(w, e) ==
  /\ up[w]
  /\ phase[w][e] = "dispatch"
  /\ \/ e \in InApp /\ Move(w, e, "delivered") /\ UNCHANGED sent
     \/ /\ e \notin InApp
        /\ \/ Move(w, e, "delivered") /\ Accepted(w, e)
           \/ Move(w, e, RetryPhase(w, e)) /\ Accepted(w, e)
           \/ Move(w, e, RetryPhase(w, e)) /\ UNCHANGED sent
           \/ Move(w, e, "permanent") /\ UNCHANGED sent
  /\ UNCHANGED <<table, up, hold, tried, lapsed, moot, faults, assigns>>

\* processBatch() goes on to the next event, or back to run().
Release(w, e) ==
  /\ phase' = [phase EXCEPT ![w][e] = "none"]
  /\ tried' = [tried EXCEPT ![w][e] = 0]
  /\ hold' = [hold EXCEPT ![w] =
               IF \A f \in Event \ {e} : phase[w][f] = "none" THEN NoToken ELSE @]

\* Broken: any claim, or any claim of a row in process, may be recorded.
OwnsAnything(w, e) == TRUE
OwnsProcessing(w, e) == status[e] = "PROCESSING"

\* finish(): updateMany() by id and claim token.
Owns(w, e) == token[e] = hold[w]

Record(w, e) ==
  LET p == phase[w][e] IN
  /\ status' = [status EXCEPT ![e] = StatusOf(p)]
  /\ token' = [token EXCEPT ![e] = NoToken]
  /\ due' = due \ {e}
  /\ noted' = IF p = "delivered" /\ e \in InApp THEN noted \cup {e} ELSE noted
  /\ rows' = [rows EXCEPT ![e] = [@ EXCEPT ![tried[w][e]] = ResultOf(p)]]

\* Nothing is written unless the row still has the token of this claim.
Finish(w, e) ==
  /\ up[w]
  /\ phase[w][e] \in Ending
  /\ IF Owns(w, e) THEN Record(w, e) /\ UNCHANGED attempts ELSE UNCHANGED table
  /\ Release(w, e)
  /\ UNCHANGED <<up, outside>>

\* The transaction of finish() fails: after a delivery the catch block tries to
\* record a failure, after a failure the error is dropped by processBatch().
FinishFails(w, e) ==
  /\ up[w]
  /\ faults < MaxFaults
  /\ phase[w][e] \in Ending
  /\ IF phase[w][e] = "delivered"
     THEN Move(w, e, RetryPhase(w, e)) /\ UNCHANGED <<hold, tried>>
     ELSE Release(w, e)
  /\ faults' = faults + 1
  /\ UNCHANGED <<table, up, lapsed, moot, sent, assigns>>

\* deleteMany() of settled rows past their retention; the attempts cascade.
Cleanup(w, S) ==
  /\ Idle(w)
  /\ S # {}
  /\ \A e \in S : status[e] \in Terminal
  /\ status' = [e \in Event |-> IF e \in S THEN "PURGED" ELSE status[e]]
  /\ attempts' = [e \in Event |-> IF e \in S THEN 0 ELSE attempts[e]]
  /\ rows' = [e \in Event |-> IF e \in S THEN <<>> ELSE rows[e]]
  /\ UNCHANGED <<token, noted, due, memory, outside>>

\* The process ends, in the middle of a batch or between two.
Crash(w) ==
  /\ up[w]
  /\ faults < MaxFaults
  /\ up' = [up EXCEPT ![w] = FALSE]
  /\ hold' = [hold EXCEPT ![w] = NoToken]
  /\ phase' = [phase EXCEPT ![w] = [e \in Event |-> "none"]]
  /\ tried' = [tried EXCEPT ![w] = [e \in Event |-> 0]]
  /\ faults' = faults + 1
  /\ UNCHANGED <<table, lapsed, moot, sent, assigns>>

Restart(w) ==
  /\ ~up[w]
  /\ up' = [up EXCEPT ![w] = TRUE]
  /\ UNCHANGED <<table, hold, phase, tried, outside>>

\* processBatch() found nothing to claim and run() pauses.
Pause(w) == Idle(w) /\ Claimable = {} /\ UNCHANGED vars

Deliver(w) == \E e \in Event : ReadContent(w, e) \/ Dispatch(w, e) \/ Finish(w, e)

Next ==
  \/ AssignProvider
  \/ \E e \in Event : Publish(e) \/ BecomeDue(e) \/ BecomeMoot(e)
  \/ \E t \in Token : LeaseLapses(t)
  \/ \E w \in Worker :
       \/ Claim(w)
       \/ Pause(w)
       \/ Deliver(w)
       \/ \E e \in Event : FinishFails(w, e)
       \/ \E S \in SUBSET Event : Cleanup(w, S)
       \/ LeaseOutlived(w)
       \/ Crash(w)
       \/ Restart(w)

Spec == Init /\ [][Next]_vars

\* The loop of a running worker goes on, the platform restarts a worker that
\* ended, and waiting times end.
Fairness ==
  /\ \A w \in Worker : WF_vars(Claim(w)) /\ WF_vars(Deliver(w)) /\ WF_vars(Restart(w))
  /\ \A e \in Event : WF_vars(BecomeDue(e))
  /\ \A t \in Token : WF_vars(LeaseLapses(t))

FairSpec == Spec /\ Fairness

-----------------------------------------------------------------------------
(* Safety. *)

\* claim(), finish() and the reminder upsert keep attempts and the attempt
\* records together: an event that is never queued again has exactly one record
\* per attempt, a reminder has at least one (delivery.processor.ts:165-186).
AttemptLedger ==
  \A e \in Event : /\ attempts[e] <= Len(rows[e])
                   /\ e \notin Reminder => attempts[e] = Len(rows[e])

\* The status an operator sees is the result of the last recorded attempt, and
\* no earlier attempt is recorded as delivered: finish() writes both or neither,
\* although a worker that outlived its lease also calls it (404-455).
StatusIsLastResult ==
  \A e \in Event :
    LET n == Len(rows[e]) IN
    /\ \A i \in 1..(n - 1) : rows[e][i] # "DELIVERED"
    /\ status[e] = "PROCESSING" => n > 0 /\ rows[e][n] = "PROCESSING"
    /\ status[e] = "FAILED" => n > 0 /\ rows[e][n] = "TRANSIENT_FAILURE"
    /\ status[e] = "DELIVERED" => n > 0 /\ rows[e][n] = "DELIVERED"
    /\ status[e] = "DEAD_LETTER" => n > 0 /\ rows[e][n] = "PERMANENT_FAILURE"

\* An event is marked delivered only for a message a gateway accepted in the
\* attempt on record, or once its in-app notification exists (200-224, 427-446).
DeliveredWasHandedOver ==
  \A e \in Event : status[e] = "DELIVERED" =>
    IF e \in InApp THEN e \in noted ELSE Len(rows[e]) \in sent[e]

\* An event waits for a retry only while it has attempts left, and exceeds the
\* configured attempts by no more than the crashes, outlived leases and failed
\* commits there were (160-186, 213-222).
RetryBudget ==
  \A e \in Event : /\ status[e] = "FAILED" => attempts[e] < MaxAttempts
                   /\ attempts[e] <= MaxAttempts + faults

\* Two workers have the same event in their batches only if one of them has
\* outlived the lease of its claim (151-172).
LeaseExclusion ==
  \A w, v \in Worker : \A e \in Event :
    w # v /\ phase[w][e] # "none" /\ phase[v][e] # "none"
      => hold[w] \in lapsed \/ hold[v] \in lapsed

\* A delivered or dead-lettered event stays what it is until it is purged,
\* whatever a late worker reports; only a reminder is queued again (404-426).
SettledStays ==
  [][\A e \in Event : status[e] \in Terminal =>
       \/ status'[e] \in {status[e], "PURGED"}
       \/ e \in Reminder /\ status'[e] = "PENDING"]_vars

-----------------------------------------------------------------------------
(* Why it is so: the inductive invariant behind the safety properties. *)

Holds(w, e) == phase[w][e] # "none"

\* A worker has events only under a token, and no two workers share one.
TokenInv ==
  /\ \A w \in Worker, e \in Event : Holds(w, e) => hold[w] # NoToken
  /\ \A w, v \in Worker : hold[w] # NoToken /\ hold[w] = hold[v] => w = v

\* Only rows in process, or put back from there by the upsert, have a token.
RowInv ==
  \A e \in Event :
    /\ status[e] \in Absent => rows[e] = <<>> /\ attempts[e] = 0
    /\ status[e] = "PENDING" => attempts[e] = 0
    /\ status[e] \notin {"PENDING", "PROCESSING"} => token[e] = NoToken
    /\ status[e] = "PROCESSING" => token[e] # NoToken

\* A worker whose token is still on the row is at the row's last attempt.
HeldInv ==
  \A w \in Worker, e \in Event :
    Holds(w, e) /\ token[e] = hold[w] =>
      /\ Len(rows[e]) > 0
      /\ tried[w][e] = Len(rows[e])
      /\ rows[e][Len(rows[e])] = "PROCESSING"
      /\ phase[w][e] = "delivered" /\ e \notin InApp => tried[w][e] \in sent[e]

\* Until its lease has passed a worker keeps the token of all it has claimed.
LeaseInv ==
  \A w \in Worker, e \in Event :
    Holds(w, e) /\ hold[w] \notin lapsed =>
      token[e] = hold[w] /\ status[e] \in {"PENDING", "PROCESSING"}

\* The worker that has the row under a running lease, if any.
Current(w, e) ==
  /\ status[e] = "PROCESSING"
  /\ token[e] \notin lapsed
  /\ Holds(w, e)
  /\ hold[w] = token[e]

\* Every attempt beyond the configured ones follows a fault.
BudgetInv ==
  /\ \A w \in Worker, e \in Event : phase[w][e] = "transient" => tried[w][e] < MaxAttempts
  /\ \A e \in Event :
       status[e] \in Open /\ (\A w \in Worker : ~Current(w, e))
         => attempts[e] < MaxAttempts + faults

\* Before it is written an event has left no trace.
UnwrittenInv ==
  \A e \in Event : status[e] = "NONE" =>
    sent[e] = {} /\ e \notin noted /\ \A w \in Worker : ~Holds(w, e)

\* Why no two workers act on one claim: each token names one worker, a row in
\* process carries its last claimer's, and a worker that lost its row cannot
\* tell, but neither can it match the token (151-198, 404-426).
ClaimInv == TokenInv /\ RowInv /\ HeldInv /\ LeaseInv /\ BudgetInv /\ UnwrittenInv

-----------------------------------------------------------------------------
(* What the outbox promises, as a specification of its own. *)

FateOf(s) == IF s = "NONE" THEN "unwritten"
             ELSE IF s \in Open THEN "open"
             ELSE IF s = "DELIVERED" THEN "delivered"
             ELSE IF s = "DEAD_LETTER" THEN "dead"
             ELSE "purged"

fate == [e \in Event |-> FateOf(status[e])]

handed == {e \in Event : sent[e] # {}} \cup noted

Lifecycle == INSTANCE EventLifecycle

\* Workers, claims, leases and crashes together only do what EventLifecycle
\* allows: nothing is delivered that was not handed over, nothing settled moves.
ImplementsLifecycle == Lifecycle!Spec

-----------------------------------------------------------------------------
(* Liveness. *)

Settled(e) == status[e] \in Terminal \cup {"PURGED"}

\* "One event never blocks the batch" (delivery.processor.ts:98): every event
\* written to the outbox is delivered or dead-lettered in the end.
EveryEventSettles == \A e \in Event : status[e] \in Open ~> Settled(e)

Underway(e) == \E w \in Worker : phase[w][e] \in {"dispatch", "delivered"}

\* The same promise for the other events while a reminder is queued again.
NoEventBlocksOthers ==
  \A e \in Event \ Reminder : status[e] \in Open ~> Settled(e)

\* An event whose subject is void before a worker has looked at it ends as a
\* dead letter and is never marked delivered (269-319).
VoidIsGivenUp ==
  \A e \in Conditional :
    (e \in moot /\ status[e] \in Open /\ ~Underway(e))
      ~> status[e] \in {"DEAD_LETTER", "PURGED"}
=============================================================================
