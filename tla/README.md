# Weyonje: specifications, model checks and proofs

Weyonje is a service for ordering the emptying of toilets in Kampala: clients ask for a service
in a mobile application or through a call centre, service providers accept and perform it, staff
of the city (KCCA) assign providers and disposal sites and follow up. This directory holds TLA+
specifications of the parts of the system whose correctness depends on order, concurrency, failure
or time, the TLC runs that check them on small instances, and TLAPS proofs for every value of
their constants. `PROJECT.json` names every component, run, theorem and hazard and maps each
definition to the lines it models.

## 1. Inventory

Code is under `src/apps/api/src` (NestJS API and delivery worker over PostgreSQL through Prisma)
and `src/apps/mobile/lib` (Flutter application). The API processes and the workers share nothing
but the database; a process may stop at any point, and several instances of each may run.

| Component | State it keeps | Operations | What is hard, and what must hold |
|---|---|---|---|
| **Outbox delivery** (`delivery/`, `worker.ts`) | `outbox_events`, `delivery_attempts`, `operational_notifications` | claim a batch under a lease, read content, dispatch, finish, clean up | Workers race for rows, outlive their lease, crash after a gateway accepted. One result per attempt; nothing is marked delivered that was not handed over; settled events stay settled; every event settles. |
| **Service request workflow** (`workflows/workflow.service.ts`) | `service_requests` and the tables around it: assignments, status history, journeys, positions, collection reports, feedback, follow-up cases, disposal assignments | create, edit, withdraw, assign, accept, reject, start journeys, submit positions, report, give feedback, dispose, assign sites | Clients, providers and staff act at once; position batches run in a weaker isolation level. One provider per request; the history is a path; disposal only of collected waste, at the assigned site. |
| **Idempotency wrapper** (`idempotent()` in the workflow service) | `idempotency_records` | look up, run, record, retry once, recover | Duplicated and concurrent calls with one key, serialization failures, unique conflicts of other tables. An operation takes effect at most once per key and always answers with that effect. |
| **Sessions** (`auth/session.service.ts`, `auth/auth.service.ts`) | `authentication_sessions`, `refresh_tokens` | create, authenticate, refresh with rotation, sign out, revoke | Two refreshes with one token, a token used again after its rotation, sign-out racing a refresh. |
| **Phone challenges** (`registration/phone-challenge.service.ts`) | `phone_challenges` | create, resend, verify, expire | Delivery outside the transaction, wrong codes counted under concurrency, one use per code, only the latest. |
| **Account challenges** (`account-security/`) | `account_challenges`, passwords, sessions | request and complete password recovery, verify an e-mail | No lock orders the requests for a code: each supersedes what it finds. A code is used once or superseded; a recovery ends every session. |
| **Login throttle** (`auth/login-throttle.service.ts`) | `login_throttles` | record a failure, record a success, assert | Counters read and written back without a lock, row locks taken in several orders. Requests for codes are never lost; no lock without its cause; no deadlock without a deletion of counters, or a recovery beside a refresh. |
| **Provider registration** (`registration/registration.service.ts`) | `users`, `provider_status_history`, `provider_approval_decisions` | register, verify phone, decide, change status | Two approvers, a decision racing a status change. |
| **Device installations** (`notifications/`) | `device_installations` | register, remove, list targets, invalidate | Registrations overlap, requests are late, a worker cleans up by what it read. One push token has one owner. |
| **Realtime gateway** (`workflows/journey.gateway.ts`) | sockets | subscribe, publish | Subscriptions outlive the permission they were granted under. |
| **Mobile journey tracking** (`features/workflows/application/journey_tracking_coordinator.dart`) | the active journey and a queue of positions in secure storage; a subscription and a sending slot in memory | start, stop, clear, restore, send, queue, flush | All of them overlap between awaits; a lost answer, a killed process, the queue at its limit. No position is queued twice, or queued while it is still being sent; the slot is always freed; order of time. |
| **Mobile session** (`core/auth/auth_repository.dart`, `features/auth/application/launch_controller.dart`) | credentials in secure storage, the launch state | check, renew once, sign in, sign out, revalidate on resume | One renewal shared by many; sign-out or sign-in during a renewal; a kill between rotation and save; a check the system cancels. What is shown is what is stored; a signed-out session stays away; the user always gets out of a waiting screen. |
| **Push coordinator** (`core/notifications/`) | the installation in secure storage; `_started`, a token listener | start, disable, register on a new token | Nobody awaits `start()`; a sign-out runs `disable()` twice. Who is shown is reached once all is quiet, who has left is not. |
| Mobile registration controllers | screen state | - | Sequencing of asynchronous calls in one isolate. |
| Configuration, maps gateways, DTOs, controllers, contracts, generated Prisma client, UI | none of their own | - | Not modelled: no state that several actors share. |

The components meet in the database. The workflow and the account services write outbox rows in
their own transactions; workers drain them and read requests and challenges again before sending.
Every workflow operation takes the actor from the guard, that is from the sessions and the account
status at the time the call came in, and runs under the idempotency wrapper, except the position
batches. The mobile application retries through the wrapper's keys and keeps positions until the
server has answered.

## 2. Structure

| Module | What it is | Used by |
|---|---|---|
| `EventLifecycle` | abstract: what an outbox event promises | implemented by `OutboxDelivery` |
| `OutboxDelivery` | workers, leases, attempts, reminders | `MCOutbox`, `OutboxDelivery_proofs` |
| `RequestLifecycle` | abstract: what a service request promises | implemented by `ServiceRequest` |
| `ServiceRequest` | one request with its assignments, journeys, disposal | `MCRequest`, `ServiceRequest_proofs` |
| `Idempotency` | the wrapper of every operation of the workflow | `MCIdempotency`, `ServiceRequest_proofs` |
| `Sessions` | server sessions and tokens, recovery, hash upgrade | `MCSessions`, `Sessions_proofs` |
| `PhoneAccess` | phone codes, registration, decisions about providers | `MCPhoneAccess`, `PhoneAccess_proofs` |
| `LoginThrottle` | counters of sign-ins and of requests for codes | extended by `AccountChallenges` |
| `AccountChallenges` | recovery and e-mail codes, composed with the throttle | `MCAccountChallenges`, `AccountChallenges_proofs` |
| `MobileSession` | the application's session, composed with what the server answers | `MCMobileSession`, `MobileSession_proofs` |
| `JourneyTracking` | the application's positions, composed with `submitPositions()` | `MCJourneyTracking`, `JourneyTracking_proofs` |
| `PushRegistration` | the push coordinator, composed with the device installations and the worker | `MCPushRegistration`, `PushRegistration_proofs` |

## 3. Modules and the code

**`OutboxDelivery`** (refines `EventLifecycle`; instance `MCOutbox`). A row of `outbox_events` is
an element of `Event`. `status`, `attempts`, `token` are its columns, `rows` its
`delivery_attempts`, `noted` the in-app notification written for it. `ClaimBatch` is the claim
transaction (`FOR UPDATE SKIP LOCKED`, `UPDATE`, `createMany`) and `ClaimAborts` the same
transaction when the unique index on (event, attempt number) rejects it; `ReadContent`,
`Dispatch`, `Finish` and `FinishFails` are the steps of `deliver()`, taken one event at a time as
the `for` loop of `processBatch()` does; `Cleanup`, `Crash`, `Restart` complete the worker.
`Publish` is `outbox()`, `AssignProvider` the part of `assignCallCentreRequest()` that upserts
reminders and inserts the push row. Time is not counted: `due` and `lapsed` say which waiting
times have passed, and they may pass at any moment, so every clock of every worker is covered.
Which of the claimable rows a batch takes first is left open.

**`ServiceRequest`** (refines `RequestLifecycle`; instance `MCRequest`). One request with the rows
around it. An operation under `idempotent()` is a `SERIALIZABLE` transaction and hence one action.
Two things escape it and are separate steps: the guard reads the account before the transaction
(`Admit`, then the operation consumes the admission), and `submitPositions()` reads the journey
(`ReadPositions`) and later updates it by id (`MarkArrived`) at the default isolation level.
`MoveTo` is an update of the status with its `request_status_history` row. Of the content of a pending
request only the `updated_at` of each version is kept (`versions`): a client sends back that of the
version it looked at, which `Matches` compares with the row and `Stamp` replaces; the clock may show any
time at any moment. `active` are the disposal sites that `upsertDisposalSite()` has switched on.

**`Idempotency`** (instance `MCIdempotency`). Calls of one actor and one operation. A call has a key
and a payload and may be repeated after its end, its answer received or lost. `Begin` is the
start of the `SERIALIZABLE` transaction with its snapshot, `Repeat` the answer from the record
found, `Decline` a work that finds its row already there, `Commit` the work and the record,
`Overtaken` the commit that loses against a unique index and `SerializationFailure` the retry,
taken once. `Recover` is the second look at the record in the `catch` block. `Works` and `Taking`
abstract the work to a row of its own that is unique (`collection_reports.request_id`).

**`Sessions`** (instance `MCSessions`). One staff account. The transactions run READ COMMITTED, so
each statement is an action. What a transaction has written is kept with the call (`ended`,
`gone`, `pc`) until its commit, and is at the same time its set of row locks; `WaitsFor` and
`Deadlock` are PostgreSQL's wait graph and detector. A multi-row `updateMany` takes its rows one by
one, in any order, and looks at each again when it gets it. `proven`, `shown` are history. A used
token stays "used" when it is revoked too, as `refresh()` looks at `used_at` first.

**`PhoneAccess`** (instance `MCPhoneAccess`). One phone number, the account registered with it and
its challenges. A call is a handler: `Register` or `RequestCode` or `Resend` leads to `Issue`, the
transaction under the advisory lock, then `Send` and `RecordSent` or `RecordFailed`, which run
outside any transaction; `Answer` reads and compares, `CountWrong` and `UseCode` follow. `UseCode`
includes what the code is for (`Complete`): `verifyPhone()` reads the account again under its row
lock, the sign-ins check it again. Staff read the account (`ReadPending`, `ReadStatus`) and write
it later in the same transaction, which takes no lock at the reading. A call may end anywhere
(`Abandon`). Of time only the age of a challenge is kept, in four steps that the configured ranges
put in order. `phone_verified_at` and `login_enabled` are set together and never cleared.

**`LoginThrottle`** and **`AccountChallenges`** (instance `MCAccountChallenges`). One KCCA account, whose
row sign-ins and recoveries both write. Transactions run READ COMMITTED: `todo` lists the rows a call
has still to lock, `held` those it has, `seen` what it has read and will write from. `ReadRow` and
`Take` are the `findUnique()` and the `upsert()` of one row in `recordFailure()`. `assertAllowed()` looks
at the memory (`AskMemory`), deletes expired rows, which it locks as it finds them (`FindExpired`,
`CleanedUp`), and asks for locks (`AskRows`); `recordSuccess()` deletes rows the same way. Requests for
codes take two advisory locks (`LockOrder`, `Advise`) before they look. `Stuck` is a circle in the wait
graph; `Abandon` is its victim, a failed statement or a process that ends. A window and a lock pass at
any time when no transaction has a row in hand. A code's `issue()` is `FindEarlier`, `Supersede` row by
row and `Issue`; an answer is read and compared (`Answer`), then counted (`CountWrong`) or used
(`Consume`, `Complete`). A recovery locks the code, the account, its session and the session's token
(`ToComplete`); a refresh locks the token and then the session (`Rotate`, `Rotated`). One session with
one token stands for them all; what becomes of them, the reuse of a token and sign-out, with deadlocks
of their own, are in `Sessions`. `action` is the action of the security event the hourly limit counts.

**`MobileSession`** (instance `MCMobileSession`). Dart runs one thing at a time, so an action is what a
call does between two awaits; `flow` holds the calls under way and where each goes on. The counters
`_sessionGeneration` and `_generation` are compared for equality only: a flow carries the outcome of
the comparison (`same`, `current`). The server keeps per session its state and the index of the
refresh token it will accept; a second use of one ends the session (`Renew`), as in `Sessions`. A
request that is given up stays in `strays` and may reach the server at any later time. `Pause` and
`Resume` are the lifecycle callbacks of `app.dart`, `Kill` ends the process and keeps the storage. The
secure storage never fails here: an exception it throws in `_refresh()`, which no clause there catches, or in
the reading of the stored session is outside the model, and so is a check it would leave without an end.

**`JourneyTracking`** (instance `MCJourneyTracking`). The same scheme for the coordinator: a storage call
takes effect when it is made and the flow goes on later. `Sample` brings a position; `Flush`,
`Flushed` send the queue's copy one by one; `Sent` ends `_send()`; `Enqueue` writes the queue back.
`_sending` is the slot of `_send()` only: `start()` flushes without it (`Listen`, `Flush`), so it may submit
the head of the queue while a `_send()` submits the same.
The screen, the authenticated state and its end start `OpenScreen`, `Restore` and `Clear` beside
them. `Accept` is what `submitPositions()` does with one position. Positions carry the number in
which the device took them; the queue's limit of 200 is `QueueLimit`, the limit of 24 hours is left
out.

**`PushRegistration`** (instance `MCPushRegistration`). One phone. A call is one run of `start()`, of
`disable()` or of the token listener: `SetUp`, `GetToken`, `Send`, `Listen`, `StartFailed` and
`DeleteToken` are what they do between two awaits. A request is on its way until the server serves it;
`register()` is taken in its two statements, `Find` (`deleteMany`, which sees committed rows) and
`Register` (`upsert` under the unique index on the token, and the commit), `remove()` in one. `Lose` ends
the wait for an answer, after which the request may be gone or late. `Clear`, `Check`, `SignIn`, `SignOut`
and `Leave` are what `MobileSession` has in detail, kept as far as they run the coordinator or change the
stored session: a sign-in begins with the write of its credentials, so one that fails is not seen. `Clear`
empties the store before `Check` shows the outcome; a pause in between drops it, and an actor is shown with
nothing stored. The user may refuse notifications and allow them later (`permitted`, `Allow`).
`ReadTargets` and `Deliver` are the worker's `targets()`, the gateway and `invalidate()`. Firebase is
external: it has one token for the phone or none, gives out a fresh one when asked or at any time
(`Rotate`), tells the listeners, and reports every other token as dead. The rows of other phones and
the activity of an account are left out.

## 4. Runs

| Run | What it shows | Bounds |
|---|---|---|
| `outbox` | statuses follow the results, retry budget, lease exclusion, the refinement | 2 workers, a push and a reminder, batches of 2, 2 attempts, 2 faults, 2 assignments |
| `outbox_live` | every event settles; void events are given up | 2 workers, 2 events, batches of 1, 2 attempts, 1 fault |
| `outbox_poison` (violated) | a re-queued reminder blocks its batch for ever | 1 worker, no faults, 2 assignments |
| `request` | one provider per request, waste disposed where it was sent, no lost edit, the refinement | 2 providers, 2 sites, 2 concurrent position calls, 2 starts of the disposal journey, 2 site assignments, 3 times a clock shows |
| `idempotency` | one effect per key, true answers, refusals only for the effects of others, no call stuck | 3 calls, 3 keys, 2 payloads, one serialization failure beyond the necessary ones |
| `sessions` | rotation, reuse, sign-out and recovery statement by statement; no session outlives its password | 2 calls, 2 sessions, 3 tokens, 2 recoveries |
| `phone_access` | limits under concurrent requests, one use of a code and only of the latest that was sent | 2 calls, 3 codes, 2 codes per hour, 1 attempt |
| `account_challenges` | requests are counted, one use per code, locks have a cause, deadlocks have a cause | 2 calls at a time, 4 in all of which the first 3 may be sign-ins, 3 codes, 2 requests per hour, limits of 2 (account, phone) and 3 (network address), 1 attempt |
| `mobile_session` | no reuse of its own, shown is stored, signed out is gone, the launch screen is left | 2 sessions, 2 flows, 1 renewal each, 2 events (attempts, pauses, kills) |
| `journey_tracking` | no position is queued twice or queued while it is sent as new, the slot is freed | 1 journey, 2 flows, 3 positions, a queue of 2, 1 fault |
| `journey_order` (violated) | the queue is not in order of time | 2 journeys, 2 flows, 3 positions, a queue of 2, 1 fault |
| `push_registration` | one owner of a token; nobody is reached after a sign-out; who is shown is reached once all is quiet, each with its exceptions | 2 accounts, one after the other, 2 calls, 4 tokens, 2 events (second sign-in, kill, rotation, denial, delivery, failed call) |

Two workers and two faults let a batch be claimed, outlived, taken over, and the take-over crash
too; two attempts with a maximum of two reach the last retry; in `outbox_live`
each batch takes one of two events and keeps the other out. There no assignment happens (`MaxAssigns = 0`),
so reminders and the assignment's push row, which `outbox` and `outbox_poison` cover, are not written;
batches of two are in `outbox`.
Three tokens allow a session to be opened and two refreshes of it to insert a replacement each, while
a second one is opened; two recoveries follow each other or overlap a sign-in begun
before both. Deadlock is checked: a call that has started can always end, by the detector if need be.
Three codes reach both limits of a purpose and leave one for after them, or for the sign-in; with a
single attempt every wrong answer is the last, so two of them, or one and the right one, race for it.
In `account_challenges` limits of two and three let one failure be lost and the other lock, and a recovery has a
sign-in beside it; three codes are one
that is open and two that overlapping requests issue. Two flows of the application are a check, a
sign-in or a sign-out beside another; a renewal and two events reach the answer that arrives after a
pause, after a kill and after the next sign-in. A queue of two overflows with the third position; the
journey is started again while a position of it is in flight, and `journey_order` has a second one.
In `push_registration` the second account (`UserOf` says who signs in when) registers a token the first
one still holds, or one Firebase made after the sign-out; a token is taken again when nothing remembers
it, so four do for a longer run as well. Two events let the second sign-in, or a restart or a
delivery, meet a rotation or a failure. A sign-out runs `disable()` twice and needs both calls, so no `start()`
is under way when it begins, which `SignOutSilences` excepts anyway; one that begins with the next
sign-in, and the `disable()` of a check that ended badly, do overlap others. In the mobile and push
instances deadlock is not checked: the application rests when nobody uses it and the bounds are used up.
`INACTIVE` stands for `DISABLED`, which the code treats alike.
For a request two of each actor suffice for every race in the code, since each operation concerns
at most the previous holder of a role and the next. The proofs remove the bounds on actors.

**Fairness** (`outbox_live`, `outbox_poison`, `mobile_session` and `journey_tracking`). `run()` loops while the process lives, so a
running worker goes on to claim and to deliver; the platform restarts a worker that ended; a
database clock passes every due time and every lease. Each is weak fairness of one action of one
worker or row. Crashes, outlived leases and failed commits are never required and are bounded in
number: with infinitely many an event need not settle. In the mobile modules every
request ends, by its answer or by the time limit of the HTTP client, Dart runs what is ready, the first
frame initializes, and a user who left the application returns; no press of a button is required.
`push_registration` assumes none: what it says of an actor who is shown is said of the states in which
every call and every request has come to its end (`Busy`).

## 5. Proofs

`OutboxDelivery_proofs` proves for every set of events, workers and tokens and every limit that
`TypeOK`, `ClaimInv`, `AttemptLedger`, `StatusIsLastResult`, `DeliveredWasHandedOver`,
`RetryBudget`, `LeaseExclusion` hold and that `SettledStays` is never violated. None of the
safety properties is inductive: that a late `finish()` does no harm needs that its token is on no
row it does not own (`TokenInv`), that a row carries a token only while in process or put back
from there (`RowInv`), that a worker whose token is still there is at the row's last attempt
(`HeldInv`), and that a running lease protects the row (`LeaseInv`). `BudgetInv` relates attempts to
faults. The same module maps each step to one of `EventLifecycle` or a stutter.

`ServiceRequest_proofs` proves `TypeOK`, `OneProvider`, `HistoryIsPath`, `CancelledUntouched`,
`OutcomeRouting`, `RequestInv`, `DisposedWhereSent` and the action property `NoLostEdit`, which rests on
the times of the versions rising (`VersionInv`). The strengthening is `RequestInv`: how far
each journey can be in each status and what a position call in flight can still write
(`JourneyInv`), and which rows exist in each status (`RecordInv`). That a late arrival of a
disposal journey cannot confirm the wrong site rests on the site being fixed from the departure
on. The same module proves the refinement of `RequestLifecycle`.

`ServiceRequest_proofs` extends `Idempotency` too (whose names are its own, so that the two modules meet in
one) and proves of it `WrapperTypeOK`, `OncePerKey`, `DoneIsRecorded`, `RefusedHadNoEffect` and
`SnapshotInv` for any calls, keys and payloads. The argument is that of snapshots: a transaction
that saw no record of its key cannot commit beside one that wrote it, because the index rejects it.

`JourneyTracking_proofs` proves `TypeOK` and `QueuedOnce` for any journeys, flows and bounds on the
queue. That the queue holds no position twice is not inductive: flows write their own copies of it back.
The strengthening `IInv` says that a flow that submits has a journey and something to send (`FlowInv`),
and of the queue and of every copy alike (`QueueInv`): each holds a position once, none holds one that a
`_send()` has still to send or to queue, and no two calls have the same one in their hands. The rest is that cutting a queue, taking its tail and appending a position that is not in it
keep it so and within the limit.

`Sessions_proofs` proves every property of `Sessions`: `TypeOK`, `OneLiveToken`,
`EndedHasNoLiveToken`, `ReuseEndsSession` and `SessionFollowsPassword`. The strengthening says what
each statement leaves for the next. `RotationOK`: the token a refresh has consumed stays live until
it commits. `RevocationOK`: the sessions and tokens a revocation has locked and has still to lock
cover all it must end. `Apart`: two calls share no lock. `PasswordInv`: what was read
with a version of the password is that password. A rotation that commits beside a revocation adds no
live token to a session being ended, because writing `last_used_at` waits for the session's row.

`PhoneAccess_proofs` proves every property of `PhoneAccess`: `TypeOK`, `IssuanceLimits`,
`OneUsePerCode`, `UsableWasSent` and the action property `LatestCodeOnly`. The strengthening: a row
counts as sent only if it was (`RowInv`); only the newest challenge of a purpose is not used
(`LatestInv`); the account is verified by exactly one code (`WinInv`); and what each step of a call
takes for granted about its argument (`CallOK`). That the limits hold rests on the finite sets
they count: issuing adds one element under the lock, time only takes elements out.

`AccountChallenges_proofs` proves every safety property of `AccountChallenges` and of the
`LoginThrottle` it extends: `TypeOK`, `RequestsAreCounted`, `UsedOrSuperseded`, `DeadlocksHaveCause`
and the action property `LocksHaveCause`. The strengthening says, per kind of call, what it has read
and locked when it reaches each statement (`FailureOK`, `SuccessOK`, `RequestOK`, `IssueOK`,
`CompleteOK`), that two calls share no row or advisory lock (`Apart`), that no counter exceeds the
failures of its window (`CausesOK`), and that a code is used once and then is consumed (`UsesOK`). That
a deadlock has a deletion of counters in it, or a recovery beside a refresh, is an argument by order: all
other calls take their locks along one order (the network address before the phone; the counters of a
failure and then the account; the codes as the table has them, a code before the account, the account
before the session and its token, or the token before the session), so among such calls that wait for each
other the one that stands furthest waits for nobody.

`MobileSession_proofs` proves every safety property of `MobileSession`: `TypeOK`, `OwnReuse`,
`ShownIsStored` and `SignedOutIsGone`. At most one check or sign-in is current (`ScreenInv`); the renewal
in flight is one, and those who wait for it wait for the same session (`JoinInv`, `SharedInv`); what is
shown was read with the credentials that are stored (`ShownInv`); a session that was signed out is held
by its sign-out alone (`LeftInv`); a session just opened is known to its sign-in alone (`UnopenedInv`,
`FreshInv`). `OwnReuse` rests on `TokenInv`: unless an answer was given up, the token an application
holds for a session is the current one, or the renewal that replaced it is still unread. `BoundInv`
relates the tokens to the renewals counted. Most steps touch one flow; the lemmas `Steady` and `Calm`
say once what such a step preserves, and one lemma per action says the rest.

`PushRegistration_proofs` proves two safety properties of `PushRegistration`: `TypeOK`, which says that
a push token has one owner, and `SignOutSilences`. The first rests on the unique index and on what each
step takes for granted (`StepInv`, `RequestInv`, `JobInv`: who registers has a token, a cleanup writes a
row that is there), and on the order of sign-outs and sign-ins (`SessionInv`). The second rests on `SilenceInv`: on the sign-in screen, unless the phone is
exposed, a `disable()` is still to delete the token, or there is none and no `start()` to ask for one.
A step that ends no `disable()` and begins no `start()` keeps it (`SilenceLasts`), whatever the server,
Firebase and the worker do meanwhile.

The assumptions are those named in the modules (`OutboxAssumption`, `RequestAssumption`,
`IdempotencyAssumption`, `JourneyAssumption`, `SessionsAssumption`, `PhoneAccessAssumption`, `ThrottleAssumption`,
`ChallengesAssumption`, `MobileAssumption`, `PushAssumption`): model values differ, as do the keys of the kinds of counters; limits are natural numbers.
Proved but in no run, because the invariants they serve are: the `TypeOK` of `ServiceRequest`, `WrapperTypeOK`, `ClaimInv`, `AttemptLedger`,
`DeliveredWasHandedOver`, `SettledStays`, `HistoryIsPath`, `CancelledUntouched`, `OutcomeRouting`,
`RequestInv`, `VersionInv` and `SnapshotInv`. Only model-checked: the liveness properties (`EveryEventSettles`,
`VoidIsGivenUp`, `CheckingEnds`, `SlotFreed`), as the prover reasons neither about fairness nor about ENABLED,
and the invariant `ShownIsReached`. Every other invariant and every action property a passing run checks is
proved.

## 6. Where the code and its documents disagree

Shown by a run:

* **A re-queued reminder blocks the outbox** (`outbox_poison`). The update branch of
  `createReminders()` resets `attempts` to 0 and keeps `delivery_attempts`; the next claim inserts
  attempt 1 again, the unique index rolls back the claim of the whole batch, `run()` does not catch
  it. The comment in `delivery.processor.ts:98` promises that one event never blocks the batch.
* **Positions leave the order of time** (`journey_order`). A position whose submission fails is queued
  behind those queued meanwhile; the server refuses the older as stale, and as a flush stops at the
  first failure it stays at the head. `apps/mobile/README.md:46` promises chronological uploads.

Seen while modelling, present in the models, without a run of their own:

* **Reassignment**: the key of the push row holds only the request and the provider, so the same
  provider cannot be assigned twice until the row is cleaned up.
* **A finished journey is reopened**: `submitPositions()` updates by id what it read before; for the
  same reason two batches may both announce one arrival.
* **A unique conflict is taken for a repetition**: `idempotent()` treats every P2002 as a conflict on
  its own index and reports one in a table of the work as a reused key.
* **A hash upgrade undoes a recovery**: `signIn()` writes the upgraded hash by user id; when a recovery
  commits in between, the old password is back under the new version (`undone`).
* **Activated without a number**: a rejected provider that staff activate is approved without a
  provider number. Two members of staff may also decide one registration in opposite ways, each having
  read it as pending: the later commit stands, both messages are sent.
* A provider may accept an edit it has not seen: `acceptRequest()` does not look at `updated_at`, which
  guards the client's own edits and withdrawal only.
* The account of a provider is not read again in the transaction of an operation, so one who is
  suspended in between takes the request (`Admit` and `AcceptRequest`).
* **Failures are lost**: `recordFailure()` writes what it read without a lock; an overlapping failure is
  not counted, and a stale write may lift a lock, or set one again after a success or a recovery.
  `LocksHaveCause` is an upper bound on locks and does not say otherwise.
* **Deadlocks**: `deleteMany()` of expired counters and `recordSuccess()` lock rows in the order they find
  them, a failed sign-in in its own; a recovery locks a session before its tokens, a refresh the token
  before the session. PostgreSQL ends one of the calls, which is answered with an error.
* **Two open codes**: overlapping requests each supersede what was committed and leave one code each
  open; a right answer is accepted although wrong ones have used up the attempts meanwhile.
* **Sign-out in the application**: a sign-in attempt that begins while a sign-out is waiting takes the
  generation; if the attempt then fails, the old credentials stay stored. A pause that cancels a
  renewal the server has committed makes the next renewal a reuse, which ends the session (why
  `OwnReuse` excepts `abandoned`). A `FormatException` of `signInWithEmail()` clears the storage
  without looking at the generation.
* **Positions in the application**: a flush writes its own copy of the queue back and loses what was
  queued meanwhile, and puts a position back that another flush has removed; what is queued after `clear()`
  is flushed under the next journey; `start()` calls `_flush()` itself (line 102) and not through the slot of
  `_send()`, so two submissions run beside each other, possibly of one position, which the server
  recognizes by its sample id; two `start()` calls leave a subscription nobody cancels; and when the server refuses positions of a completed
  journey the coordinator queues them instead of stopping.
* **A retry that was interrupted cannot be repeated**: when the system makes the application inactive,
  `cancelActiveCheck()` drops the retry; `revalidateOnResume()` starts none in `LaunchTransientError`,
  and the button stays in its loading state. `apps/mobile/README.md:34` promises that connectivity
  failures expose retry.
* **A phone stays registered after a sign-out**: a `start()` that is waiting for Firebase when the user
  signs out goes on, gets a new token after `disable()` deleted the old one, and registers it while the
  sign-out is still to reach the server; or the application was started cold and `disable()` deletes
  nothing, as Firebase is not initialised yet. `push_notification_coordinator.dart:75` says that deleting
  the token prevents the installation from receiving (why `SignOutSilences` excepts `exposed`).
* **A signed-in actor is not registered**: `disable()` may end after the next actor is shown: it
  deletes the token just registered, or `start()` has returned because `_started` was not yet reset.
  Or `invalidate()`, which works by id, switches off the row whose token the gateway refused although the
  phone has registered a new one since; or a rotation between `getToken()` and the listener is not heard;
  or a registration is lost. And after a refusal of the permission, or a `getToken()` without a token,
  `start()` returns with `_started` set (lines 45 and 48): a permission granted later is not acted on
  until a sign-out or a restart. `apps/mobile/README.md:47` promises a registration after authentication.
  `ShownIsReached` excepts all of these (`excused`), each only until the next `start()` begins with nothing
  else under way: whatever went before, that one leaves the actor registered, and its listener keeps it so
  through every rotation, unless one of them happens anew.

## 7. Not modelled

* The generated Prisma client (more than two thirds of the implementation's lines), which is a
  typed interface to the tables of `schema.prisma`; the state it gives access to is in the modules.
* Controllers, DTOs, contracts, exception filter, guards, configuration, maps, gateways, hashing and
  encryption: pure mapping or calls of outside services. What the guard reads and what a gateway
  answers are inputs of the models.
* The realtime gateway: snapshots are hints, every client reads again.
* Screens, forms and navigation; edits of profiles and places; prices; lists and searches; the
  catalogue of notifications apart from their delivery.
