-------------------------- MODULE JourneyTracking --------------------------
(***************************************************************************)
(* Location sharing of a provider's journey: the coordinator of the mobile *)
(* application (apps/mobile/lib/features/workflows/application/            *)
(* journey_tracking_coordinator.dart), the calls that start, restore and   *)
(* clear it (tracking_screen.dart, app.dart), and submitPositions() of the *)
(* server (apps/api/src/workflows/workflow.service.ts).                    *)
(*                                                                         *)
(* Dart runs one thing at a time.  A flow is one call of _send(), start(), *)
(* clear() or restore(); an action is what it does between two awaits.  A  *)
(* storage call takes effect when it is made, and the flow goes on at any  *)
(* later time.  Positions are numbered as the device takes them.  The loss *)
(* of queued positions by age (24 hours) is left out: runs are shorter.    *)
(***************************************************************************)
EXTENDS Naturals, Sequences, FiniteSets, SequencesExt, FiniteSetsExt

CONSTANTS
  Journey,     \* journeys (a request and a phase), which the provider makes in turn
  Flow,        \* concurrent flows of one process
  None,        \* no journey
  QueueLimit,  \* positions the queue keeps
  MaxPoints,   \* bound: positions the device takes
  MaxFaults    \* bound: timeouts and kills

ASSUME JourneyAssumption ==
  /\ None \notin Journey
  /\ QueueLimit \in Nat \ {0}
  /\ MaxPoints \in Nat /\ MaxFaults \in Nat

VARIABLES
  status,     \* journeys.status
  positions,  \* journey_positions
  stored,     \* tracking.active.v1
  queue,      \* tracking.queue.v1
  active,     \* _requestId and _phase
  listening,  \* _movement is not null
  sampling,   \* positions may arrive: a subscription or a timer's call is alive
  sending,    \* _sending
  flow,       \* the calls under way
  strays,     \* submissions nobody awaits, which may still reach the server and change it
  taken,      \* positions taken so far
  faults      \* timeouts and kills so far

serverVars == <<status, positions>>
storage    == <<stored, queue>>
memory     == <<active, listening, sampling, sending>>
bounds     == <<taken, faults>>
vars       == <<serverVars, storage, memory, flow, strays, bounds>>

Point      == 1..MaxPoints
Queues     == UNION {[1..n -> Point] : n \in 0..QueueLimit}
Submission == [journey : Journey, point : Point]

Idle == [kind |-> "none", pc |-> "idle", point |-> 0, copy |-> <<>>, target |-> None, reply |-> "none"]

FlowState ==
  [kind : {"none", "send", "enqueue", "start", "clear", "restore"},
   pc : {"idle", "begin", "cancelling", "stopping", "deleting", "stopped", "storing",
         "reading", "flushing", "wrote", "submitting", "enqueueing", "enqueued", "asking"},
   point : 0..MaxPoints, copy : Queues, target : Journey \cup {None},
   reply : {"none", "ACTIVE", "ended", "refused", "failed"}]

TypeOK ==
  /\ status \in [Journey -> {"READY", "ACTIVE", "ARRIVED", "COMPLETED"}]
  /\ positions \in [Journey -> SUBSET Point]
  /\ stored \in Journey \cup {None} /\ queue \in Queues
  /\ active \in Journey \cup {None}
  /\ listening \in BOOLEAN /\ sampling \in BOOLEAN /\ sending \in BOOLEAN
  /\ flow \in [Flow -> FlowState]
  /\ strays \subseteq Submission
  /\ taken \in 0..MaxPoints /\ faults \in 0..MaxFaults

Init ==
  /\ status = [j \in Journey |-> "READY"] /\ positions = [j \in Journey |-> {}]
  /\ stored = None /\ queue = <<>>
  /\ active = None /\ listening = FALSE /\ sampling = FALSE /\ sending = FALSE
  /\ flow = [f \in Flow |-> Idle]
  /\ strays = {}
  /\ taken = 0 /\ faults = 0

-----------------------------------------------------------------------------
(* Flows. *)

FreeFlow     == CHOOSE f \in Flow : flow[f].kind = "none"
SomeFlowFree == \E f \in Flow : flow[f].kind = "none"
Become(f, r) == flow' = [flow EXCEPT ![f] = r]
At(f, pc)    == flow[f].pc = pc
Waiting(f)   == flow[f].pc \in {"flushing", "submitting", "asking"} /\ flow[f].reply = "none"
Answered(f)  == flow[f].reply # "none"

\* Broken: the slot is released only after an answer.
EndAnswered(f) ==
  /\ Become(f, Idle)
  /\ sending' = IF flow[f].kind = "send" /\ flow[f].reply # "none" THEN FALSE ELSE sending

\* The flow is over; _send() releases the slot in its finally block.
End(f) ==
  /\ Become(f, Idle)
  /\ sending' = IF flow[f].kind = "send" THEN FALSE ELSE sending

\* _enqueue() up to its first await: the queue is read.
BeginEnqueue(f, r) == Become(f, [r EXCEPT !.pc = "enqueueing", !.copy = queue, !.target = None, !.reply = "none"])

\* Broken: _send() queues the position that failed, which may be one of the queue.
ThrowHead(f) ==
  IF flow[f].kind = "send"
  THEN /\ BeginEnqueue(f, [flow[f] EXCEPT !.point = IF flow[f].copy = <<>> THEN @ ELSE Head(flow[f].copy)])
       /\ UNCHANGED sending
  ELSE Become(f, Idle) /\ UNCHANGED sending

\* An exception: _send() queues its position, the others give up.
Throw(f) ==
  IF flow[f].kind = "send" THEN BeginEnqueue(f, flow[f]) /\ UNCHANGED sending ELSE End(f)

\* A position is submitted under the journey that is active now; _requestId!
\* throws if there is none.
Submit(f, r, pc) ==
  IF active = None THEN Throw(f)
  ELSE Become(f, [r EXCEPT !.pc = pc, !.target = active, !.reply = "none"]) /\ UNCHANGED sending

Submitted(f) ==
  [journey |-> flow[f].target,
   point   |-> IF At(f, "flushing") THEN Head(flow[f].copy) ELSE flow[f].point]

\* Broken: the queue is trimmed before the position is added.
NewestBefore(q) == SubSeq(q, Max({1, Len(q) - QueueLimit}), Len(q))

\* The rest of a queue that keeps its newest positions.
Newest(q) == SubSeq(q, Max({1, Len(q) - QueueLimit + 1}), Len(q))

-----------------------------------------------------------------------------
(* The server and the network. *)

\* startJourney(); one journey at a time.
StartJourney(j) ==
  /\ status[j] = "READY"
  /\ \A k \in Journey : status[k] \in {"READY", "COMPLETED"}
  /\ status' = [status EXCEPT ![j] = "ACTIVE"]
  /\ UNCHANGED <<positions, storage, memory, flow, strays, bounds>>

\* reportCollection() asks for no arrival.
CompleteJourney(j) ==
  /\ status[j] \in {"ACTIVE", "ARRIVED"}
  /\ status' = [status EXCEPT ![j] = "COMPLETED"]
  /\ UNCHANGED <<positions, storage, memory, flow, strays, bounds>>

Open(m)   == status[m.journey] \in {"ACTIVE", "ARRIVED"}
Latest(j) == Max(positions[j] \cup {0})
Fresh(m)  == m.point > Latest(m.journey)

\* submitPositions() for one position.  With the one before it, a new position
\* may be the evidence of arrival.
Accept(m) ==
  LET j == m.journey IN
  IF Open(m) /\ Fresh(m)
  THEN /\ positions' = [positions EXCEPT ![j] = @ \cup {m.point}]
       /\ \/ UNCHANGED status
          \/ /\ status[j] = "ACTIVE" /\ positions[j] # {}
             /\ status' = [status EXCEPT ![j] = "ARRIVED"]
  ELSE UNCHANGED serverVars

Known(m) == Open(m) /\ m.point \in positions[m.journey]

\* Refused: the journey is not open, or the position is older than the latest.
AnswerSubmission(f) ==
  LET m == Submitted(f) IN
  /\ Waiting(f) /\ ~At(f, "asking")
  /\ Accept(m)
  /\ Become(f, [flow[f] EXCEPT !.reply =
       IF Open(m) /\ (Fresh(m) \/ Known(m))
       THEN IF status'[m.journey] = "ACTIVE" THEN "ACTIVE" ELSE "ended"
       ELSE "refused"])
  /\ UNCHANGED <<storage, memory, strays, bounds>>

\* GET /v1/journeys/:id.
AnswerTracking(f) ==
  /\ Waiting(f) /\ At(f, "asking")
  /\ Become(f, [flow[f] EXCEPT !.reply = IF status[flow[f].target] = "ACTIVE" THEN "ACTIVE" ELSE "ended"])
  /\ UNCHANGED <<serverVars, storage, memory, strays, bounds>>

\* The requests of F end on this side; the server may get a submission late.
GiveUp(F) ==
  LET given == {Submitted(f) : f \in {g \in F : Waiting(g) /\ ~At(g, "asking")}}
  IN  strays' = {m \in strays \cup given : Open(m) /\ Fresh(m)}

\* No answer in ten seconds.
TimeOut(f) ==
  /\ Waiting(f) /\ faults < MaxFaults
  /\ Become(f, [flow[f] EXCEPT !.reply = "failed"])
  /\ GiveUp({f})
  /\ faults' = faults + 1
  /\ UNCHANGED <<serverVars, storage, memory, taken>>

ServeStray(m) ==
  /\ Open(m) /\ Fresh(m)
  /\ Accept(m)
  /\ strays' = strays \ {m}
  /\ UNCHANGED <<storage, memory, flow, bounds>>

-----------------------------------------------------------------------------
(* _send(), _enqueue() and _flush(). *)

\* The movement stream or the timer brings a position.  (A call of the timer may
\* end after stop(), and a subscription that a second start() replaced is never
\* cancelled.)  Without a journey _send() drops it.
Sample ==
  LET f == FreeFlow
      p == taken + 1 IN
  /\ sampling /\ active # None
  /\ SomeFlowFree /\ taken < MaxPoints
  /\ taken' = p
  /\ IF sending
     THEN BeginEnqueue(f, [Idle EXCEPT !.kind = "enqueue", !.point = p]) /\ UNCHANGED sending
     ELSE /\ Become(f, [Idle EXCEPT !.kind = "send", !.point = p, !.pc = "reading", !.copy = queue])
          /\ sending' = TRUE
  /\ UNCHANGED <<serverVars, storage, active, listening, sampling, strays, faults>>

\* _flush() has read the queue or written it back: the next position of its copy
\* is submitted, and after the last one _send() submits its own.
Flush(f) ==
  /\ At(f, "reading") \/ At(f, "wrote")
  /\ IF flow[f].copy # <<>> THEN Submit(f, flow[f], "flushing")
     ELSE IF flow[f].kind = "send" THEN Submit(f, flow[f], "submitting")
     ELSE End(f)
  /\ UNCHANGED <<serverVars, storage, active, listening, sampling, strays, bounds>>

\* The answer to a queued position.
Flushed(f) ==
  /\ At(f, "flushing") /\ Answered(f)
  /\ IF flow[f].reply \in {"ACTIVE", "ended"}
     THEN /\ queue' = Tail(flow[f].copy)
          /\ Become(f, [flow[f] EXCEPT !.pc = "wrote", !.copy = Tail(@), !.target = None, !.reply = "none"])
          /\ UNCHANGED sending
     ELSE Throw(f) /\ UNCHANGED queue
  /\ UNCHANGED <<serverVars, stored, active, listening, sampling, strays, bounds>>

\* stop() up to its first await; only start() goes on with its journey.
BeginStop(f) ==
  LET r == [Idle EXCEPT !.kind = flow[f].kind,
                        !.target = IF flow[f].kind = "start" THEN flow[f].target ELSE None] IN
  IF listening \/ active # None
  THEN Become(f, [r EXCEPT !.pc = "cancelling"]) /\ UNCHANGED stored
  ELSE IF r.kind = "start" THEN Become(f, [r EXCEPT !.pc = "stopped"]) /\ UNCHANGED stored
  ELSE Become(f, [r EXCEPT !.pc = "deleting"]) /\ stored' = None

\* The answer to the position _send() was called with.
Sent(f) ==
  /\ At(f, "submitting") /\ Answered(f)
  /\ \/ flow[f].reply = "ACTIVE" /\ End(f) /\ UNCHANGED stored
     \/ flow[f].reply = "ended" /\ BeginStop(f) /\ UNCHANGED sending
     \/ flow[f].reply \in {"refused", "failed"} /\ Throw(f) /\ UNCHANGED stored
  /\ UNCHANGED <<serverVars, queue, active, listening, sampling, strays, bounds>>

\* The queue was read: the position is added and the queue written back.
Enqueue(f) ==
  /\ At(f, "enqueueing")
  /\ queue' = Newest(Append(flow[f].copy, flow[f].point))
  /\ Become(f, [Idle EXCEPT !.kind = flow[f].kind, !.pc = "enqueued"])
  /\ UNCHANGED <<serverVars, stored, memory, strays, bounds>>

Enqueued(f) ==
  /\ At(f, "enqueued")
  /\ End(f)
  /\ UNCHANGED <<serverVars, storage, active, listening, sampling, strays, bounds>>

-----------------------------------------------------------------------------
(* start(), stop(), clear() and restore(). *)

\* The provider opens the tracking screen of an active journey.
OpenScreen(j) ==
  /\ SomeFlowFree /\ status[j] = "ACTIVE"
  /\ Become(FreeFlow, [Idle EXCEPT !.kind = "start", !.pc = "begin", !.target = j])
  /\ UNCHANGED <<serverVars, storage, memory, strays, bounds>>

Begin(f) ==
  /\ At(f, "begin")
  /\ IF active = flow[f].target /\ listening THEN End(f) /\ UNCHANGED stored
     ELSE BeginStop(f) /\ UNCHANGED sending
  /\ UNCHANGED <<serverVars, queue, active, listening, sampling, strays, bounds>>

\* The session is gone (app.dart:38-41, LaunchController.signOut()).
Clear ==
  LET f == FreeFlow IN
  /\ SomeFlowFree
  /\ IF listening \/ active # None
     THEN Become(f, [Idle EXCEPT !.kind = "clear", !.pc = "cancelling"]) /\ UNCHANGED stored
     ELSE Become(f, [Idle EXCEPT !.kind = "clear", !.pc = "deleting"]) /\ stored' = None
  /\ UNCHANGED <<serverVars, queue, memory, strays, bounds>>

\* The subscription is cancelled.
Cancelled(f) ==
  /\ At(f, "cancelling")
  /\ listening' = FALSE /\ active' = None
  /\ Become(f, [flow[f] EXCEPT !.pc = "stopping"])
  /\ UNCHANGED <<serverVars, storage, sampling, sending, strays, bounds>>

\* The foreground service is stopped.
ServiceStopped(f) ==
  /\ At(f, "stopping")
  /\ IF flow[f].kind = "start"
     THEN Become(f, [flow[f] EXCEPT !.pc = "stopped"]) /\ UNCHANGED stored
     ELSE Become(f, [flow[f] EXCEPT !.pc = "deleting"]) /\ stored' = None
  /\ UNCHANGED <<serverVars, queue, memory, strays, bounds>>

QueueDeleted(f) ==
  /\ At(f, "deleting")
  /\ queue' = <<>>
  /\ Become(f, [flow[f] EXCEPT !.pc = "stopped"])
  /\ UNCHANGED <<serverVars, stored, memory, strays, bounds>>

\* stop() is over; start() goes on.
Stopped(f) ==
  /\ At(f, "stopped")
  /\ IF flow[f].kind = "start"
     THEN /\ active' = flow[f].target
          /\ stored' = flow[f].target
          /\ Become(f, [flow[f] EXCEPT !.pc = "storing", !.target = None])
          /\ UNCHANGED sending
     ELSE End(f) /\ UNCHANGED <<active, stored>>
  /\ UNCHANGED <<serverVars, queue, listening, sampling, strays, bounds>>

\* The service runs: start() subscribes and flushes.
Listen(f) ==
  /\ At(f, "storing")
  /\ listening' = TRUE /\ sampling' = TRUE
  /\ IF active = None THEN Become(f, Idle)
     ELSE Become(f, [flow[f] EXCEPT !.pc = "reading", !.copy = queue])
  /\ UNCHANGED <<serverVars, storage, active, sending, strays, bounds>>

\* restore(): at every authenticated state (app.dart:31-37).
Restore ==
  /\ SomeFlowFree
  /\ stored # None /\ ~listening
  /\ Become(FreeFlow, [Idle EXCEPT !.kind = "restore", !.pc = "asking", !.target = stored])
  /\ UNCHANGED <<serverVars, storage, memory, strays, bounds>>

Restored(f) ==
  /\ At(f, "asking") /\ Answered(f)
  /\ \/ /\ flow[f].reply = "ACTIVE"
        /\ Become(f, [Idle EXCEPT !.kind = "start", !.pc = "begin", !.target = flow[f].target])
        /\ UNCHANGED <<stored, sending>>
     \/ flow[f].reply = "ended" /\ BeginStop(f) /\ UNCHANGED sending
     \/ flow[f].reply = "failed" /\ End(f) /\ UNCHANGED stored
  /\ UNCHANGED <<serverVars, queue, active, listening, sampling, strays, bounds>>

Kill ==
  /\ faults < MaxFaults
  /\ GiveUp(Flow)
  /\ flow' = [f \in Flow |-> Idle]
  /\ active' = None /\ listening' = FALSE /\ sampling' = FALSE /\ sending' = FALSE
  /\ faults' = faults + 1
  /\ UNCHANGED <<serverVars, storage, taken>>

-----------------------------------------------------------------------------

Answer(f)   == AnswerSubmission(f) \/ AnswerTracking(f) \/ TimeOut(f)
Continue(f) ==
  \/ Flush(f) \/ Flushed(f) \/ Sent(f) \/ Enqueue(f) \/ Enqueued(f)
  \/ Begin(f) \/ Cancelled(f) \/ ServiceStopped(f) \/ QueueDeleted(f) \/ Stopped(f)
  \/ Listen(f) \/ Restored(f)
Advance(f)  == IF Waiting(f) THEN Answer(f) ELSE flow[f].pc # "idle" /\ Continue(f)

Next ==
  \/ \E j \in Journey : StartJourney(j) \/ CompleteJourney(j) \/ OpenScreen(j)
  \/ \E m \in strays : ServeStray(m)
  \/ Sample \/ Clear \/ Restore \/ Kill
  \/ \E f \in Flow : Advance(f)

Spec == Init /\ [][Next]_vars

\* Requests end (in ten seconds at the latest) and Dart runs what is ready.
Fairness == \A f \in Flow : WF_vars(Advance(f))

FairSpec == Spec /\ Fairness

-----------------------------------------------------------------------------

\* No position is queued twice, nor while the call that took it has still to send or
\* to queue it, although calls read the queue, wait, and write back what they have
\* read, and a start() flushes beside a _send() (102, 105-164).
QueuedOnce ==
  /\ IsInjective(queue)
  /\ \A f \in Flow : flow[f].point \notin ToSet(queue)

\* The slot of _send() is freed, whatever the server, the network or a stop() in
\* between do: otherwise every later position would only be queued.
SlotFreed == sending ~> ~sending

\* "uploads chronologically with stable sample IDs" (apps/mobile/README.md:46).
UploadsInOrder ==
  \A i, k \in DOMAIN queue : i < k => queue[i] < queue[k]
=============================================================================
