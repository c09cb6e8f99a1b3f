----------------------- MODULE JourneyTracking_proofs -----------------------
(***************************************************************************)
(* Proofs about JourneyTracking, for any journeys, flows and bounds.       *)
(***************************************************************************)
EXTENDS JourneyTracking, SequenceTheorems, TLAPS

-----------------------------------------------------------------------------
(* The queue. *)

LEMMA QueueSeq ==
  ASSUME NEW q
  PROVE  q \in Queues <=> q \in Seq(Point) /\ Len(q) \in 0..QueueLimit
<1> USE JourneyAssumption
<1>1. ASSUME q \in Queues PROVE q \in Seq(Point) /\ Len(q) \in 0..QueueLimit
  <2>1. PICK n \in 0..QueueLimit : q \in [1..n -> Point]
    BY <1>1 DEF Queues
  <2>2. n \in Nat
    OBVIOUS
  <2>3. q \in Seq(Point)
    BY <2>1, <2>2 DEF Seq
  <2>4. Len(q) = n
    BY <2>1, <2>2, <2>3, LenProperties
  <2> QED
    BY <2>3, <2>4
<1>2. ASSUME q \in Seq(Point), Len(q) \in 0..QueueLimit PROVE q \in Queues
  <2>1. q \in [1..Len(q) -> Point]
    BY <1>2, LenProperties
  <2> QED
    BY <1>2, <2>1 DEF Queues
<1> QED
  BY <1>1, <1>2

LEMMA EmptyQueue == <<>> \in Queues
<1> DEFINE e == <<>>
<1>1. e \in Seq(Point) /\ Len(e) = 0
  BY EmptySeq
<1>2. 0 \in 0..QueueLimit
  BY JourneyAssumption
<1> HIDE DEF e
<1>3. e \in Queues
  BY <1>1, <1>2, QueueSeq
<1> QED
  BY <1>3 DEF e

LEMMA TailQueue ==
  ASSUME NEW q \in Queues, q # <<>>
  PROVE  Head(q) \in Point /\ Tail(q) \in Queues
<1>1. q \in Seq(Point) /\ Len(q) \in 0..QueueLimit
  BY QueueSeq
<1>2. Head(q) \in Point /\ Tail(q) \in Seq(Point) /\ Len(Tail(q)) = Len(q) - 1 /\ Len(q) # 0
  BY <1>1, HeadTailProperties, EmptySeq
<1>3. Len(Tail(q)) \in 0..QueueLimit
  BY <1>1, <1>2, JourneyAssumption
<1> QED
  BY <1>2, <1>3, QueueSeq

\* A position more leaves the queue within its limit.
LEMMA NewestQueue ==
  ASSUME NEW q \in Queues, NEW p \in Point
  PROVE  Newest(Append(q, p)) \in Queues
<1> USE JourneyAssumption
<1> DEFINE a == Append(q, p)
           m == Max({1, Len(a) - QueueLimit + 1})
<1>1. q \in Seq(Point) /\ Len(q) \in 0..QueueLimit
  BY QueueSeq
<1>2. a \in Seq(Point) /\ Len(a) = Len(q) + 1
  BY <1>1, AppendProperties
<1>3. Len(a) \in 1..(QueueLimit + 1)
  BY <1>1, <1>2
<1>4. m \in {1, 2} /\ Len(a) - m + 1 \in 0..QueueLimit
  <2>1. CASE Len(a) = QueueLimit + 1
    <3>1. m = 2
      BY <2>1 DEF Max
    <3> QED
      BY <3>1, <2>1
  <2>2. CASE Len(a) <= QueueLimit
    <3>1. m = 1
      BY <1>3, <2>2 DEF Max
    <3> QED
      BY <3>1, <2>2, <1>3
  <2> QED
    BY <1>3, <2>1, <2>2
<1> HIDE DEF a, m
<1>5. /\ SubSeq(a, m, Len(a)) \in Seq(Point)
      /\ Len(SubSeq(a, m, Len(a))) = IF m <= Len(a) THEN Len(a) - m + 1 ELSE 0
  BY <1>2, <1>3, <1>4, SubSeqProperties
<1>6. Len(SubSeq(a, m, Len(a))) \in 0..QueueLimit
  BY <1>3, <1>4, <1>5
<1>7. SubSeq(a, m, Len(a)) \in Queues
  BY <1>5, <1>6, QueueSeq
<1> QED
  BY <1>7 DEF Newest, a, m

-----------------------------------------------------------------------------
(* What the flows carry. *)

\* A flow that submits has a journey and a position to submit, and a start() the
\* journey it was called with.
FlowOK(r) ==
  /\ r.pc \in {"flushing", "submitting", "asking"} => r.target \in Journey
  /\ r.pc = "flushing" => r.copy # <<>>
  /\ r.pc = "submitting" => r.kind = "send"
  /\ r.pc = "deleting" => r.kind # "start"
  /\ r.pc = "storing" => r.kind = "start"
  /\ r.pc = "asking" => r.kind = "restore"
  /\ r.pc = "enqueueing" => r.point \in Point
  /\ r.kind = "send" /\ r.pc \in {"reading", "flushing", "wrote", "submitting"} => r.point \in Point
  /\ r.kind = "start" /\ r.pc \in {"begin", "cancelling", "stopping", "stopped"} => r.target \in Journey

FlowInv == \A f \in Flow : FlowOK(flow[f])

\* A queue, or a copy of it: no position twice, none after the nth the device took,
\* none a call still has in its hand.
Sound(q, calls, n) ==
  /\ IsInjective(q)
  /\ ToSet(q) \subseteq 1..n
  /\ \A f \in Flow : calls[f].point \notin ToSet(q)

\* No two calls have the same position in their hands.
HandsInv ==
  \A f \in Flow :
    /\ flow[f].point <= taken
    /\ \A g \in Flow : flow[f].point = flow[g].point => f = g \/ flow[f].point = 0

\* A copy may be written back at any later time: it has to be as sound as the queue.
QueueInv ==
  /\ Sound(queue, flow, taken)
  /\ \A f \in Flow : Sound(flow[f].copy, flow, taken)
  /\ HandsInv

IInv == TypeOK /\ FlowInv /\ QueueInv

\* What a call has in its hand after a step that takes no position: the position it
\* had or none, and its copy, the rest of it, the queue or nothing.
Carried(f, r) ==
  /\ r.point \in {0, flow[f].point}
  /\ \/ r.copy = Idle.copy \/ r.copy = queue \/ r.copy = flow[f].copy
     \/ flow[f].copy # <<>> /\ r.copy = Tail(flow[f].copy)

\* The step gives one flow another state, in which it carries nothing new.
Moves(f) ==
  \E r \in FlowState :
    /\ FlowOK(r) /\ Carried(f, r)
    /\ flow' = [flow EXCEPT ![f] = r]
    /\ sending' \in BOOLEAN

LEMMA StateKeeps ==
  ASSUME IInv, NEW f \in Flow, NEW r \in FlowState, FlowOK(r), flow' = [flow EXCEPT ![f] = r]
  PROVE  /\ flow' \in [Flow -> FlowState] /\ FlowInv'
         /\ \A g \in Flow : flow'[g] = IF g = f THEN r ELSE flow[g]
<1>1. flow \in [Flow -> FlowState]
  BY DEF IInv, TypeOK
<1>2. flow' \in [Flow -> FlowState] /\ \A g \in Flow : flow'[g] = IF g = f THEN r ELSE flow[g]
  BY <1>1
<1>3. ASSUME NEW g \in Flow PROVE FlowOK(flow'[g])
  BY <1>2 DEF IInv, FlowInv
<1> QED
  BY <1>2, <1>3 DEF FlowInv, FlowOK

LEMMA FreeIsFree ==
  ASSUME SomeFlowFree
  PROVE  FreeFlow \in Flow /\ flow[FreeFlow].kind = "none"
BY DEF SomeFlowFree, FreeFlow

LEMMA IdleOK == Idle \in FlowState /\ FlowOK(Idle)
<1> DEFINE e == <<>>
           r == [kind |-> "none", pc |-> "idle", point |-> 0, copy |-> e, target |-> None, reply |-> "none"]
<1>1. e \in Queues
  BY EmptyQueue
<1>2. 0 \in 0..MaxPoints
  BY JourneyAssumption
<1> HIDE DEF e
<1>3. r \in FlowState
  BY <1>1, <1>2 DEF FlowState
<1>4. FlowOK(r)
  BY DEF FlowOK
<1> QED
  BY <1>3, <1>4 DEF Idle, e

LEMMA IdleParts == Idle.point = 0 /\ Idle.copy = <<>> /\ Idle.kind = "none"
BY DEF Idle

LEMMA BecomeMoves ==
  ASSUME IInv, NEW f \in Flow, NEW r \in FlowState, FlowOK(r), Carried(f, r), Become(f, r),
         UNCHANGED sending
  PROVE  Moves(f)
BY DEF Become, Moves, IInv, TypeOK

LEMMA EndMoves ==
  ASSUME IInv, NEW f \in Flow, End(f)
  PROVE  Moves(f)
<1>1. Carried(f, Idle)
  BY IdleParts DEF Carried
<1>2. sending' \in BOOLEAN /\ flow' = [flow EXCEPT ![f] = Idle]
  BY DEF End, Become, IInv, TypeOK
<1> QED
  BY <1>1, <1>2, IdleOK DEF Moves

LEMMA FlowFacts ==
  ASSUME IInv, NEW f \in Flow
  PROVE  flow[f] \in FlowState /\ FlowOK(flow[f]) /\ queue \in Queues
BY DEF IInv, TypeOK, FlowInv

LEMMA ThrowMoves ==
  ASSUME IInv, NEW f \in Flow, Throw(f),
         flow[f].pc \in {"reading", "flushing", "wrote", "submitting"}
  PROVE  Moves(f)
<1> USE FlowFacts
<1>1. CASE flow[f].kind = "send"
  <2> DEFINE r == [flow[f] EXCEPT !.pc = "enqueueing", !.copy = queue, !.target = None, !.reply = "none"]
  <2>1. /\ r \in FlowState /\ r.kind = "send" /\ r.pc = "enqueueing" /\ r.point = flow[f].point
        /\ r.copy = queue
    BY <1>1 DEF FlowState
  <2>2. r.point \in Point
    BY <1>1, <2>1 DEF FlowOK
  <2>3. Become(f, r) /\ UNCHANGED sending
    BY <1>1 DEF Throw, BeginEnqueue
  <2> HIDE DEF r
  <2>4. FlowOK(r) /\ Carried(f, r)
    BY <2>1, <2>2 DEF FlowOK, Carried
  <2> QED
    BY <2>1, <2>3, <2>4, BecomeMoves
<1>2. CASE flow[f].kind # "send"
  BY <1>2, EndMoves DEF Throw
<1> QED
  BY <1>1, <1>2

LEMMA SubmitMoves ==
  ASSUME IInv, NEW f \in Flow, NEW pc \in {"flushing", "submitting"}, Submit(f, flow[f], pc),
         flow[f].pc \in {"reading", "wrote"},
         pc = "flushing" => flow[f].copy # <<>>,
         pc = "submitting" => flow[f].kind = "send"
  PROVE  Moves(f)
<1> USE FlowFacts
<1>1. CASE active = None
  BY <1>1, ThrowMoves DEF Submit
<1>2. CASE active # None
  <2> DEFINE r == [flow[f] EXCEPT !.pc = pc, !.target = active, !.reply = "none"]
  <2>1. active \in Journey
    BY <1>2 DEF IInv, TypeOK
  <2>2. /\ r \in FlowState /\ r.kind = flow[f].kind /\ r.pc = pc /\ r.target = active
        /\ r.copy = flow[f].copy /\ r.point = flow[f].point
    BY <2>1 DEF FlowState
  <2>3. Become(f, r) /\ UNCHANGED sending
    BY <1>2 DEF Submit
  <2> HIDE DEF r
  <2>4. FlowOK(r) /\ Carried(f, r)
    BY <2>1, <2>2 DEF FlowOK, Carried
  <2> QED
    BY <2>2, <2>3, <2>4, BecomeMoves
<1> QED
  BY <1>1, <1>2

\* An answer changes the reply only.
LEMMA ReplyMoves ==
  ASSUME IInv, NEW f \in Flow, NEW a \in {"ACTIVE", "ended", "refused", "failed"},
         Become(f, [flow[f] EXCEPT !.reply = a]), UNCHANGED sending
  PROVE  Moves(f)
<1> USE FlowFacts
<1> DEFINE r == [flow[f] EXCEPT !.reply = a]
<1>1. /\ r \in FlowState /\ r.kind = flow[f].kind /\ r.pc = flow[f].pc
      /\ r.target = flow[f].target /\ r.copy = flow[f].copy /\ r.point = flow[f].point
  BY DEF FlowState
<1> HIDE DEF r
<1>2. FlowOK(r) /\ Carried(f, r)
  BY <1>1 DEF FlowOK, Carried
<1> QED
  BY <1>1, <1>2, BecomeMoves DEF r

LEMMA AnswerMoves ==
  ASSUME IInv, NEW f \in Flow, Answer(f)
  PROVE  Moves(f)
<1>1. CASE AnswerSubmission(f)
  <2> DEFINE m == Submitted(f)
             a == IF Open(m) /\ (Fresh(m) \/ Known(m))
                  THEN IF status'[m.journey] = "ACTIVE" THEN "ACTIVE" ELSE "ended"
                  ELSE "refused"
  <2>1. a \in {"ACTIVE", "ended", "refused", "failed"}
    OBVIOUS
  <2>2. Become(f, [flow[f] EXCEPT !.reply = a]) /\ UNCHANGED sending
    BY <1>1 DEF AnswerSubmission, memory
  <2> HIDE DEF a
  <2> QED
    BY <2>1, <2>2, ReplyMoves
<1>2. CASE AnswerTracking(f)
  <2> DEFINE a == IF status[flow[f].target] = "ACTIVE" THEN "ACTIVE" ELSE "ended"
  <2>1. a \in {"ACTIVE", "ended", "refused", "failed"}
    OBVIOUS
  <2>2. Become(f, [flow[f] EXCEPT !.reply = a]) /\ UNCHANGED sending
    BY <1>2 DEF AnswerTracking, memory
  <2> HIDE DEF a
  <2> QED
    BY <2>1, <2>2, ReplyMoves
<1>3. CASE TimeOut(f)
  <2>1. Become(f, [flow[f] EXCEPT !.reply = "failed"]) /\ UNCHANGED sending
    BY <1>3 DEF TimeOut, memory
  <2> QED
    BY <2>1, ReplyMoves
<1> QED
  BY <1>1, <1>2, <1>3 DEF Answer

LEMMA FlushMoves ==
  ASSUME IInv, NEW f \in Flow, Flush(f)
  PROVE  Moves(f)
<1>1. flow[f].pc \in {"reading", "wrote"}
  BY DEF Flush, At
<1>2. CASE flow[f].copy # <<>>
  BY <1>1, <1>2, SubmitMoves DEF Flush
<1>3. CASE flow[f].copy = <<>> /\ flow[f].kind = "send"
  BY <1>1, <1>3, SubmitMoves DEF Flush
<1>4. CASE flow[f].copy = <<>> /\ flow[f].kind # "send"
  BY <1>4, EndMoves DEF Flush
<1> QED
  BY <1>2, <1>3, <1>4

LEMMA FlushedMoves ==
  ASSUME IInv, NEW f \in Flow, Flushed(f)
  PROVE  Moves(f)
<1> USE FlowFacts
<1>1. flow[f].pc = "flushing"
  BY DEF Flushed, At
<1>2. CASE flow[f].reply \in {"ACTIVE", "ended"}
  <2> DEFINE r == [flow[f] EXCEPT !.pc = "wrote", !.copy = Tail(@), !.target = None, !.reply = "none"]
  <2>1. flow[f].copy \in Queues /\ flow[f].copy # <<>>
    BY <1>1 DEF FlowState, FlowOK
  <2>2. Tail(flow[f].copy) \in Queues
    BY <2>1, TailQueue
  <2>3. /\ r \in FlowState /\ r.kind = flow[f].kind /\ r.pc = "wrote" /\ r.point = flow[f].point
        /\ r.copy = Tail(flow[f].copy)
    BY <2>2 DEF FlowState
  <2>4. Become(f, r) /\ UNCHANGED sending
    BY <1>2 DEF Flushed
  <2> HIDE DEF r
  <2>5. FlowOK(r) /\ Carried(f, r)
    BY <1>1, <2>1, <2>3 DEF FlowOK, Carried
  <2> QED
    BY <2>3, <2>4, <2>5, BecomeMoves
<1>3. CASE flow[f].reply \notin {"ACTIVE", "ended"}
  BY <1>1, <1>3, ThrowMoves DEF Flushed
<1> QED
  BY <1>2, <1>3

LEMMA BeginStopMoves ==
  ASSUME IInv, NEW f \in Flow, BeginStop(f), UNCHANGED sending,
         flow[f].kind = "start" => flow[f].target \in Journey
  PROVE  Moves(f)
<1> DEFINE t == IF flow[f].kind = "start" THEN flow[f].target ELSE None
           k == flow[f].kind
           r(pc) == [[Idle EXCEPT !.kind = k, !.target = t] EXCEPT !.pc = pc]
<1>1. t \in Journey \cup {None} /\ (k = "start" => t \in Journey)
  OBVIOUS
<1>2. \E pc \in {"cancelling", "stopped", "deleting"} :
        (pc = "deleting" => k # "start") /\ Become(f, r(pc))
  BY DEF BeginStop, Idle
<1>3. k \in {"none", "send", "enqueue", "start", "clear", "restore"}
  BY FlowFacts DEF FlowState
<1> HIDE DEF t, k
<1>4. ASSUME NEW pc \in {"cancelling", "stopped", "deleting"}, pc = "deleting" => k # "start"
      PROVE  r(pc) \in FlowState /\ FlowOK(r(pc)) /\ Carried(f, r(pc))
  <2>1. Idle \in FlowState
    BY IdleOK
  <2>2. /\ r(pc) \in FlowState /\ r(pc).kind = k /\ r(pc).pc = pc /\ r(pc).target = t
        /\ r(pc).point = Idle.point /\ r(pc).copy = Idle.copy
    BY <1>1, <1>3, <2>1 DEF FlowState
  <2> HIDE DEF r
  <2>3. FlowOK(r(pc)) /\ Carried(f, r(pc))
    BY <1>1, <1>4, <2>2, IdleParts DEF FlowOK, Carried
  <2> QED
    BY <2>2, <2>3
<1> HIDE DEF r
<1>5. PICK pc \in {"cancelling", "stopped", "deleting"} :
        (pc = "deleting" => k # "start") /\ Become(f, r(pc))
  BY <1>2
<1>6. r(pc) \in FlowState /\ FlowOK(r(pc)) /\ Carried(f, r(pc))
  BY <1>4, <1>5
<1> QED
  BY <1>5, <1>6, BecomeMoves

LEMMA SentMoves ==
  ASSUME IInv, NEW f \in Flow, Sent(f)
  PROVE  Moves(f)
<1>1. flow[f].pc = "submitting" /\ flow[f].kind = "send"
  BY FlowFacts DEF Sent, At, FlowOK
<1>2. CASE End(f)
  BY <1>2, EndMoves
<1>3. CASE BeginStop(f) /\ UNCHANGED sending
  BY <1>1, <1>3, BeginStopMoves
<1>4. CASE Throw(f)
  BY <1>1, <1>4, ThrowMoves
<1> QED
  BY <1>2, <1>3, <1>4 DEF Sent

LEMMA EnqueueMoves ==
  ASSUME IInv, NEW f \in Flow, Enqueue(f)
  PROVE  Moves(f)
<1> DEFINE r == [Idle EXCEPT !.kind = flow[f].kind, !.pc = "enqueued"]
<1>1. Idle \in FlowState /\ flow[f] \in FlowState
  BY IdleOK, FlowFacts
<1>2. /\ r \in FlowState /\ r.kind = flow[f].kind /\ r.pc = "enqueued"
      /\ r.point = Idle.point /\ r.copy = Idle.copy
  BY <1>1 DEF FlowState
<1>3. Become(f, r) /\ UNCHANGED sending
  BY DEF Enqueue, memory
<1> HIDE DEF r
<1>4. FlowOK(r) /\ Carried(f, r)
  BY <1>2, IdleParts DEF FlowOK, Carried
<1> QED
  BY <1>2, <1>3, <1>4, BecomeMoves

LEMMA BeginMoves ==
  ASSUME IInv, NEW f \in Flow, Begin(f)
  PROVE  Moves(f)
<1>1. CASE End(f)
  BY <1>1, EndMoves
<1>2. CASE BeginStop(f) /\ UNCHANGED sending
  <2>1. flow[f].kind = "start" => flow[f].target \in Journey
    BY FlowFacts DEF Begin, At, FlowOK
  <2> QED
    BY <1>2, <2>1, BeginStopMoves
<1> QED
  BY <1>1, <1>2 DEF Begin

\* The steps of stop() give the flow another place to go on.
LEMMA PlaceMoves ==
  ASSUME IInv, NEW f \in Flow, NEW pc \in {"stopping", "stopped", "deleting"},
         flow[f].pc \in {"cancelling", "stopping", "deleting"},
         pc = "deleting" => flow[f].kind # "start",
         pc = "stopped" => flow[f].pc \in {"stopping", "deleting"},
         Become(f, [flow[f] EXCEPT !.pc = pc]), UNCHANGED sending
  PROVE  Moves(f)
<1> USE FlowFacts
<1> DEFINE r == [flow[f] EXCEPT !.pc = pc]
<1>1. /\ r \in FlowState /\ r.kind = flow[f].kind /\ r.pc = pc /\ r.target = flow[f].target
      /\ r.point = flow[f].point /\ r.copy = flow[f].copy
  BY DEF FlowState
<1> HIDE DEF r
<1>2. FlowOK(r) /\ Carried(f, r)
  BY <1>1 DEF FlowOK, Carried
<1> QED
  BY <1>1, <1>2, BecomeMoves DEF r

LEMMA StopMoves ==
  ASSUME IInv, NEW f \in Flow, Cancelled(f) \/ ServiceStopped(f) \/ QueueDeleted(f)
  PROVE  Moves(f)
<1>1. CASE Cancelled(f)
  BY <1>1, PlaceMoves DEF Cancelled, At
<1>2. CASE ServiceStopped(f)
  BY <1>2, PlaceMoves DEF ServiceStopped, At, memory
<1>3. CASE QueueDeleted(f)
  BY <1>3, PlaceMoves DEF QueueDeleted, At, memory
<1> QED
  BY <1>1, <1>2, <1>3

LEMMA StoppedMoves ==
  ASSUME IInv, NEW f \in Flow, Stopped(f)
  PROVE  Moves(f)
<1> USE FlowFacts
<1>1. CASE flow[f].kind = "start"
  <2> DEFINE r == [flow[f] EXCEPT !.pc = "storing", !.target = None]
  <2>1. /\ r \in FlowState /\ r.kind = flow[f].kind /\ r.pc = "storing"
        /\ r.point = flow[f].point /\ r.copy = flow[f].copy
    BY DEF FlowState
  <2>2. Become(f, r) /\ UNCHANGED sending
    BY <1>1 DEF Stopped
  <2> HIDE DEF r
  <2>3. FlowOK(r) /\ Carried(f, r)
    BY <1>1, <2>1 DEF FlowOK, Carried
  <2> QED
    BY <2>1, <2>2, <2>3, BecomeMoves
<1>2. CASE flow[f].kind # "start"
  BY <1>2, EndMoves DEF Stopped
<1> QED
  BY <1>1, <1>2

LEMMA ListenMoves ==
  ASSUME IInv, NEW f \in Flow, Listen(f)
  PROVE  Moves(f)
<1> USE FlowFacts
<1>0. flow[f].kind = "start"
  BY DEF Listen, At, FlowOK
<1>1. CASE active = None
  <2>1. Become(f, Idle) /\ UNCHANGED sending
    BY <1>1 DEF Listen
  <2>2. Carried(f, Idle)
    BY IdleParts DEF Carried
  <2> QED
    BY <2>1, <2>2, IdleOK, BecomeMoves
<1>2. CASE active # None
  <2> DEFINE r == [flow[f] EXCEPT !.pc = "reading", !.copy = queue]
  <2>1. /\ r \in FlowState /\ r.kind = flow[f].kind /\ r.pc = "reading"
        /\ r.point = flow[f].point /\ r.copy = queue
    BY DEF FlowState
  <2>2. Become(f, r) /\ UNCHANGED sending
    BY <1>2 DEF Listen
  <2> HIDE DEF r
  <2>3. FlowOK(r) /\ Carried(f, r)
    BY <1>0, <2>1 DEF FlowOK, Carried
  <2> QED
    BY <2>1, <2>2, <2>3, BecomeMoves
<1> QED
  BY <1>1, <1>2

\* A call of start(), clear() or restore() begins.
LEMMA CallMoves ==
  ASSUME IInv, NEW f \in Flow, UNCHANGED sending,
         NEW kind \in {"start", "clear", "restore"},
         NEW pc \in {"begin", "cancelling", "deleting", "asking"},
         NEW j \in Journey \cup {None},
         pc = "deleting" => kind # "start",
         pc = "asking" => kind = "restore",
         kind \in {"start", "restore"} => j \in Journey,
         Become(f, [Idle EXCEPT !.kind = kind, !.pc = pc, !.target = j])
  PROVE  Moves(f)
<1> DEFINE r == [Idle EXCEPT !.kind = kind, !.pc = pc, !.target = j]
<1>1. Idle \in FlowState
  BY IdleOK
<1>2. /\ r \in FlowState /\ r.kind = kind /\ r.pc = pc /\ r.target = j
      /\ r.point = Idle.point /\ r.copy = Idle.copy
  BY <1>1 DEF FlowState
<1>3. Become(f, r)
  OBVIOUS
<1> HIDE DEF r
<1>4. FlowOK(r) /\ Carried(f, r)
  BY <1>2, IdleParts DEF FlowOK, Carried
<1> QED
  BY <1>2, <1>3, <1>4, BecomeMoves

LEMMA RestoredMoves ==
  ASSUME IInv, NEW f \in Flow, Restored(f)
  PROVE  Moves(f)
<1> DEFINE s == [Idle EXCEPT !.kind = "start", !.pc = "begin", !.target = flow[f].target]
<1>1. flow[f].kind = "restore" /\ flow[f].target \in Journey
  BY FlowFacts DEF Restored, At, FlowOK
<1>2. CASE Become(f, s) /\ UNCHANGED sending
  BY <1>1, <1>2, CallMoves
<1>3. CASE BeginStop(f) /\ UNCHANGED sending
  BY <1>1, <1>3, BeginStopMoves
<1>4. CASE End(f)
  BY <1>4, EndMoves
<1>5. (Become(f, s) /\ UNCHANGED sending) \/ (BeginStop(f) /\ UNCHANGED sending) \/ End(f)
  BY DEF Restored
<1> QED
  BY <1>2, <1>3, <1>4, <1>5

LEMMA ContinueMoves ==
  ASSUME IInv, NEW f \in Flow, Continue(f)
  PROVE  Moves(f)
BY FlushMoves, FlushedMoves, SentMoves, EnqueueMoves, EndMoves, BeginMoves, StopMoves,
   StoppedMoves, ListenMoves, RestoredMoves DEF Continue, Enqueued

\* The next position comes into the hand of a free call, with a copy of the queue.
Takes ==
  \E f \in Flow : \E r \in FlowState :
    /\ FlowOK(r) /\ r.point = taken + 1 /\ r.copy = queue
    /\ flow' = [flow EXCEPT ![f] = r]
    /\ sending' \in BOOLEAN

LEMMA SampleTakes ==
  ASSUME IInv, Sample
  PROVE  Takes
<1> DEFINE f == FreeFlow
           p == taken + 1
<1>1. f \in Flow /\ p \in Point
  BY FreeIsFree, JourneyAssumption DEF Sample, IInv, TypeOK, Point
<1>2. Idle \in FlowState /\ queue \in Queues /\ sending \in BOOLEAN
  BY IdleOK DEF IInv, TypeOK
<1>3. p \in 0..MaxPoints
  BY <1>1 DEF Point
<1>4. CASE sending
  <2> DEFINE r == [[Idle EXCEPT !.kind = "enqueue", !.point = p]
                     EXCEPT !.pc = "enqueueing", !.copy = queue, !.target = None, !.reply = "none"]
  <2>1. r \in FlowState /\ r.kind = "enqueue" /\ r.pc = "enqueueing" /\ r.point = p /\ r.copy = queue
    BY <1>2, <1>3 DEF FlowState
  <2>2. flow' = [flow EXCEPT ![f] = r] /\ UNCHANGED sending
    BY <1>4 DEF Sample, BeginEnqueue, Become
  <2> HIDE DEF r, f
  <2>3. FlowOK(r)
    BY <1>1, <2>1 DEF FlowOK
  <2> QED
    BY <1>1, <1>2, <2>1, <2>2, <2>3 DEF Takes
<1>5. CASE ~sending
  <2> DEFINE r == [Idle EXCEPT !.kind = "send", !.point = p, !.pc = "reading", !.copy = queue]
  <2>1. r \in FlowState /\ r.kind = "send" /\ r.pc = "reading" /\ r.point = p /\ r.copy = queue
    BY <1>2, <1>3 DEF FlowState
  <2>2. flow' = [flow EXCEPT ![f] = r] /\ sending' = TRUE
    BY <1>5 DEF Sample, Become
  <2> HIDE DEF r, f
  <2>3. FlowOK(r)
    BY <1>1, <2>1 DEF FlowOK
  <2> QED
    BY <1>1, <2>1, <2>2, <2>3 DEF Takes
<1> QED
  BY <1>2, <1>4, <1>5

LEMMA StartMoves ==
  ASSUME IInv, (\E j \in Journey : OpenScreen(j)) \/ Clear \/ Restore
  PROVE  Moves(FreeFlow)
<1> DEFINE f == FreeFlow
<1>1. f \in Flow /\ UNCHANGED sending
  BY FreeIsFree DEF OpenScreen, Clear, Restore, memory
<1>2. ASSUME NEW j \in Journey, OpenScreen(j) PROVE Moves(f)
  BY <1>1, <1>2, CallMoves DEF OpenScreen
<1>3. CASE Clear
  <2> DEFINE r(pc) == [Idle EXCEPT !.kind = "clear", !.pc = pc]
  <2>1. PICK pc \in {"cancelling", "deleting"} : Become(f, r(pc))
    BY <1>3 DEF Clear
  <2>2. /\ r(pc) \in FlowState /\ r(pc).kind = "clear" /\ r(pc).pc = pc
        /\ r(pc).point = Idle.point /\ r(pc).copy = Idle.copy
    BY IdleOK DEF FlowState
  <2> HIDE DEF r, f
  <2>3. FlowOK(r(pc)) /\ Carried(f, r(pc))
    BY <2>2, IdleParts DEF FlowOK, Carried
  <2> QED
    BY <1>1, <2>1, <2>2, <2>3, BecomeMoves DEF f
<1>4. CASE Restore
  <2>1. stored \in Journey
    BY <1>4 DEF Restore, IInv, TypeOK
  <2>2. Become(f, [Idle EXCEPT !.kind = "restore", !.pc = "asking", !.target = stored])
    BY <1>4 DEF Restore
  <2> QED
    BY <1>1, <2>1, <2>2, CallMoves
<1> QED
  BY <1>2, <1>3, <1>4

LEMMA KillKeeps ==
  ASSUME IInv, Kill
  PROVE  flow' \in [Flow -> FlowState] /\ sending' \in BOOLEAN /\ FlowInv'
<1>1. flow' = [f \in Flow |-> Idle] /\ sending' = FALSE
  BY DEF Kill
<1> HIDE DEF Idle
<1>2. flow' \in [Flow -> FlowState] /\ sending' \in BOOLEAN
  BY <1>1, IdleOK
<1>3. \A f \in Flow : flow'[f] = Idle
  BY <1>1
<1> QED
  BY <1>2, <1>3, IdleOK DEF FlowInv, FlowOK

\* Every step of a call carries nothing new, every other leaves the calls alone, is
\* the device's next position, or the end of the process.
LEMMA StepMoves ==
  ASSUME IInv, [Next]_vars
  PROVE  (\E f \in Flow : Moves(f)) \/ Sample \/ Kill \/ UNCHANGED <<flow, sending>>
<1>1. ASSUME NEW f \in Flow, Advance(f) PROVE Moves(f)
  BY <1>1, AnswerMoves, ContinueMoves DEF Advance
<1>2. CASE (\E j \in Journey : OpenScreen(j)) \/ Clear \/ Restore
  <2>1. FreeFlow \in Flow
    BY <1>2, FreeIsFree DEF OpenScreen, Clear, Restore
  <2> QED
    BY <1>2, <2>1, StartMoves
<1>3. ASSUME NEW j \in Journey, StartJourney(j) \/ CompleteJourney(j)
      PROVE  UNCHANGED <<flow, sending>>
  BY <1>3 DEF StartJourney, CompleteJourney, memory
<1>4. ASSUME NEW m \in strays, ServeStray(m) PROVE UNCHANGED <<flow, sending>>
  BY <1>4 DEF ServeStray, memory
<1>5. CASE UNCHANGED vars
  BY <1>5 DEF vars, memory
<1> QED
  BY <1>1, <1>2, <1>3, <1>4, <1>5 DEF Next

LEMMA FlowStep ==
  ASSUME IInv, [Next]_vars
  PROVE  flow' \in [Flow -> FlowState] /\ sending' \in BOOLEAN /\ FlowInv'
<1>1. ASSUME NEW f \in Flow, Moves(f)
      PROVE  flow' \in [Flow -> FlowState] /\ sending' \in BOOLEAN /\ FlowInv'
  BY <1>1, StateKeeps DEF Moves
<1>2. CASE Sample
  BY <1>2, SampleTakes, StateKeeps DEF Takes
<1>3. CASE UNCHANGED <<flow, sending>>
  BY <1>3 DEF IInv, TypeOK, FlowInv, FlowOK
<1> QED
  BY <1>1, <1>2, <1>3, StepMoves, KillKeeps

-----------------------------------------------------------------------------
(* The other variables. *)

LEMMA AcceptType ==
  ASSUME TypeOK, NEW m \in Submission, Accept(m)
  PROVE  status' \in [Journey -> {"READY", "ACTIVE", "ARRIVED", "COMPLETED"}]
         /\ positions' \in [Journey -> SUBSET Point]
<1>1. m.journey \in Journey /\ m.point \in Point
  BY DEF Submission
<1> QED
  BY <1>1 DEF Accept, TypeOK, serverVars

LEMMA SubmittedType ==
  ASSUME IInv, NEW f \in Flow, Waiting(f), ~At(f, "asking")
  PROVE  Submitted(f) \in Submission
<1>1. flow[f] \in FlowState /\ FlowOK(flow[f]) /\ flow[f].pc \in {"flushing", "submitting"}
  BY FlowFacts DEF Waiting, At
<1>2. flow[f].target \in Journey
  BY <1>1 DEF FlowOK
<1>3. CASE At(f, "flushing")
  <2>1. Head(flow[f].copy) \in Point
    BY <1>1, <1>3, TailQueue DEF FlowState, FlowOK, At
  <2> QED
    BY <1>2, <1>3, <2>1 DEF Submitted, Submission
<1>4. CASE ~At(f, "flushing")
  <2>1. flow[f].point \in Point
    BY <1>1, <1>4 DEF FlowOK, At
  <2> QED
    BY <1>2, <1>4, <2>1 DEF Submitted, Submission
<1> QED
  BY <1>3, <1>4

LEMMA GiveUpType ==
  ASSUME IInv, NEW F \in SUBSET Flow, GiveUp(F)
  PROVE  strays' \subseteq Submission
<1>1. {Submitted(f) : f \in {g \in F : Waiting(g) /\ ~At(g, "asking")}} \subseteq Submission
  BY SubmittedType
<1>2. strays \subseteq Submission
  BY DEF IInv, TypeOK
<1> QED
  BY <1>1, <1>2 DEF GiveUp

ServerType ==
  /\ status \in [Journey -> {"READY", "ACTIVE", "ARRIVED", "COMPLETED"}]
  /\ positions \in [Journey -> SUBSET Point]
  /\ strays \subseteq Submission

ClientType ==
  /\ stored \in Journey \cup {None} /\ queue \in Queues
  /\ active \in Journey \cup {None} /\ listening \in BOOLEAN /\ sampling \in BOOLEAN
  /\ taken \in 0..MaxPoints /\ faults \in 0..MaxFaults

client == <<storage, active, listening, sampling, taken, faults>>

LEMMA ServerStep ==
  ASSUME IInv, [Next]_vars
  PROVE  ServerType'
<1> USE DEF ServerType
<1>1. ServerType
  BY DEF IInv, TypeOK
<1>2. CASE UNCHANGED <<status, positions, strays>>
  BY <1>1, <1>2 DEF Submission, Point
<1>3. ASSUME NEW j \in Journey, StartJourney(j) \/ CompleteJourney(j) PROVE ServerType'
  BY <1>1, <1>3 DEF StartJourney, CompleteJourney
<1>4. ASSUME NEW m \in strays, ServeStray(m) PROVE ServerType'
  <2>1. m \in Submission /\ TypeOK
    BY <1>1 DEF IInv
  <2>2. Accept(m) /\ strays' = strays \ {m}
    BY <1>4 DEF ServeStray
  <2> QED
    BY <1>1, <2>1, <2>2, AcceptType
<1>5. ASSUME NEW f \in Flow, Answer(f), Waiting(f) PROVE ServerType'
  <2>1. CASE AnswerSubmission(f)
    <3>1. Submitted(f) \in Submission /\ TypeOK
      BY <1>5, <2>1, SubmittedType DEF AnswerSubmission, IInv
    <3>2. Accept(Submitted(f)) /\ UNCHANGED strays
      BY <2>1 DEF AnswerSubmission
    <3> QED
      BY <1>1, <3>1, <3>2, AcceptType
  <2>2. CASE AnswerTracking(f)
    BY <1>2, <2>2 DEF AnswerTracking, serverVars
  <2>3. CASE TimeOut(f)
    BY <1>1, <2>3, GiveUpType DEF TimeOut, serverVars
  <2> QED
    BY <1>5, <2>1, <2>2, <2>3 DEF Answer
<1>6. ASSUME NEW f \in Flow, Continue(f) PROVE UNCHANGED <<status, positions, strays>>
  BY <1>6 DEF Continue, Flush, Flushed, Sent, Enqueue, Enqueued, Begin, Cancelled, ServiceStopped,
     QueueDeleted, Stopped, Listen, Restored, serverVars
<1>7. ASSUME NEW j \in Journey, OpenScreen(j) PROVE ServerType'
  BY <1>2, <1>7 DEF OpenScreen, serverVars
<1>8. CASE Sample \/ Clear \/ Restore \/ UNCHANGED vars
  BY <1>2, <1>8 DEF Sample, Clear, Restore, vars, serverVars
<1>9. CASE Kill
  BY <1>1, <1>9, GiveUpType DEF Kill, serverVars
<1> QED
  BY <1>2, <1>3, <1>4, <1>5, <1>6, <1>7, <1>8, <1>9 DEF Next, Advance

LEMMA ClientStep ==
  ASSUME IInv, [Next]_vars
  PROVE  ClientType'
<1> USE DEF ClientType
<1>1. ClientType /\ \A f \in Flow : flow[f] \in FlowState /\ FlowOK(flow[f])
  BY FlowFacts DEF IInv, TypeOK
<1>2. CASE UNCHANGED client
  BY <1>1, <1>2 DEF client, storage, Queues, Point
<1>3. ASSUME NEW j \in Journey, StartJourney(j) \/ CompleteJourney(j) \/ OpenScreen(j)
      PROVE  UNCHANGED client
  BY <1>3 DEF StartJourney, CompleteJourney, OpenScreen, client, memory, bounds
<1>4. ASSUME NEW m \in strays, ServeStray(m) PROVE UNCHANGED client
  BY <1>4 DEF ServeStray, client, memory, bounds
<1>5. ASSUME NEW f \in Flow, Answer(f) PROVE ClientType'
  <2>1. CASE AnswerSubmission(f) \/ AnswerTracking(f)
    BY <1>2, <2>1 DEF AnswerSubmission, AnswerTracking, client, memory, bounds
  <2>2. CASE TimeOut(f)
    BY <1>1, <2>2, JourneyAssumption DEF TimeOut, storage, memory, Queues, Point
  <2> QED
    BY <1>5, <2>1, <2>2 DEF Answer
<1>6. ASSUME NEW f \in Flow, Flushed(f) PROVE ClientType'
  <2>1. queue' \in Queues
    <3>1. CASE flow[f].reply \in {"ACTIVE", "ended"}
      <4>1. flow[f].copy \in Queues /\ flow[f].copy # <<>>
        BY <1>1, <1>6 DEF Flushed, At, FlowOK, FlowState
      <4> QED
        BY <1>6, <3>1, <4>1, TailQueue DEF Flushed
    <3>2. CASE flow[f].reply \notin {"ACTIVE", "ended"}
      BY <1>1, <1>6, <3>2 DEF Flushed
    <3> QED
      BY <3>1, <3>2
  <2> QED
    BY <1>1, <1>6, <2>1 DEF Flushed, bounds
<1>7. ASSUME NEW f \in Flow, Enqueue(f) PROVE ClientType'
  <2>1. flow[f].copy \in Queues /\ flow[f].point \in Point
    BY <1>1, <1>7 DEF Enqueue, At, FlowOK, FlowState
  <2>2. queue' \in Queues
    BY <1>7, <2>1, NewestQueue DEF Enqueue
  <2> QED
    BY <1>1, <1>7, <2>2 DEF Enqueue, memory, bounds
<1>8. ASSUME NEW f \in Flow, QueueDeleted(f) PROVE ClientType'
  BY <1>1, <1>8, EmptyQueue DEF QueueDeleted, memory, bounds
<1>9. ASSUME NEW f \in Flow, Stopped(f) PROVE ClientType'
  <2>1. flow[f].kind = "start" => flow[f].target \in Journey
    BY <1>1, <1>9 DEF Stopped, At, FlowOK
  <2>2. stored' \in Journey \cup {None} /\ active' \in Journey \cup {None}
    BY <1>1, <1>9, <2>1 DEF Stopped
  <2> QED
    BY <1>1, <1>9, <2>2 DEF Stopped, bounds
<1>10. ASSUME NEW f \in Flow, Flush(f) \/ Enqueued(f) PROVE UNCHANGED client
  BY <1>10 DEF Flush, Enqueued, client, storage, bounds
<1>11. ASSUME NEW f \in Flow, Sent(f) \/ Begin(f) \/ Restored(f) PROVE ClientType'
  <2>1. stored' \in {stored, None}
    BY <1>11 DEF Sent, Begin, Restored, BeginStop
  <2> QED
    BY <1>1, <1>11, <2>1 DEF Sent, Begin, Restored, bounds
<1>12. ASSUME NEW f \in Flow, Cancelled(f) \/ ServiceStopped(f) \/ Listen(f) PROVE ClientType'
  BY <1>1, <1>12 DEF Cancelled, ServiceStopped, Listen, storage, memory, bounds
<1>13. CASE Sample
  BY <1>1, <1>13, JourneyAssumption DEF Sample, storage
<1>14. CASE Clear
  BY <1>1, <1>14 DEF Clear, memory, bounds
<1>15. CASE Restore
  BY <1>1, <1>15 DEF Restore, storage, memory, bounds
<1>16. CASE Kill
  <2>1. active' = None /\ listening' = FALSE /\ sampling' = FALSE /\ UNCHANGED <<stored, queue, taken>>
    BY <1>16 DEF Kill, storage
  <2>2. faults' \in 0..MaxFaults
    BY <1>1, <1>16, JourneyAssumption DEF Kill
  <2> QED
    BY <1>1, <2>1, <2>2 DEF Queues, Point
<1>17. CASE UNCHANGED vars
  BY <1>2, <1>17 DEF vars, client, memory, bounds
<1>18. ASSUME NEW f \in Flow, Continue(f) PROVE ClientType'
  BY <1>2, <1>6, <1>7, <1>8, <1>9, <1>10, <1>11, <1>12, <1>18 DEF Continue
<1> QED
  BY <1>2, <1>3, <1>4, <1>5, <1>13, <1>14, <1>15, <1>16, <1>17, <1>18 DEF Next, Advance

-----------------------------------------------------------------------------
(* The queue and its copies. *)

LEMMA EmptySound ==
  ASSUME NEW calls, NEW n
  PROVE  Sound(Idle.copy, calls, n)
<1> DEFINE e == <<>>
<1>1. e \in Seq({}) /\ Len(e) = 0
  BY EmptySeq
<1>2. DOMAIN e = {}
  BY <1>1, LenProperties
<1>3. Idle.copy = e
  BY IdleParts
<1> HIDE DEF e
<1> QED
  BY <1>2, <1>3 DEF Sound, IsInjective, ToSet

LEMMA TailParts ==
  ASSUME NEW q \in Queues, q # <<>>
  PROVE  /\ ToSet(Tail(q)) \subseteq ToSet(q)
         /\ IsInjective(q) => IsInjective(Tail(q))
<1>1. q \in Seq(Point)
  BY QueueSeq
<1>2. /\ Tail(q) \in Seq(Point) /\ Len(Tail(q)) = Len(q) - 1 /\ Len(q) \in Nat
      /\ \A i \in 1..Len(Tail(q)) : Tail(q)[i] = q[i + 1]
  BY <1>1, HeadTailProperties, LenProperties
<1>3. DOMAIN q = 1..Len(q) /\ DOMAIN Tail(q) = 1..(Len(q) - 1)
  BY <1>1, <1>2, LenProperties
<1>4. \A i \in DOMAIN Tail(q) : i + 1 \in DOMAIN q /\ Tail(q)[i] = q[i + 1]
  BY <1>2, <1>3
<1>5. ToSet(Tail(q)) \subseteq ToSet(q)
  BY <1>4 DEF ToSet
<1>6. ASSUME IsInjective(q) PROVE IsInjective(Tail(q))
  BY <1>3, <1>4, <1>6 DEF IsInjective
<1> QED
  BY <1>5, <1>6

LEMMA TailSound ==
  ASSUME NEW q \in Queues, q # <<>>, NEW calls, NEW n, Sound(q, calls, n)
  PROVE  Sound(Tail(q), calls, n)
BY TailParts DEF Sound

LEMMA NewestParts ==
  ASSUME NEW q \in Queues, NEW p \in Point, IsInjective(q), p \notin ToSet(q)
  PROVE  /\ ToSet(Newest(Append(q, p))) \subseteq ToSet(q) \cup {p}
         /\ IsInjective(Newest(Append(q, p)))
<1> DEFINE a == Append(q, p)
           m == Max({1, Len(a) - QueueLimit + 1})
           n == SubSeq(a, m, Len(a))
<1>1. q \in Seq(Point) /\ Len(q) \in 0..QueueLimit /\ QueueLimit \in Nat \ {0}
  BY QueueSeq, JourneyAssumption
<1>2. /\ a \in Seq(Point) /\ Len(a) = Len(q) + 1
      /\ \A i \in 1..Len(q) : a[i] = q[i]
      /\ a[Len(q) + 1] = p
  BY <1>1, AppendProperties
<1>3. m \in {1, 2} /\ Len(a) \in Nat
  <2>1. Len(a) - QueueLimit + 1 \in Int /\ Len(a) - QueueLimit + 1 <= 2
    BY <1>1, <1>2
  <2>2. CASE Len(a) - QueueLimit + 1 = 2
    BY <1>1, <1>2, <2>2 DEF Max
  <2>3. CASE Len(a) - QueueLimit + 1 <= 1
    <3>1. m = 1
      BY <2>1, <2>3 DEF Max
    <3> QED
      BY <3>1, <1>1, <1>2
  <2> QED
    BY <2>1, <2>2, <2>3
<1>4. DOMAIN q = 1..Len(q) /\ DOMAIN a = 1..Len(a)
  BY <1>1, <1>2, LenProperties
<1>5. ASSUME NEW i \in DOMAIN a PROVE a[i] \in ToSet(q) \cup {p}
  <2>1. i \in 1..Len(q) \/ i = Len(q) + 1
    BY <1>1, <1>2, <1>4
  <2> QED
    BY <1>2, <1>4, <2>1 DEF ToSet
<1>6. ASSUME NEW i \in DOMAIN a, NEW k \in DOMAIN a, a[i] = a[k] PROVE i = k
  <2>1. \A x \in 1..Len(q) : a[x] = q[x] /\ q[x] # p
    BY <1>2, <1>4 DEF ToSet
  <2>2. \A x, y \in 1..Len(q) : q[x] = q[y] => x = y
    BY <1>4 DEF IsInjective
  <2>3. i \in 1..Len(q) \/ i = Len(q) + 1
    BY <1>1, <1>2, <1>4
  <2>4. k \in 1..Len(q) \/ k = Len(q) + 1
    BY <1>1, <1>2, <1>4
  <2> QED
    BY <1>2, <1>6, <2>1, <2>2, <2>3, <2>4
<1> HIDE DEF a, m
<1>7. \A i \in m..Len(a) : a[i] \in Point
  BY <1>2, <1>3, <1>4, LenProperties
<1>8. /\ n \in Seq(Point)
      /\ Len(n) = IF m <= Len(a) THEN Len(a) - m + 1 ELSE 0
      /\ \A i \in 1..(Len(a) - m + 1) : n[i] = a[m + i - 1]
  BY <1>3, <1>7, SubSeqProperties
<1>9. DOMAIN n = 1..Len(n)
  BY <1>8, LenProperties
<1> HIDE DEF n
<1>10. \A i \in DOMAIN n : i \in Int /\ m + i - 1 \in DOMAIN a /\ n[i] = a[m + i - 1]
  BY <1>3, <1>4, <1>8, <1>9
<1>11. ToSet(n) \subseteq ToSet(q) \cup {p}
  BY <1>5, <1>10 DEF ToSet
<1>12. IsInjective(n)
  <2>1. ASSUME NEW i \in DOMAIN n, NEW k \in DOMAIN n, n[i] = n[k] PROVE i = k
    <3>1. m + i - 1 = m + k - 1
      BY <1>6, <1>10, <2>1
    <3> QED
      BY <1>3, <1>10, <3>1
  <2> QED
    BY <2>1 DEF IsInjective
<1>13. n = Newest(Append(q, p))
  BY DEF Newest, a, m, n
<1> QED
  BY <1>11, <1>12, <1>13

\* The queue after a step: as it was, emptied, a copy without its first position, or
\* a copy with the position a call had in its hand.
LEMMA QueueStep ==
  ASSUME IInv, [Next]_vars
  PROVE  \/ queue' = queue
         \/ /\ taken' = taken
            /\ \/ queue' = Idle.copy
               \/ \E f \in Flow : flow[f].copy # <<>> /\ queue' = Tail(flow[f].copy)
               \/ \E f \in Flow : /\ Enqueue(f) /\ flow[f].point \in Point
                                  /\ queue' = Newest(Append(flow[f].copy, flow[f].point))
<1>1. ASSUME NEW j \in Journey, StartJourney(j) \/ CompleteJourney(j) \/ OpenScreen(j)
      PROVE  queue' = queue
  BY <1>1 DEF StartJourney, CompleteJourney, OpenScreen, storage
<1>2. ASSUME NEW m \in strays, ServeStray(m) PROVE queue' = queue
  BY <1>2 DEF ServeStray, storage
<1>3. ASSUME NEW f \in Flow, Answer(f) PROVE queue' = queue
  BY <1>3 DEF Answer, AnswerSubmission, AnswerTracking, TimeOut, storage
<1>4. CASE Sample \/ Clear \/ Restore \/ Kill \/ UNCHANGED vars
  BY <1>4 DEF Sample, Clear, Restore, Kill, vars, storage
<1>5. ASSUME NEW f \in Flow,
             \/ Flush(f) \/ Sent(f) \/ Enqueued(f) \/ Begin(f) \/ Cancelled(f)
             \/ ServiceStopped(f) \/ Stopped(f) \/ Listen(f) \/ Restored(f)
      PROVE  queue' = queue
  BY <1>5 DEF Flush, Sent, Enqueued, Begin, Cancelled, ServiceStopped, Stopped, Listen, Restored, storage
<1>6. ASSUME NEW f \in Flow, Flushed(f)
      PROVE  /\ taken' = taken
             /\ queue' = queue \/ (flow[f].copy # <<>> /\ queue' = Tail(flow[f].copy))
  BY <1>6, FlowFacts DEF Flushed, At, FlowOK, bounds
<1>7. ASSUME NEW f \in Flow, QueueDeleted(f) PROVE taken' = taken /\ queue' = Idle.copy
  BY <1>7, IdleParts DEF QueueDeleted, bounds
<1>8. ASSUME NEW f \in Flow, Enqueue(f)
      PROVE  /\ taken' = taken /\ flow[f].point \in Point
             /\ queue' = Newest(Append(flow[f].copy, flow[f].point))
  BY <1>8, FlowFacts DEF Enqueue, At, FlowOK, bounds
<1>9. ASSUME NEW f \in Flow, Advance(f)
      PROVE  \/ queue' = queue
             \/ /\ taken' = taken
                /\ \/ queue' = Idle.copy
                   \/ flow[f].copy # <<>> /\ queue' = Tail(flow[f].copy)
                   \/ /\ Enqueue(f) /\ flow[f].point \in Point
                      /\ queue' = Newest(Append(flow[f].copy, flow[f].point))
  BY <1>3, <1>5, <1>6, <1>7, <1>8, <1>9 DEF Advance, Continue
<1> QED
  BY <1>1, <1>2, <1>4, <1>9 DEF Next

LEMMA TakenStep ==
  ASSUME [Next]_vars
  PROVE  taken' = taken \/ (Sample /\ taken' = taken + 1 /\ queue' = queue)
<1>1. ASSUME NEW j \in Journey, StartJourney(j) \/ CompleteJourney(j) \/ OpenScreen(j)
      PROVE  taken' = taken
  BY <1>1 DEF StartJourney, CompleteJourney, OpenScreen, bounds
<1>2. ASSUME NEW m \in strays, ServeStray(m) PROVE taken' = taken
  BY <1>2 DEF ServeStray, bounds
<1>3. ASSUME NEW f \in Flow, Answer(f) PROVE taken' = taken
  BY <1>3 DEF Answer, AnswerSubmission, AnswerTracking, TimeOut, bounds
<1>4. ASSUME NEW f \in Flow, Continue(f) PROVE taken' = taken
  BY <1>4 DEF Continue, Flush, Flushed, Sent, Enqueue, Enqueued, Begin, Cancelled, ServiceStopped,
     QueueDeleted, Stopped, Listen, Restored, bounds
<1>5. CASE Clear \/ Restore \/ Kill \/ UNCHANGED vars
  BY <1>5 DEF Clear, Restore, Kill, vars, bounds
<1>6. CASE Sample
  BY <1>6 DEF Sample, storage
<1> QED
  BY <1>1, <1>2, <1>3, <1>4, <1>5, <1>6 DEF Next, Advance

LEMMA QueueFacts ==
  ASSUME IInv
  PROVE  /\ taken \in Nat /\ queue \in Queues /\ Sound(queue, flow, taken) /\ HandsInv
         /\ \A f \in Flow :
              /\ flow[f].point \in Nat /\ flow[f].copy \in Queues
              /\ Sound(flow[f].copy, flow, taken)
<1>1. \A f \in Flow : flow[f].point \in Nat /\ flow[f].copy \in Queues
  BY FlowFacts, JourneyAssumption DEF FlowState
<1>2. taken \in Nat /\ queue \in Queues
  BY JourneyAssumption DEF IInv, TypeOK
<1> QED
  BY <1>1, <1>2 DEF IInv, QueueInv

LEMMA NoZero ==
  ASSUME NEW q, NEW calls, NEW n \in Nat, Sound(q, calls, n)
  PROVE  0 \notin ToSet(q)
BY DEF Sound

\* The calls after a step that takes no position.
LEMMA CarryStep ==
  ASSUME IInv, [Next]_vars, ~Sample
  PROVE  \A g \in Flow :
           /\ flow'[g].point \in {0, flow[g].point}
           /\ \/ flow'[g].copy = Idle.copy \/ flow'[g].copy = queue \/ flow'[g].copy = flow[g].copy
              \/ flow[g].copy # <<>> /\ flow'[g].copy = Tail(flow[g].copy)
<1> SUFFICES ASSUME NEW g \in Flow PROVE Carried(g, flow'[g])
  BY DEF Carried
<1>1. ASSUME NEW f \in Flow, Moves(f) PROVE Carried(g, flow'[g])
  <2>1. PICK r \in FlowState : FlowOK(r) /\ Carried(f, r) /\ flow' = [flow EXCEPT ![f] = r]
    BY <1>1 DEF Moves
  <2>2. flow'[g] = IF g = f THEN r ELSE flow[g]
    BY <2>1, StateKeeps
  <2> QED
    BY <2>1, <2>2 DEF Carried
<1>2. CASE Kill
  BY <1>2, IdleParts DEF Kill, Carried
<1>3. CASE UNCHANGED <<flow, sending>>
  BY <1>3 DEF Carried
<1> QED
  BY <1>1, <1>2, <1>3, StepMoves

LEMMA QueueInvStep ==
  ASSUME IInv, [Next]_vars
  PROVE  QueueInv'
<1>1. /\ taken \in Nat /\ queue \in Queues /\ Sound(queue, flow, taken) /\ HandsInv
      /\ \A f \in Flow :
           /\ flow[f].point \in Nat /\ flow[f].copy \in Queues
           /\ Sound(flow[f].copy, flow, taken)
  BY QueueFacts
<1>2. CASE Sample
  <2>1. Takes /\ taken' = taken + 1 /\ queue' = queue
    BY <1>2, SampleTakes DEF Sample, storage
  <2>2. PICK f \in Flow, r \in FlowState :
          FlowOK(r) /\ r.point = taken + 1 /\ r.copy = queue /\ flow' = [flow EXCEPT ![f] = r]
    BY <2>1 DEF Takes
  <2>3. \A g \in Flow : flow'[g] = IF g = f THEN r ELSE flow[g]
    BY <2>2, StateKeeps
  <2>4. \A g \in Flow : flow[g].point <= taken
    BY <1>1 DEF HandsInv
  <2>5. ASSUME NEW q, Sound(q, flow, taken) PROVE Sound(q, flow', taken')
    <3>1. ToSet(q) \subseteq 1..taken'
      BY <1>1, <2>1, <2>5 DEF Sound
    <3>2. taken + 1 \notin ToSet(q)
      BY <1>1, <2>5 DEF Sound
    <3>3. \A g \in Flow : flow'[g].point \notin ToSet(q)
      BY <2>2, <2>3, <2>5, <3>2 DEF Sound
    <3> QED
      BY <2>5, <3>1, <3>3 DEF Sound
  <2>6. \A g \in Flow : Sound(flow'[g].copy, flow', taken')
    BY <1>1, <2>2, <2>3, <2>5
  <2>7. HandsInv'
    <3>1. ASSUME NEW g \in Flow PROVE flow'[g].point <= taken'
      BY <1>1, <2>1, <2>2, <2>3, <2>4
    <3>2. ASSUME NEW g \in Flow, NEW h \in Flow, flow'[g].point = flow'[h].point
          PROVE  g = h \/ flow'[g].point = 0
      <4>1. CASE g = f /\ h # f
        BY <1>1, <2>2, <2>3, <2>4, <3>2, <4>1
      <4>2. CASE g # f /\ h = f
        BY <1>1, <2>2, <2>3, <2>4, <3>2, <4>2
      <4>3. CASE g # f /\ h # f
        BY <1>1, <2>3, <3>2, <4>3 DEF HandsInv
      <4> QED
        BY <4>1, <4>2, <4>3
    <3> QED
      BY <3>1, <3>2 DEF HandsInv
  <2>8. Sound(queue', flow', taken')
    BY <1>1, <2>1, <2>5
  <2> QED
    BY <2>6, <2>7, <2>8 DEF QueueInv
<1>3. CASE ~Sample
  <2>1. taken' = taken
    BY <1>3, TakenStep
  <2>2. \A g \in Flow :
          /\ flow'[g].point \in {0, flow[g].point}
          /\ \/ flow'[g].copy = Idle.copy \/ flow'[g].copy = queue \/ flow'[g].copy = flow[g].copy
             \/ flow[g].copy # <<>> /\ flow'[g].copy = Tail(flow[g].copy)
    BY <1>3, CarryStep
  <2>3. ASSUME NEW q, Sound(q, flow, taken) PROVE Sound(q, flow', taken')
    <3>1. 0 \notin ToSet(q)
      BY <1>1, <2>3, NoZero
    <3> QED
      BY <2>1, <2>2, <2>3, <3>1 DEF Sound
  <2>4. Sound(Idle.copy, flow, taken)
    BY EmptySound
  <2>5. ASSUME NEW g \in Flow, flow[g].copy # <<>> PROVE Sound(Tail(flow[g].copy), flow, taken)
    BY <1>1, <2>5, TailSound
  <2>6. \A g \in Flow : Sound(flow'[g].copy, flow', taken')
    <3>1. ASSUME NEW g \in Flow PROVE Sound(flow'[g].copy, flow, taken)
      BY <1>1, <2>2, <2>4, <2>5
    <3> QED
      BY <2>3, <3>1
  <2>7. HandsInv'
    BY <1>1, <2>1, <2>2 DEF HandsInv
  <2>8. ASSUME NEW f \in Flow, Enqueue(f), flow[f].point \in Point,
               queue' = Newest(Append(flow[f].copy, flow[f].point))
        PROVE  Sound(queue', flow', taken')
    <3> DEFINE q == flow[f].copy
               p == flow[f].point
    <3>1. q \in Queues /\ Sound(q, flow, taken) /\ p \notin ToSet(q) /\ p \in 1..taken
      BY <1>1, <2>8 DEF Sound, HandsInv, Point
    <3>2. ToSet(queue') \subseteq ToSet(q) \cup {p} /\ IsInjective(queue')
      BY <2>8, <3>1, NewestParts DEF Sound
    <3>3. flow'[f].point = 0
      <4>1. Idle \in FlowState /\ flow \in [Flow -> FlowState]
        BY IdleOK DEF IInv, TypeOK
      <4>2. flow'[f] = [Idle EXCEPT !.kind = flow[f].kind, !.pc = "enqueued"]
        BY <2>8, <4>1 DEF Enqueue, Become
      <4>3. [Idle EXCEPT !.kind = flow[f].kind, !.pc = "enqueued"].point = Idle.point
        BY <4>1 DEF FlowState
      <4> QED
        BY <4>2, <4>3, IdleParts
    <3>4. 0 \notin ToSet(q) /\ p # 0
      BY <1>1, <3>1, NoZero
    <3>5. ASSUME NEW g \in Flow PROVE flow'[g].point \notin ToSet(q) \cup {p}
      <4>1. CASE flow'[g].point = 0
        BY <3>4, <4>1
      <4>2. CASE flow'[g].point = flow[g].point /\ flow[g].point # 0
        <5>1. g # f
          BY <3>3, <4>2
        <5>2. flow[g].point # p
          BY <1>1, <4>2, <5>1 DEF HandsInv
        <5> QED
          BY <3>1, <4>2, <5>2 DEF Sound
      <4> QED
        BY <2>2, <4>1, <4>2
    <3>6. ToSet(queue') \subseteq 1..taken'
      BY <2>1, <3>1, <3>2 DEF Sound
    <3> QED
      BY <3>2, <3>5, <3>6 DEF Sound
  <2>9. Sound(queue', flow', taken')
    BY <1>1, <2>3, <2>4, <2>5, <2>8, QueueStep
  <2> QED
    BY <2>6, <2>7, <2>9 DEF QueueInv
<1> QED
  BY <1>2, <1>3

-----------------------------------------------------------------------------

LEMMA InitIInv == Init => IInv
<1> SUFFICES ASSUME Init PROVE IInv
  OBVIOUS
<1>1. flow = [f \in Flow |-> Idle]
  BY DEF Init
<1>2. queue \in Queues /\ taken \in 0..MaxPoints /\ faults \in 0..MaxFaults
  BY EmptyQueue, JourneyAssumption DEF Init
<1>3. TypeOK
  <2>1. flow \in [Flow -> FlowState]
    BY <1>1, IdleOK
  <2> HIDE DEF Idle
  <2> QED
    BY <1>2, <2>1 DEF Init, TypeOK
<1>4. FlowInv
  BY <1>1, IdleOK DEF FlowInv
<1>5. QueueInv
  <2>1. Sound(Idle.copy, flow, taken)
    BY EmptySound
  <2>2. queue = Idle.copy /\ taken = 0
    BY IdleParts DEF Init
  <2>3. \A f \in Flow : flow[f].copy = Idle.copy /\ flow[f].point = 0
    BY <1>1, IdleParts
  <2> QED
    BY <2>1, <2>2, <2>3 DEF QueueInv, HandsInv
<1> QED
  BY <1>3, <1>4, <1>5 DEF IInv

LEMMA NextIInv == IInv /\ [Next]_vars => IInv'
<1> SUFFICES ASSUME IInv, [Next]_vars PROVE IInv'
  OBVIOUS
<1>1. flow' \in [Flow -> FlowState] /\ sending' \in BOOLEAN /\ FlowInv'
  BY FlowStep
<1>2. ServerType' /\ ClientType'
  BY ServerStep, ClientStep
<1>3. TypeOK'
  BY <1>1, <1>2 DEF TypeOK, ServerType, ClientType
<1> QED
  BY <1>1, <1>3, QueueInvStep DEF IInv

LEMMA SpecIInv == Spec => []IInv
BY InitIInv, NextIInv, PTL DEF Spec

\* The types: in particular the queue, and every copy of it that waits for an
\* answer, keeps to its limit (139-141).
THEOREM TypeCorrect == Spec => []TypeOK
<1>1. IInv => TypeOK
  BY DEF IInv
<1> QED
  BY <1>1, SpecIInv, PTL

\* No position is queued twice, nor while a call still has it in its hand, whatever
\* calls overlap and wherever they fail, although each of them writes back a queue
\* it has read long before (102, 105-164).
THEOREM QueuedOnceCorrect == Spec => []QueuedOnce
<1>1. IInv => QueuedOnce
  BY DEF IInv, QueueInv, Sound, QueuedOnce
<1> QED
  BY <1>1, SpecIInv, PTL
=============================================================================
