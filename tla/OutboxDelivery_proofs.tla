------------------------ MODULE OutboxDelivery_proofs ------------------------
(***************************************************************************)
(* Proofs about OutboxDelivery, for every set of events and workers and    *)
(* every bound.                                                            *)
(***************************************************************************)
EXTENDS OutboxDelivery, SequenceTheorems, TLAPS

-----------------------------------------------------------------------------
(* Types. *)

LEMMA RetryPhaseType ==
  ASSUME NEW w, NEW e
  PROVE  RetryPhase(w, e) \in {"transient", "permanent"}
BY DEF RetryPhase

\* Overwriting one record leaves a sequence of results.
LEMMA ExceptType ==
  ASSUME NEW S, NEW s \in Seq(S), NEW i, NEW x \in S
  PROVE  [s EXCEPT ![i] = x] \in Seq(S)
<1>1. PICK n \in Nat : s \in [1..n -> S]
  BY SeqDef
<1>2. [s EXCEPT ![i] = x] \in [1..n -> S]
  BY <1>1
<1> QED
  BY <1>2, SeqDef

LEMMA FreshToken ==
  ASSUME \E t \in Token : t \notin InUse
  PROVE  Fresh \in Token /\ Fresh \notin InUse
BY DEF Fresh

LEMMA TypeStep ==
  ASSUME TypeOK, [Next]_vars
  PROVE  TypeOK'
<1> USE OutboxAssumption
<1> USE DEF TypeOK
<1>1. CASE AssignProvider
  BY <1>1 DEF AssignProvider, Status, Open, memory
<1>2. ASSUME NEW e \in Event, Publish(e) PROVE TypeOK'
  BY <1>2 DEF Publish, Status, Open, memory, outside
<1>3. ASSUME NEW e \in Event, BecomeDue(e) \/ BecomeMoot(e) PROVE TypeOK'
  BY <1>3 DEF BecomeDue, BecomeMoot, memory, outside, table
<1>4. ASSUME NEW t \in Token, LeaseLapses(t) PROVE TypeOK'
  BY <1>4 DEF LeaseLapses, memory, table
<1>5. ASSUME NEW w \in Worker, NEW S \in SUBSET Event, ClaimBatch(w, S) PROVE TypeOK'
  <2>1. Fresh \in Token
    BY <1>5, FreshToken DEF ClaimBatch
  <2>2. status' \in [Event -> Status]
    BY <1>5 DEF ClaimBatch, Status, Open
  <2>3. /\ attempts' \in [Event -> Nat]
        /\ token' \in [Event -> Token \cup {NoToken}]
        /\ lapsed' \subseteq Token
        /\ hold' \in [Worker -> Token \cup {NoToken}]
    BY <1>5, <2>1 DEF ClaimBatch
  <2>4. rows' \in [Event -> Seq(Result)]
    BY <1>5 DEF ClaimBatch, Result
  <2>5. phase' \in [Worker -> [Event -> Phase]]
    BY <1>5 DEF ClaimBatch, Phase
  <2>6. tried' \in [Worker -> [Event -> Nat]]
    BY <1>5 DEF ClaimBatch
  <2>7. UNCHANGED <<noted, due, up, moot, sent, faults, assigns>>
    BY <1>5 DEF ClaimBatch
  <2> QED
    BY <2>2, <2>3, <2>4, <2>5, <2>6, <2>7
<1>6. ASSUME NEW w \in Worker, NEW S \in SUBSET Event, ClaimAborts(w, S) PROVE TypeOK'
  BY <1>6 DEF ClaimAborts, table, outside
<1>7. ASSUME NEW w \in Worker, NEW e \in Event, ReadContent(w, e) PROVE TypeOK'
  <2>1. \E p \in Phase : phase' = [phase EXCEPT ![w][e] = p]
    BY <1>7, RetryPhaseType DEF ReadContent, Move, Phase, Ending
  <2> QED
    BY <1>7, <2>1 DEF ReadContent, table, outside
<1>8. ASSUME NEW w \in Worker, NEW e \in Event, Dispatch(w, e) PROVE TypeOK'
  <2>1. \E p \in Phase : phase' = [phase EXCEPT ![w][e] = p]
    BY <1>8, RetryPhaseType DEF Dispatch, Move, Phase, Ending
  <2>2. sent' \in [Event -> SUBSET Nat]
    <3>1. CASE UNCHANGED sent
      BY <3>1
    <3>2. CASE Accepted(w, e)
      <4>1. sent[e] \cup {tried[w][e]} \in SUBSET Nat
        OBVIOUS
      <4> QED
        BY <3>2, <4>1 DEF Accepted
    <3> QED
      BY <1>8, <3>1, <3>2 DEF Dispatch
  <2>3. phase' \in [Worker -> [Event -> Phase]]
    BY <2>1
  <2>4. UNCHANGED <<table, up, hold, tried, lapsed, moot, faults, assigns>>
    BY <1>8 DEF Dispatch
  <2> QED
    BY <2>2, <2>3, <2>4 DEF table
<1>9. ASSUME NEW w \in Worker, NEW e \in Event, Finish(w, e) PROVE TypeOK'
  <2>1. phase[w][e] \in Ending
    BY <1>9 DEF Finish
  <2>2. StatusOf(phase[w][e]) \in Status
    BY <2>1 DEF Ending, StatusOf, Status, Open, Terminal
  <2>3. ResultOf(phase[w][e]) \in Result
    BY <2>1 DEF Ending, ResultOf, Result
  <2>4. /\ rows' \in [Event -> Seq(Result)]
        /\ status' \in [Event -> Status]
        /\ token' \in [Event -> Token \cup {NoToken}]
        /\ attempts' \in [Event -> Nat]
        /\ noted' \subseteq Event
        /\ due' \subseteq Event
    <3>1. CASE UNCHANGED table
      BY <3>1 DEF table
    <3>2. CASE Record(w, e) /\ UNCHANGED attempts
      <4>1. rows' \in [Event -> Seq(Result)]
        <5>1. [rows[e] EXCEPT ![tried[w][e]] = ResultOf(phase[w][e])] \in Seq(Result)
          BY <2>3, ExceptType
        <5> QED
          BY <3>2, <5>1 DEF Record
      <4> QED
        BY <3>2, <2>2, <4>1 DEF Record
    <3> QED
      BY <1>9, <3>1, <3>2 DEF Finish
  <2>5. /\ phase' \in [Worker -> [Event -> Phase]]
        /\ tried' \in [Worker -> [Event -> Nat]]
        /\ hold' \in [Worker -> Token \cup {NoToken}]
    BY <1>9 DEF Finish, Release, Phase
  <2> QED
    BY <1>9, <2>4, <2>5 DEF Finish, outside
<1>10. ASSUME NEW w \in Worker, NEW e \in Event, FinishFails(w, e) PROVE TypeOK'
  <2>1. /\ phase' \in [Worker -> [Event -> Phase]]
        /\ tried' \in [Worker -> [Event -> Nat]]
        /\ hold' \in [Worker -> Token \cup {NoToken}]
    <3>1. CASE Release(w, e)
      BY <3>1 DEF Release, Phase
    <3>2. CASE Move(w, e, RetryPhase(w, e)) /\ UNCHANGED <<hold, tried>>
      <4>1. RetryPhase(w, e) \in Phase
        BY RetryPhaseType DEF Phase, Ending
      <4> QED
        BY <3>2, <4>1 DEF Move
    <3> QED
      BY <1>10, <3>1, <3>2 DEF FinishFails
  <2> QED
    BY <1>10, <2>1 DEF FinishFails, table
<1>11. ASSUME NEW w \in Worker, NEW S \in SUBSET Event, Cleanup(w, S) PROVE TypeOK'
  BY <1>11 DEF Cleanup, Status, Absent, memory, outside
<1>12. ASSUME NEW w \in Worker, LeaseOutlived(w) PROVE TypeOK'
  BY <1>12 DEF LeaseOutlived, memory, table
<1>13. ASSUME NEW w \in Worker, Crash(w) PROVE TypeOK'
  BY <1>13 DEF Crash, table, Phase
<1>14. ASSUME NEW w \in Worker, Restart(w) PROVE TypeOK'
  BY <1>14 DEF Restart, table, outside
<1>15. CASE UNCHANGED vars
  BY <1>15 DEF vars, table, memory, outside
<1> QED
  BY <1>1, <1>2, <1>3, <1>4, <1>5, <1>6, <1>7, <1>8, <1>9, <1>10, <1>11, <1>12,
     <1>13, <1>14, <1>15
     DEF Next, Claim, Candidates, Claimable, Pause, Deliver

\* Every variable keeps its type: statuses, results and phases stay within
\* their enumerations and the counters within their bounds.
THEOREM TypeCorrect == Spec => []TypeOK
<1>1. Init => TypeOK
  BY OutboxAssumption DEF Init, TypeOK, Status, Phase, Absent, Result
<1> QED
  BY <1>1, TypeStep, PTL DEF Spec

-----------------------------------------------------------------------------
(* The inductive invariant, one lemma per part: what each part needs of the *)
(* others is in its ASSUME.                                                 *)

\* The facts about claims that the safety properties follow from; every part
\* is also checked by TLC.
IInv ==
  /\ TypeOK
  /\ ClaimInv
  /\ AttemptLedger
  /\ StatusIsLastResult
  /\ DeliveredWasHandedOver
  /\ RetryBudget

\* The steps of a worker on one event of its batch.
OnEvent(w, e) ==
  ReadContent(w, e) \/ Dispatch(w, e) \/ Finish(w, e) \/ FinishFails(w, e)

LEMMA StepCases ==
  ASSUME [Next]_vars
  PROVE  \/ AssignProvider
         \/ \E e \in Event : Publish(e)
         \/ \E w \in Worker, S \in SUBSET Claimable : ClaimBatch(w, S)
         \/ \E w \in Worker, e \in Event : OnEvent(w, e)
         \/ \E w \in Worker, S \in SUBSET Event : Cleanup(w, S)
         \/ \E w \in Worker : Crash(w) \/ LeaseOutlived(w)
         \/ \E t \in Token : LeaseLapses(t)
         \/ /\ UNCHANGED <<status, attempts, token, rows, noted, lapsed, sent>>
            /\ UNCHANGED <<hold, phase, tried, faults>>
<1>1. ASSUME NEW e \in Event, BecomeDue(e) \/ BecomeMoot(e)
      PROVE  /\ UNCHANGED <<status, attempts, token, rows, noted, lapsed, sent>>
             /\ UNCHANGED <<hold, phase, tried, faults>>
  BY <1>1 DEF BecomeDue, BecomeMoot, table, memory, outside
<1>2. ASSUME NEW w \in Worker, NEW S, ClaimAborts(w, S) \/ Restart(w)
      PROVE  /\ UNCHANGED <<status, attempts, token, rows, noted, lapsed, sent>>
             /\ UNCHANGED <<hold, phase, tried, faults>>
  BY <1>2 DEF ClaimAborts, Restart, table, outside
<1>3. CASE UNCHANGED vars
  BY <1>3 DEF vars, table, memory, outside
<1> QED
  BY <1>1, <1>2, <1>3 DEF Next, Claim, Candidates, Pause, Deliver, OnEvent

\* What a step on one event may do to the worker's memory.
LEMMA OnEventMemory ==
  ASSUME TypeOK, NEW w \in Worker, NEW e \in Event, OnEvent(w, e)
  PROVE  /\ phase[w][e] # "none"
         /\ \/ /\ \E p \in Phase \ {"none"} : phase' = [phase EXCEPT ![w][e] = p]
               /\ UNCHANGED <<hold, tried>>
            \/ Release(w, e)
<1>1. CASE ReadContent(w, e)
  BY <1>1, RetryPhaseType DEF ReadContent, Move, Phase, Ending
<1>2. CASE Dispatch(w, e)
  BY <1>2, RetryPhaseType DEF Dispatch, Move, Phase, Ending
<1>3. CASE Finish(w, e)
  BY <1>3 DEF Finish, Ending
<1>4. CASE FinishFails(w, e)
  BY <1>4, RetryPhaseType DEF FinishFails, Move, Phase, Ending
<1> QED
  BY <1>1, <1>2, <1>3, <1>4 DEF OnEvent

\* A fresh token is nobody's.
LEMMA FreshIsNew ==
  ASSUME NEW w \in Worker, NEW S, ClaimBatch(w, S)
  PROVE  /\ Fresh \in Token
         /\ Fresh # NoToken
         /\ \A e \in Event : token[e] # Fresh
         /\ \A v \in Worker : hold[v] # Fresh
BY FreshToken, OutboxAssumption DEF ClaimBatch, InUse

LEMMA TokenStep ==
  ASSUME TypeOK, TokenInv, [Next]_vars
  PROVE  TokenInv'
<1> USE DEF TokenInv, Holds, TypeOK
<1>1. CASE UNCHANGED memory
  BY <1>1 DEF memory
<1>2. ASSUME NEW w \in Worker, NEW S \in SUBSET Claimable, ClaimBatch(w, S) PROVE TokenInv'
  BY <1>2, FreshIsNew DEF ClaimBatch
<1>3. ASSUME NEW w \in Worker, NEW e \in Event, OnEvent(w, e) PROVE TokenInv'
  <2>1. CASE UNCHANGED <<hold, tried>> /\ \E p \in Phase \ {"none"} : phase' = [phase EXCEPT ![w][e] = p]
    BY <1>3, <2>1, OnEventMemory
  <2>2. CASE Release(w, e)
    BY <2>2 DEF Release
  <2> QED
    BY <1>3, <2>1, <2>2, OnEventMemory
<1>4. ASSUME NEW w \in Worker, Crash(w) PROVE TokenInv'
  BY <1>4 DEF Crash
<1>5. CASE UNCHANGED <<hold, phase, tried, faults>>
  BY <1>5
<1> QED
  BY <1>1, <1>2, <1>3, <1>4, <1>5, StepCases
     DEF AssignProvider, Publish, Cleanup, LeaseOutlived, LeaseLapses

LEMMA StatusOfType ==
  ASSUME NEW p \in Ending
  PROVE  StatusOf(p) \in {"DELIVERED", "FAILED", "DEAD_LETTER"}
BY DEF StatusOf, Ending

\* The step of a worker on one event changes the row only if it owns it.
LEMMA OnEventTable ==
  ASSUME NEW w \in Worker, NEW e \in Event, OnEvent(w, e)
  PROVE  /\ UNCHANGED <<attempts, lapsed>>
         /\ \/ UNCHANGED table
            \/ /\ phase[w][e] \in Ending
               /\ token[e] = hold[w]
               /\ Record(w, e)
               /\ Release(w, e)
               /\ UNCHANGED <<sent, faults>>
BY DEF OnEvent, ReadContent, Dispatch, Finish, FinishFails, table, outside, Owns

LEMMA RowStep ==
  ASSUME TypeOK, RowInv, [Next]_vars
  PROVE  RowInv'
<1> USE DEF RowInv, Absent, Open, Terminal
<1>1. CASE AssignProvider
  <2> SUFFICES ASSUME NEW e \in Event
               PROVE  /\ status'[e] \in Absent => rows'[e] = <<>> /\ attempts'[e] = 0
                      /\ status'[e] = "PENDING" => attempts'[e] = 0
                      /\ status'[e] \notin {"PENDING", "PROCESSING"} => token'[e] = NoToken
                      /\ status'[e] = "PROCESSING" => token'[e] # NoToken
    OBVIOUS
  <2> QED
    BY <1>1 DEF AssignProvider
<1>2. ASSUME NEW e \in Event, Publish(e) PROVE RowInv'
  BY <1>2 DEF Publish, TypeOK
<1>3. ASSUME NEW w \in Worker, NEW S \in SUBSET Claimable, ClaimBatch(w, S) PROVE RowInv'
  BY <1>3, FreshIsNew DEF ClaimBatch
<1>4. ASSUME NEW w \in Worker, NEW e \in Event, OnEvent(w, e) PROVE RowInv'
  <2>1. CASE UNCHANGED table
    BY <2>1 DEF table
  <2>2. CASE phase[w][e] \in Ending /\ token[e] = hold[w] /\ Record(w, e) /\ UNCHANGED attempts
    <3>1. StatusOf(phase[w][e]) \in {"DELIVERED", "FAILED", "DEAD_LETTER"}
      BY <2>2, StatusOfType
    <3>2. /\ status' = [status EXCEPT ![e] = StatusOf(phase[w][e])]
          /\ token' = [token EXCEPT ![e] = NoToken]
          /\ \A f \in Event \ {e} : rows'[f] = rows[f]
          /\ UNCHANGED attempts
      BY <2>2 DEF Record, TypeOK
    <3> QED
      BY <3>1, <3>2 DEF TypeOK
  <2> QED
    BY <1>4, <2>1, <2>2, OnEventTable
<1>5. ASSUME NEW w \in Worker, NEW S \in SUBSET Event, Cleanup(w, S) PROVE RowInv'
  BY <1>5 DEF Cleanup
<1>6. CASE UNCHANGED <<status, attempts, token, rows>>
  BY <1>6
<1> QED
  BY <1>1, <1>2, <1>3, <1>4, <1>5, <1>6, StepCases
     DEF Crash, LeaseOutlived, LeaseLapses, table

LEMMA LedgerStep ==
  ASSUME TypeOK, RowInv, AttemptLedger, [Next]_vars
  PROVE  AttemptLedger'
<1> USE DEF AttemptLedger
<1>1. CASE AssignProvider
  BY <1>1 DEF AssignProvider, RowInv, TypeOK, Absent
<1>2. ASSUME NEW w \in Worker, NEW S \in SUBSET Claimable, ClaimBatch(w, S)
      PROVE  AttemptLedger'
  <2> SUFFICES ASSUME NEW e \in Event
               PROVE  /\ attempts'[e] <= Len(rows'[e])
                      /\ e \notin Reminder => attempts'[e] = Len(rows'[e])
    OBVIOUS
  <2>1. rows[e] \in Seq(Result) /\ "PROCESSING" \in Result
    BY DEF TypeOK, Result
  <2>2. Len(Append(rows[e], "PROCESSING")) = Len(rows[e]) + 1
    BY <2>1
  <2>3. /\ attempts'[e] = IF e \in S THEN attempts[e] + 1 ELSE attempts[e]
        /\ rows'[e] = IF e \in S THEN Append(rows[e], "PROCESSING") ELSE rows[e]
    BY <1>2 DEF ClaimBatch
  <2> QED
    BY <2>1, <2>2, <2>3 DEF TypeOK
<1>3. ASSUME NEW w \in Worker, NEW e \in Event, OnEvent(w, e)
      PROVE  AttemptLedger'
  <2>1. CASE UNCHANGED table
    BY <2>1 DEF table
  <2>2. CASE Record(w, e) /\ UNCHANGED attempts
    <3>1. \A f \in Event : Len(rows'[f]) = Len(rows[f])
      BY <2>2 DEF Record, TypeOK
    <3> QED
      BY <2>2, <3>1
  <2> QED
    BY <1>3, <2>1, <2>2, OnEventTable
<1>4. ASSUME NEW w \in Worker, NEW S \in SUBSET Event, Cleanup(w, S)
      PROVE  AttemptLedger'
  BY <1>4 DEF Cleanup, TypeOK
<1>5. CASE UNCHANGED <<attempts, rows>>
  BY <1>5
<1> QED
  BY <1>1, <1>2, <1>3, <1>4, <1>5, StepCases
     DEF Publish, Crash, LeaseOutlived, LeaseLapses, table

\* Who holds what after a step on one event: nobody new, under the same token
\* and at the same attempt.
LEMMA OnEventHolders ==
  ASSUME TypeOK, NEW w \in Worker, NEW e \in Event, OnEvent(w, e),
         NEW v \in Worker, NEW f \in Event
  PROVE  /\ Holds(v, f)' => Holds(v, f) /\ hold'[v] = hold[v] /\ tried'[v][f] = tried[v][f]
         /\ v # w \/ f # e => phase'[v][f] = phase[v][f]
<1> USE DEF TypeOK, Holds
<1>1. CASE UNCHANGED <<hold, tried>> /\ \E p \in Phase \ {"none"} : phase' = [phase EXCEPT ![w][e] = p]
  BY <1>1, OnEventMemory
<1>2. CASE Release(w, e)
  BY <1>2 DEF Release
<1> QED
  BY <1>1, <1>2, OnEventMemory

\* A claimed event has had all its attempts recorded, and any worker that
\* still has it in a batch has outlived its lease.
LEMMA ClaimFacts ==
  ASSUME TypeOK, RowInv, AttemptLedger, HeldInv, LeaseInv,
         NEW w \in Worker, NEW S \in SUBSET Claimable, ClaimBatch(w, S), NEW e \in S
  PROVE  /\ e \in Event
         /\ status[e] \in Open
         /\ attempts[e] = Len(rows[e])
         /\ \A v \in Worker : Holds(v, e) => hold[v] \in lapsed
<1>1. e \in Event /\ status[e] \in Open
  BY DEF Claimable, Open
<1>2. rows[e] \in Seq(Result) /\ attempts[e] \in Nat
  BY <1>1 DEF TypeOK
<1>3. attempts[e] = Len(rows[e])
  <2>1. attempts[e] + 1 \notin DOMAIN rows[e]
    BY DEF ClaimBatch, Recorded
  <2>2. DOMAIN rows[e] = 1..Len(rows[e]) /\ Len(rows[e]) \in Nat
    BY <1>2
  <2>3. attempts[e] <= Len(rows[e])
    BY <1>1 DEF AttemptLedger
  <2> QED
    BY <1>2, <2>1, <2>2, <2>3
<1>4. ASSUME NEW v \in Worker, Holds(v, e), hold[v] \notin lapsed PROVE FALSE
  <2>1. token[e] = hold[v] /\ status[e] \in {"PENDING", "PROCESSING"}
    BY <1>1, <1>4 DEF LeaseInv
  <2>2. CASE status[e] = "PENDING"
    BY <1>1, <1>3, <1>4, <2>1, <2>2 DEF RowInv, HeldInv
  <2>3. CASE status[e] = "PROCESSING"
    BY <1>4, <2>1, <2>3 DEF Claimable
  <2> QED
    BY <2>1, <2>2, <2>3
<1> QED
  BY <1>1, <1>3, <1>4

LEMMA HeldStep ==
  ASSUME TypeOK, TokenInv, RowInv, AttemptLedger, HeldInv, LeaseInv, [Next]_vars
  PROVE  HeldInv'
<1> SUFFICES ASSUME NEW v \in Worker, NEW f \in Event, Holds(v, f)', token'[f] = hold'[v]
             PROVE  /\ Len(rows'[f]) > 0
                    /\ tried'[v][f] = Len(rows'[f])
                    /\ rows'[f][Len(rows'[f])] = "PROCESSING"
                    /\ phase'[v][f] = "delivered" /\ f \notin InApp
                         => tried'[v][f] \in sent'[f]
  BY DEF HeldInv
<1> DEFINE AtLast == /\ Len(rows'[f]) > 0
                     /\ tried'[v][f] = Len(rows'[f])
                     /\ rows'[f][Len(rows'[f])] = "PROCESSING"
                     /\ phase'[v][f] = "delivered" /\ f \notin InApp
                          => tried'[v][f] \in sent'[f]
<1>0. rows[f] \in Seq(Result) /\ Len(rows[f]) \in Nat
  BY DEF TypeOK
<1>1. CASE AssignProvider
  <2>1. Holds(v, f) /\ token[f] = hold[v]
    BY <1>1 DEF AssignProvider, Holds, memory
  <2>2. status[f] \notin Absent
    BY <2>1 DEF TokenInv, RowInv, Absent
  <2> QED
    BY <1>1, <2>1, <2>2 DEF AssignProvider, HeldInv, memory
<1>2. ASSUME NEW e \in Event, Publish(e) PROVE AtLast
  BY <1>2 DEF Publish, HeldInv, Holds, memory, outside
<1>3. ASSUME NEW w \in Worker, NEW S \in SUBSET Claimable, ClaimBatch(w, S)
      PROVE  AtLast
  <2>1. CASE v = w
    <3>1. f \in S /\ phase'[v][f] = "claimed" /\ tried'[v][f] = attempts[f] + 1
      BY <1>3, <2>1 DEF ClaimBatch, Holds, TypeOK
    <3>2. rows'[f] = Append(rows[f], "PROCESSING") /\ attempts[f] = Len(rows[f])
      BY <1>3, <3>1, ClaimFacts DEF ClaimBatch
    <3>3. Len(rows'[f]) = Len(rows[f]) + 1 /\ rows'[f][Len(rows[f]) + 1] = "PROCESSING"
      BY <1>0, <3>2 DEF Result
    <3> QED
      BY <1>0, <3>1, <3>2, <3>3
  <2>2. CASE v # w
    <3>1. Holds(v, f) /\ phase'[v][f] = phase[v][f] /\ hold'[v] = hold[v] /\ tried'[v][f] = tried[v][f]
      BY <1>3, <2>2 DEF ClaimBatch, Holds, TypeOK
    <3>2. f \notin S
      BY <1>3, <3>1, FreshIsNew DEF ClaimBatch
    <3>3. token[f] = hold[v] /\ rows'[f] = rows[f] /\ sent' = sent
      BY <1>3, <3>1, <3>2 DEF ClaimBatch
    <3> QED
      BY <3>1, <3>3 DEF HeldInv
  <2> QED
    BY <2>1, <2>2
<1>4. ASSUME NEW w \in Worker, NEW e \in Event, OnEvent(w, e) PROVE AtLast
  <2>1. Holds(v, f) /\ hold'[v] = hold[v] /\ tried'[v][f] = tried[v][f]
    BY <1>4, OnEventHolders
  <2>2. hold[v] # NoToken
    BY <2>1 DEF TokenInv
  <2>3. rows'[f] = rows[f] /\ token'[f] = token[f]
    <3>1. CASE UNCHANGED table
      BY <3>1 DEF table
    <3>2. CASE Record(w, e) /\ token[e] = hold[w]
      <4>1. f # e
        BY <2>1, <2>2, <3>2 DEF Record, TypeOK
      <4> QED
        BY <3>2, <4>1 DEF Record, TypeOK
    <3> QED
      BY <1>4, <3>1, <3>2, OnEventTable
  <2>4. /\ Len(rows[f]) > 0
        /\ tried[v][f] = Len(rows[f])
        /\ rows[f][Len(rows[f])] = "PROCESSING"
        /\ phase[v][f] = "delivered" /\ f \notin InApp => tried[v][f] \in sent[f]
    BY <2>1, <2>3 DEF HeldInv
  <2>5. sent[f] \subseteq sent'[f]
    <3>1. CASE UNCHANGED sent
      BY <3>1
    <3>2. CASE Accepted(w, e)
      BY <3>2 DEF Accepted, TypeOK
    <3> QED
      BY <1>4, <3>1, <3>2 DEF OnEvent, ReadContent, Dispatch, Finish, FinishFails, outside
  <2>6. CASE v = w /\ f = e
    <3>1. phase'[w][e] = "delivered" /\ e \notin InApp => tried[w][e] \in sent'[e]
      <4>0. CASE \E p \in Phase \ {"delivered"} : Move(w, e, p)
        BY <4>0 DEF Move, TypeOK
      <4>1. CASE ReadContent(w, e)
        BY <4>0, <4>1, RetryPhaseType DEF ReadContent, Phase, Ending
      <4>2. CASE Dispatch(w, e)
        <5>1. CASE Accepted(w, e)
          BY <5>1 DEF Accepted, TypeOK
        <5> QED
          BY <4>0, <4>2, <5>1, RetryPhaseType DEF Dispatch, Phase, Ending
      <4>3. CASE Finish(w, e)
        BY <4>3 DEF Finish, Release, TypeOK
      <4>4. CASE FinishFails(w, e)
        <5>1. CASE Release(w, e)
          BY <5>1 DEF Release, TypeOK
        <5> QED
          BY <4>0, <4>4, <5>1, RetryPhaseType DEF FinishFails, Phase, Ending
      <4> QED
        BY <1>4, <4>1, <4>2, <4>3, <4>4 DEF OnEvent
    <3> QED
      BY <2>1, <2>3, <2>4, <2>6, <3>1
  <2>7. CASE v # w \/ f # e
    BY <1>4, <2>1, <2>3, <2>4, <2>5, <2>7, OnEventHolders
  <2> QED
    BY <2>6, <2>7
<1>5. ASSUME NEW w \in Worker, NEW S \in SUBSET Event, Cleanup(w, S) PROVE AtLast
  <2>1. Holds(v, f) /\ token[f] = hold[v] /\ token[f] # NoToken
    BY <1>5 DEF Cleanup, TokenInv, Holds, memory
  <2>2. f \notin S
    BY <1>5, <2>1 DEF Cleanup, RowInv, Terminal
  <2>3. UNCHANGED <<sent, phase, tried, hold>> /\ rows'[f] = rows[f]
    BY <1>5, <2>2 DEF Cleanup, memory, outside
  <2> QED
    BY <2>1, <2>3 DEF HeldInv
<1>6. ASSUME NEW w \in Worker, Crash(w) PROVE AtLast
  BY <1>6 DEF Crash, HeldInv, Holds, TypeOK, table
<1>7. CASE UNCHANGED <<token, rows, sent, hold, phase, tried>>
  BY <1>7 DEF HeldInv, Holds
<1> QED
  BY <1>1, <1>2, <1>3, <1>4, <1>5, <1>6, <1>7, StepCases
     DEF LeaseOutlived, LeaseLapses, table, memory

\* A step on one event leaves every other row alone, and any row whose token
\* is not the worker's.
LEMMA OnEventOtherRows ==
  ASSUME TypeOK, NEW w \in Worker, NEW e \in Event, OnEvent(w, e),
         NEW f \in Event, f # e \/ token[f] # hold[w]
  PROVE  UNCHANGED <<status[f], attempts[f], token[f], rows[f]>>
<1>1. CASE UNCHANGED table
  BY <1>1 DEF table
<1>2. CASE Record(w, e) /\ token[e] = hold[w] /\ UNCHANGED attempts
  BY <1>2 DEF Record, TypeOK
<1> QED
  BY <1>1, <1>2, OnEventTable

LEMMA LeaseStep ==
  ASSUME TypeOK, TokenInv, RowInv, AttemptLedger, HeldInv, LeaseInv, [Next]_vars
  PROVE  LeaseInv'
<1> SUFFICES ASSUME NEW v \in Worker, NEW f \in Event, Holds(v, f)', hold'[v] \notin lapsed'
             PROVE  token'[f] = hold'[v] /\ status'[f] \in {"PENDING", "PROCESSING"}
  BY DEF LeaseInv
<1> DEFINE Kept == token'[f] = hold'[v] /\ status'[f] \in {"PENDING", "PROCESSING"}
<1>1. CASE AssignProvider
  <2>1. token[f] = hold[v] /\ status[f] \in {"PENDING", "PROCESSING"}
    BY <1>1 DEF AssignProvider, LeaseInv, Holds, memory
  <2> QED
    BY <1>1, <2>1 DEF AssignProvider, memory
<1>2. ASSUME NEW e \in Event, Publish(e) PROVE Kept
  <2>1. token[f] = hold[v] /\ status[f] \in {"PENDING", "PROCESSING"}
    BY <1>2 DEF Publish, LeaseInv, Holds, memory, outside
  <2> QED
    BY <1>2, <2>1 DEF Publish, memory, TypeOK
<1>3. ASSUME NEW w \in Worker, NEW S \in SUBSET Claimable, ClaimBatch(w, S)
      PROVE  Kept
  <2>1. CASE v = w
    BY <1>3, <2>1 DEF ClaimBatch, Holds, TypeOK
  <2>2. CASE v # w
    <3>1. Holds(v, f) /\ hold'[v] = hold[v] /\ hold[v] # Fresh
      BY <1>3, <2>2, FreshIsNew DEF ClaimBatch, Holds, TypeOK
    <3>2. hold[v] \notin lapsed
      BY <1>3, <3>1 DEF ClaimBatch
    <3>3. f \notin S
      BY <1>3, <3>1, <3>2, ClaimFacts
    <3> QED
      BY <1>3, <3>1, <3>2, <3>3 DEF ClaimBatch, LeaseInv
  <2> QED
    BY <2>1, <2>2
<1>4. ASSUME NEW w \in Worker, NEW e \in Event, OnEvent(w, e) PROVE Kept
  <2>1. Holds(v, f) /\ hold'[v] = hold[v] /\ hold[v] # NoToken /\ lapsed' = lapsed
    BY <1>4, OnEventHolders, OnEventTable DEF TokenInv
  <2>2. token[f] = hold[v] /\ status[f] \in {"PENDING", "PROCESSING"}
    BY <2>1 DEF LeaseInv
  <2>3. CASE f # e \/ v # w
    BY <1>4, <2>1, <2>2, <2>3, OnEventOtherRows DEF TokenInv
  <2>4. CASE f = e /\ v = w
    <3>1. ~Release(w, e)
      BY <2>4 DEF Release, Holds, TypeOK
    <3> QED
      BY <1>4, <2>1, <2>2, <2>4, <3>1, OnEventTable DEF table
  <2> QED
    BY <2>3, <2>4
<1>5. ASSUME NEW w \in Worker, NEW S \in SUBSET Event, Cleanup(w, S) PROVE Kept
  <2>1. token[f] = hold[v] /\ status[f] \in {"PENDING", "PROCESSING"}
    BY <1>5 DEF Cleanup, LeaseInv, Holds, memory, outside
  <2> QED
    BY <1>5, <2>1 DEF Cleanup, memory, Terminal
<1>6. ASSUME NEW w \in Worker, Crash(w) \/ LeaseOutlived(w) PROVE Kept
  <2>1. /\ Holds(v, f) /\ hold'[v] = hold[v] /\ hold[v] \notin lapsed
        /\ UNCHANGED <<status, token>>
    <3>1. CASE Crash(w)
      BY <3>1 DEF Crash, Holds, TypeOK, table
    <3>2. CASE LeaseOutlived(w)
      BY <3>2 DEF LeaseOutlived, Holds, table, memory
    <3> QED
      BY <1>6, <3>1, <3>2
  <2> QED
    BY <2>1 DEF LeaseInv
<1>7. ASSUME NEW t \in Token, LeaseLapses(t) PROVE Kept
  BY <1>7 DEF LeaseLapses, LeaseInv, Holds, table, memory
<1>8. CASE UNCHANGED <<token, status, lapsed, hold, phase>>
  BY <1>8 DEF LeaseInv, Holds
<1> QED
  BY <1>1, <1>2, <1>3, <1>4, <1>5, <1>6, <1>7, <1>8, StepCases

\* A worker that may still record its event is at the row's last attempt.
LEMMA RecordFacts ==
  ASSUME TypeOK, TokenInv, AttemptLedger, HeldInv,
         NEW w \in Worker, NEW e \in Event, phase[w][e] \in Ending, token[e] = hold[w]
  PROVE  /\ tried[w][e] = Len(rows[e])
         /\ Len(rows[e]) > 0
         /\ attempts[e] <= tried[w][e]
         /\ hold[w] # NoToken
BY DEF HeldInv, TokenInv, AttemptLedger, Holds, Ending

LEMMA TransientStep ==
  ASSUME TypeOK, BudgetInv, [Next]_vars
  PROVE  \A w \in Worker, e \in Event :
           phase'[w][e] = "transient" => tried'[w][e] < MaxAttempts
<1> SUFFICES ASSUME NEW v \in Worker, NEW f \in Event, phase'[v][f] = "transient"
             PROVE  tried'[v][f] < MaxAttempts
  OBVIOUS
<1>1. ASSUME NEW w \in Worker, NEW S \in SUBSET Claimable, ClaimBatch(w, S)
      PROVE  tried'[v][f] < MaxAttempts
  BY <1>1 DEF ClaimBatch, BudgetInv, TypeOK
<1>2. ASSUME NEW w \in Worker, NEW e \in Event, OnEvent(w, e)
      PROVE  tried'[v][f] < MaxAttempts
  <2>1. tried'[v][f] = tried[v][f]
    BY <1>2, OnEventHolders DEF Holds
  <2>2. CASE v # w \/ f # e
    BY <1>2, <2>1, <2>2, OnEventHolders DEF BudgetInv
  <2>3. CASE v = w /\ f = e
    <3>1. CASE \E p \in Phase \ {"transient"} : Move(w, e, p)
      BY <2>3, <3>1 DEF Move, TypeOK
    <3>2. CASE Release(w, e)
      BY <2>3, <3>2 DEF Release, TypeOK
    <3>3. CASE Move(w, e, RetryPhase(w, e))
      <4>1. RetryPhase(w, e) = "transient"
        BY <2>3, <3>3 DEF Move, TypeOK
      <4>2. tried[w][e] \in Nat /\ MaxAttempts \in Nat
        BY OutboxAssumption DEF TypeOK
      <4> QED
        BY <2>1, <2>3, <4>1, <4>2 DEF RetryPhase
    <3>4. CASE ReadContent(w, e)
      BY <3>1, <3>3, <3>4 DEF ReadContent, Phase, Ending
    <3>5. CASE Dispatch(w, e)
      BY <3>1, <3>3, <3>5 DEF Dispatch, Phase, Ending
    <3> QED
      BY <1>2, <3>2, <3>3, <3>4, <3>5 DEF OnEvent, Finish, FinishFails
  <2> QED
    BY <2>2, <2>3
<1>3. ASSUME NEW w \in Worker, Crash(w) PROVE tried'[v][f] < MaxAttempts
  BY <1>3 DEF Crash, BudgetInv, TypeOK
<1>4. CASE UNCHANGED <<phase, tried>>
  BY <1>4 DEF BudgetInv
<1> QED
  BY <1>1, <1>2, <1>3, <1>4, StepCases
     DEF AssignProvider, Publish, Cleanup, LeaseOutlived, LeaseLapses, memory

LEMMA RetryStep ==
  ASSUME TypeOK, TokenInv, RowInv, AttemptLedger, HeldInv, BudgetInv, RetryBudget, [Next]_vars
  PROVE  RetryBudget'
<1> SUFFICES ASSUME NEW f \in Event
             PROVE  /\ status'[f] = "FAILED" => attempts'[f] < MaxAttempts
                    /\ attempts'[f] <= MaxAttempts + faults'
  BY DEF RetryBudget
<1> DEFINE Within == /\ status'[f] = "FAILED" => attempts'[f] < MaxAttempts
                     /\ attempts'[f] <= MaxAttempts + faults'
<1>0. /\ attempts[f] \in Nat /\ faults \in Nat /\ MaxAttempts \in Nat \ {0}
      /\ status[f] = "FAILED" => attempts[f] < MaxAttempts
      /\ attempts[f] <= MaxAttempts + faults
  BY OutboxAssumption DEF TypeOK, RetryBudget
<1>1. CASE AssignProvider
  BY <1>0, <1>1 DEF AssignProvider
<1>2. ASSUME NEW e \in Event, Publish(e) PROVE Within
  BY <1>0, <1>2 DEF Publish, TypeOK, outside
<1>3. ASSUME NEW w \in Worker, NEW S \in SUBSET Claimable, ClaimBatch(w, S)
      PROVE  Within
  <2>1. CASE f \in S
    <3>1. status[f] \in Open
      BY <2>1 DEF Claimable, Open
    <3>2. \A v \in Worker : ~Current(v, f)
      BY <2>1 DEF Claimable, Current
    <3>3. attempts[f] < MaxAttempts + faults
      BY <3>1, <3>2 DEF BudgetInv
    <3> QED
      BY <1>0, <1>3, <2>1, <3>3 DEF ClaimBatch
  <2>2. CASE f \notin S
    BY <1>0, <1>3, <2>2 DEF ClaimBatch
  <2> QED
    BY <2>1, <2>2
<1>4. ASSUME NEW w \in Worker, NEW e \in Event, OnEvent(w, e) PROVE Within
  <2>0. faults' \in Nat /\ faults <= faults' /\ attempts' = attempts
    <3>1. attempts' = attempts /\ faults' \in {faults, faults + 1}
      BY <1>4, OnEventTable DEF OnEvent, ReadContent, Dispatch, Finish, FinishFails, outside
    <3> QED
      BY <1>0, <3>1
  <2>1. CASE UNCHANGED table
    BY <1>0, <2>0, <2>1 DEF table
  <2>2. CASE phase[w][e] \in Ending /\ token[e] = hold[w] /\ Record(w, e)
    <3>1. CASE f = e /\ phase[w][e] = "transient"
      <4>1. attempts[e] <= tried[w][e] /\ tried[w][e] < MaxAttempts
        BY <2>2, <3>1, RecordFacts DEF BudgetInv
      <4>2. tried[w][e] \in Nat
        BY DEF TypeOK
      <4> QED
        BY <1>0, <2>0, <3>1, <4>1, <4>2
    <3>2. CASE f = e /\ phase[w][e] # "transient"
      <4>1. status'[f] # "FAILED"
        BY <2>2, <3>2 DEF Record, StatusOf, TypeOK
      <4> QED
        BY <1>0, <2>0, <4>1
    <3>3. CASE f # e
      BY <1>0, <2>0, <2>2, <3>3 DEF Record, TypeOK
    <3> QED
      BY <3>1, <3>2, <3>3
  <2> QED
    BY <1>4, <2>1, <2>2, OnEventTable
<1>5. ASSUME NEW w \in Worker, NEW S \in SUBSET Event, Cleanup(w, S) PROVE Within
  BY <1>0, <1>5 DEF Cleanup, outside
<1>6. ASSUME NEW w \in Worker, Crash(w) \/ LeaseOutlived(w) PROVE Within
  BY <1>0, <1>6 DEF Crash, LeaseOutlived, table
<1>7. CASE UNCHANGED <<status, attempts, faults>>
  BY <1>0, <1>7
<1> QED
  BY <1>1, <1>2, <1>3, <1>4, <1>5, <1>6, <1>7, StepCases DEF LeaseLapses, table

LEMMA BudgetStep ==
  ASSUME TypeOK, TokenInv, RowInv, AttemptLedger, HeldInv, BudgetInv, RetryBudget, [Next]_vars
  PROVE  BudgetInv'
<1> SUFFICES ASSUME NEW f \in Event, status'[f] \in Open, \A v \in Worker : ~Current(v, f)'
             PROVE  attempts'[f] < MaxAttempts + faults'
  BY TransientStep DEF BudgetInv
<1> DEFINE Spare == attempts'[f] < MaxAttempts + faults'
<1>0. /\ attempts[f] \in Nat /\ faults \in Nat /\ MaxAttempts \in Nat \ {0}
      /\ attempts[f] <= MaxAttempts + faults
      /\ status[f] \in Open /\ (\A v \in Worker : ~Current(v, f))
           => attempts[f] < MaxAttempts + faults
  BY OutboxAssumption DEF TypeOK, RetryBudget, BudgetInv
<1>1. CASE AssignProvider
  BY <1>0, <1>1 DEF AssignProvider, Current, Holds, memory
<1>2. ASSUME NEW e \in Event, Publish(e) PROVE Spare
  BY <1>0, <1>2 DEF Publish, TypeOK, RowInv, Current, Holds, memory, outside, Absent
<1>3. ASSUME NEW w \in Worker, NEW S \in SUBSET Claimable, ClaimBatch(w, S)
      PROVE  Spare
  <2>1. f \notin S
    BY <1>3 DEF ClaimBatch, Current, Holds, TypeOK
  <2>2. ASSUME NEW v \in Worker, Current(v, f) PROVE FALSE
    <3>1. v # w
      BY <1>3, <2>2 DEF ClaimBatch, Idle, Current, TokenInv
    <3>2. Current(v, f)'
      BY <1>3, <2>1, <2>2, <3>1 DEF ClaimBatch, Current, Holds, TypeOK
    <3> QED
      BY <3>2
  <2> QED
    BY <1>0, <1>3, <2>1, <2>2 DEF ClaimBatch
<1>4. ASSUME NEW w \in Worker, NEW e \in Event, OnEvent(w, e) PROVE Spare
  <2>0. attempts' = attempts /\ lapsed' = lapsed /\ faults' \in {faults, faults + 1}
    BY <1>4, OnEventTable DEF OnEvent, ReadContent, Dispatch, Finish, FinishFails, outside
  <2>1. CASE faults' = faults + 1
    BY <1>0, <2>0, <2>1
  <2>2. CASE faults' = faults /\ UNCHANGED table /\ ~Release(w, e)
    <3>1. ASSUME NEW v \in Worker, Current(v, f) PROVE FALSE
      <4>1. /\ \E p \in Phase \ {"none"} : phase' = [phase EXCEPT ![w][e] = p]
            /\ UNCHANGED hold
        BY <1>4, <2>2, OnEventMemory
      <4>2. phase'[v][f] # "none"
        BY <3>1, <4>1 DEF Current, Holds, TypeOK
      <4> QED
        BY <2>0, <2>2, <3>1, <4>1, <4>2 DEF Current, Holds, table
    <3> QED
      BY <1>0, <2>0, <2>2, <3>1 DEF table
  <2>3. CASE Finish(w, e) /\ (f # e \/ token[e] # hold[w])
    <3>1. UNCHANGED <<status[f], attempts[f], token[f]>>
      BY <1>4, <2>3, OnEventOtherRows
    <3>2. ASSUME NEW v \in Worker, Current(v, f) PROVE FALSE
      <4>1. v # w \/ f # e
        BY <2>3, <3>2 DEF Current
      <4>2. Holds(v, f)' /\ hold'[v] = hold[v]
        BY <2>3, <3>2, <4>1 DEF Finish, Release, Current, Holds, TypeOK
      <4> QED
        BY <2>0, <3>1, <3>2, <4>2 DEF Current
    <3> QED
      BY <1>0, <2>0, <2>3, <3>1, <3>2 DEF Finish, outside
  <2>4. CASE Finish(w, e) /\ f = e /\ token[e] = hold[w]
    <3>1. phase[w][e] \in Ending /\ status'[e] = StatusOf(phase[w][e])
      BY <2>4 DEF Finish, Owns, Record, TypeOK
    <3>2. phase[w][e] = "transient"
      BY <2>4, <3>1 DEF StatusOf, Open, Ending
    <3>3. attempts[e] <= tried[w][e] /\ tried[w][e] < MaxAttempts /\ tried[w][e] \in Nat
      BY <2>4, <3>1, <3>2, RecordFacts DEF BudgetInv, TypeOK
    <3> QED
      BY <1>0, <2>0, <2>4, <3>3 DEF Finish, outside
  <2> QED
    <3>1. CASE ReadContent(w, e) \/ Dispatch(w, e)
      <4>1. UNCHANGED hold /\ phase'[w][e] # "none" /\ UNCHANGED table /\ faults' = faults
        <5>1. \E p \in Phase \ {"none"} : Move(w, e, p)
          BY <3>1, RetryPhaseType DEF ReadContent, Dispatch, Phase, Ending
        <5>2. phase'[w][e] # "none"
          BY <5>1 DEF Move, TypeOK
        <5> QED
          BY <3>1, <5>2 DEF ReadContent, Dispatch, outside
      <4>2. ~Release(w, e)
        BY <4>1 DEF Release, TypeOK
      <4> QED
        BY <2>2, <4>1, <4>2
    <3>2. CASE FinishFails(w, e)
      BY <2>1, <3>2 DEF FinishFails
    <3> QED
      BY <1>4, <2>3, <2>4, <3>1, <3>2 DEF OnEvent
<1>5. ASSUME NEW w \in Worker, NEW S \in SUBSET Event, Cleanup(w, S) PROVE Spare
  BY <1>0, <1>5 DEF Cleanup, Current, Holds, Open, memory, outside
<1>6. ASSUME NEW w \in Worker, Crash(w) \/ LeaseOutlived(w) PROVE Spare
  BY <1>0, <1>6 DEF Crash, LeaseOutlived, table
<1>7. ASSUME NEW t \in Token, LeaseLapses(t) PROVE Spare
  BY <1>0, <1>7 DEF LeaseLapses, Current, Holds, table, memory
<1>8. CASE UNCHANGED <<status, attempts, token, lapsed, hold, phase, faults>>
  BY <1>0, <1>8 DEF Current, Holds
<1> QED
  BY <1>1, <1>2, <1>3, <1>4, <1>5, <1>6, <1>7, <1>8, StepCases

LEMMA LastResultStep ==
  ASSUME TypeOK, TokenInv, RowInv, AttemptLedger, HeldInv, LeaseInv, StatusIsLastResult,
         [Next]_vars
  PROVE  StatusIsLastResult'
<1> SUFFICES ASSUME NEW f \in Event
             PROVE  LET n == Len(rows'[f]) IN
                    /\ \A i \in 1..(n - 1) : rows'[f][i] # "DELIVERED"
                    /\ status'[f] = "PROCESSING" => n > 0 /\ rows'[f][n] = "PROCESSING"
                    /\ status'[f] = "FAILED" => n > 0 /\ rows'[f][n] = "TRANSIENT_FAILURE"
                    /\ status'[f] = "DELIVERED" => n > 0 /\ rows'[f][n] = "DELIVERED"
                    /\ status'[f] = "DEAD_LETTER" => n > 0 /\ rows'[f][n] = "PERMANENT_FAILURE"
  BY DEF StatusIsLastResult
<1> DEFINE Agrees(s, r) ==
       /\ \A i \in 1..(Len(r) - 1) : r[i] # "DELIVERED"
       /\ s = "PROCESSING" => Len(r) > 0 /\ r[Len(r)] = "PROCESSING"
       /\ s = "FAILED" => Len(r) > 0 /\ r[Len(r)] = "TRANSIENT_FAILURE"
       /\ s = "DELIVERED" => Len(r) > 0 /\ r[Len(r)] = "DELIVERED"
       /\ s = "DEAD_LETTER" => Len(r) > 0 /\ r[Len(r)] = "PERMANENT_FAILURE"
     Now == Agrees(status'[f], rows'[f])
<1>0. Agrees(status[f], rows[f]) /\ rows[f] \in Seq(Result) /\ Len(rows[f]) \in Nat
  BY DEF StatusIsLastResult, TypeOK
<1>1. CASE AssignProvider
  BY <1>0, <1>1 DEF AssignProvider
<1>2. ASSUME NEW e \in Event, Publish(e) PROVE Now
  BY <1>0, <1>2 DEF Publish, TypeOK
<1>3. ASSUME NEW w \in Worker, NEW S \in SUBSET Claimable, ClaimBatch(w, S)
      PROVE  Now
  <2>1. CASE f \notin S
    BY <1>0, <1>3, <2>1 DEF ClaimBatch
  <2>2. CASE f \in S
    <3>1. status'[f] = "PROCESSING" /\ rows'[f] = Append(rows[f], "PROCESSING")
      BY <1>3, <2>2 DEF ClaimBatch
    <3>2. attempts[f] = Len(rows[f]) /\ status[f] \in Open
      BY <1>3, <2>2, ClaimFacts
    <3>3. ASSUME Len(rows[f]) > 0 PROVE rows[f][Len(rows[f])] # "DELIVERED"
      BY <1>0, <3>2, <3>3 DEF Open, RowInv
    <3>4. /\ Len(rows'[f]) = Len(rows[f]) + 1
          /\ rows'[f][Len(rows[f]) + 1] = "PROCESSING"
          /\ \A i \in 1..Len(rows[f]) : rows'[f][i] = rows[f][i]
      BY <1>0, <3>1 DEF Result
    <3>5. \A i \in 1..Len(rows[f]) : rows[f][i] # "DELIVERED"
      BY <1>0, <3>3
    <3> QED
      BY <1>0, <3>1, <3>4, <3>5
  <2> QED
    BY <2>1, <2>2
<1>4. ASSUME NEW w \in Worker, NEW e \in Event, OnEvent(w, e) PROVE Now
  <2>1. CASE f # e \/ UNCHANGED table
    BY <1>0, <1>4, <2>1, OnEventOtherRows DEF table
  <2>2. CASE f = e /\ phase[w][e] \in Ending /\ token[e] = hold[w] /\ Record(w, e)
    <3>1. tried[w][f] = Len(rows[f]) /\ Len(rows[f]) > 0
      BY <2>2, RecordFacts
    <3>2. /\ status'[f] = StatusOf(phase[w][f])
          /\ rows'[f] = [rows[f] EXCEPT ![Len(rows[f])] = ResultOf(phase[w][f])]
      BY <2>2, <3>1 DEF Record, TypeOK
    <3>3. /\ Len(rows'[f]) = Len(rows[f])
          /\ rows'[f][Len(rows[f])] = ResultOf(phase[w][f])
          /\ \A i \in 1..(Len(rows[f]) - 1) : rows'[f][i] = rows[f][i]
      BY <1>0, <3>1, <3>2
    <3>4. Len(rows'[f]) > 0 /\ \A i \in 1..(Len(rows'[f]) - 1) : rows'[f][i] # "DELIVERED"
      BY <1>0, <3>1, <3>3
    <3> QED
      BY <2>2, <3>2, <3>3, <3>4 DEF StatusOf, ResultOf, Ending
  <2> QED
    BY <1>4, <2>1, <2>2, OnEventTable
<1>5. ASSUME NEW w \in Worker, NEW S \in SUBSET Event, Cleanup(w, S) PROVE Now
  BY <1>0, <1>5 DEF Cleanup
<1>6. CASE UNCHANGED <<status, rows>>
  BY <1>0, <1>6
<1> QED
  BY <1>1, <1>2, <1>3, <1>4, <1>5, <1>6, StepCases
     DEF Crash, LeaseOutlived, LeaseLapses, table

LEMMA HandedStep ==
  ASSUME TypeOK, TokenInv, AttemptLedger, HeldInv, DeliveredWasHandedOver, [Next]_vars
  PROVE  DeliveredWasHandedOver'
<1> SUFFICES ASSUME NEW f \in Event, status'[f] = "DELIVERED"
             PROVE  IF f \in InApp THEN f \in noted' ELSE Len(rows'[f]) \in sent'[f]
  BY DEF DeliveredWasHandedOver
<1> DEFINE Handed == IF f \in InApp THEN f \in noted' ELSE Len(rows'[f]) \in sent'[f]
<1>1. CASE AssignProvider
  BY <1>1 DEF AssignProvider, DeliveredWasHandedOver, Absent
<1>2. ASSUME NEW e \in Event, Publish(e) PROVE Handed
  BY <1>2 DEF Publish, DeliveredWasHandedOver, TypeOK, outside
<1>3. ASSUME NEW w \in Worker, NEW S \in SUBSET Claimable, ClaimBatch(w, S)
      PROVE  Handed
  BY <1>3 DEF ClaimBatch, DeliveredWasHandedOver
<1>4. ASSUME NEW w \in Worker, NEW e \in Event, OnEvent(w, e) PROVE Handed
  <2>1. CASE f # e \/ UNCHANGED table
    <3>1. UNCHANGED <<status[f], rows[f]>>
      BY <1>4, <2>1, OnEventOtherRows DEF table
    <3>2. sent[f] \subseteq sent'[f]
      <4>1. CASE UNCHANGED sent
        BY <4>1
      <4>2. CASE Accepted(w, e)
        BY <4>2 DEF Accepted, TypeOK
      <4> QED
        BY <1>4, <4>1, <4>2 DEF OnEvent, ReadContent, Dispatch, Finish, FinishFails, outside
    <3>3. f \in noted => f \in noted'
      <4>1. CASE UNCHANGED table
        BY <4>1 DEF table
      <4>2. CASE Record(w, e)
        BY <4>2 DEF Record
      <4> QED
        BY <1>4, <4>1, <4>2, OnEventTable
    <3> QED
      BY <3>1, <3>2, <3>3 DEF DeliveredWasHandedOver
  <2>2. CASE f = e /\ phase[w][e] \in Ending /\ token[e] = hold[w] /\ Record(w, e) /\ UNCHANGED sent
    <3>1. phase[w][e] = "delivered"
      BY <2>2 DEF Record, StatusOf, TypeOK
    <3>2. CASE e \in InApp
      BY <2>2, <3>1, <3>2 DEF Record
    <3>3. CASE e \notin InApp
      <4>1. Len(rows[e]) \in sent[e]
        BY <2>2, <3>1, <3>3 DEF HeldInv, Holds
      <4>2. Len(rows'[e]) = Len(rows[e])
        BY <2>2 DEF Record, TypeOK
      <4> QED
        BY <2>2, <3>3, <4>1, <4>2
    <3> QED
      BY <3>2, <3>3
  <2> QED
    BY <1>4, <2>1, <2>2, OnEventTable
<1>5. ASSUME NEW w \in Worker, NEW S \in SUBSET Event, Cleanup(w, S) PROVE Handed
  BY <1>5 DEF Cleanup, DeliveredWasHandedOver, outside
<1>6. CASE UNCHANGED <<status, rows, noted, sent>>
  BY <1>6 DEF DeliveredWasHandedOver
<1> QED
  BY <1>1, <1>2, <1>3, <1>4, <1>5, <1>6, StepCases
     DEF Crash, LeaseOutlived, LeaseLapses, table

LEMMA UnwrittenStep ==
  ASSUME TypeOK, UnwrittenInv, [Next]_vars
  PROVE  UnwrittenInv'
<1> SUFFICES ASSUME NEW f \in Event, status'[f] = "NONE"
             PROVE  sent'[f] = {} /\ f \notin noted' /\ \A v \in Worker : ~Holds(v, f)'
  BY DEF UnwrittenInv
<1> DEFINE NoTrace == sent'[f] = {} /\ f \notin noted' /\ \A v \in Worker : ~Holds(v, f)'
<1>1. CASE AssignProvider
  BY <1>1 DEF AssignProvider, UnwrittenInv, Holds, memory
<1>2. ASSUME NEW e \in Event, Publish(e) PROVE NoTrace
  BY <1>2 DEF Publish, UnwrittenInv, Holds, memory, outside, TypeOK
<1>3. ASSUME NEW w \in Worker, NEW S \in SUBSET Claimable, ClaimBatch(w, S)
      PROVE  NoTrace
  BY <1>3 DEF ClaimBatch, UnwrittenInv, Holds, TypeOK
<1>4. ASSUME NEW w \in Worker, NEW e \in Event, OnEvent(w, e) PROVE NoTrace
  <2>1. status[f] = "NONE"
    <3>1. CASE UNCHANGED table
      BY <3>1 DEF table
    <3>2. CASE phase[w][e] \in Ending /\ Record(w, e)
      BY <3>2, StatusOfType DEF Record, TypeOK
    <3> QED
      BY <1>4, <3>1, <3>2, OnEventTable
  <2>2. f # e
    BY <1>4, <2>1, OnEventMemory DEF UnwrittenInv, Holds
  <2>3. sent'[f] = sent[f] /\ (f \in noted' => f \in noted)
    <3>1. f \in noted' => f \in noted
      <4>1. CASE UNCHANGED table
        BY <4>1 DEF table
      <4>2. CASE Record(w, e)
        BY <2>2, <4>2 DEF Record
      <4> QED
        BY <1>4, <4>1, <4>2, OnEventTable
    <3>2. CASE UNCHANGED sent
      BY <3>1, <3>2
    <3>3. CASE Accepted(w, e)
      BY <2>2, <3>1, <3>3 DEF Accepted, TypeOK
    <3> QED
      BY <1>4, <3>2, <3>3 DEF OnEvent, ReadContent, Dispatch, Finish, FinishFails, outside
  <2> QED
    BY <1>4, <2>1, <2>3, OnEventHolders DEF UnwrittenInv
<1>5. ASSUME NEW w \in Worker, NEW S \in SUBSET Event, Cleanup(w, S) PROVE NoTrace
  BY <1>5 DEF Cleanup, UnwrittenInv, Holds, memory, outside
<1>6. ASSUME NEW w \in Worker, Crash(w) PROVE NoTrace
  BY <1>6 DEF Crash, UnwrittenInv, Holds, TypeOK, table
<1>7. CASE UNCHANGED <<status, noted, sent, phase>>
  BY <1>7 DEF UnwrittenInv, Holds
<1> QED
  BY <1>1, <1>2, <1>3, <1>4, <1>5, <1>6, <1>7, StepCases
     DEF LeaseOutlived, LeaseLapses, table, memory

-----------------------------------------------------------------------------
(* The theorems. *)

LEMMA IInvInit ==
  ASSUME Init
  PROVE  IInv
<1>1. TypeOK
  BY OutboxAssumption DEF Init, TypeOK, Status, Phase, Absent, Result
<1>2. ClaimInv
  BY OutboxAssumption DEF Init, ClaimInv, TokenInv, RowInv, HeldInv, LeaseInv, BudgetInv,
     UnwrittenInv, Holds, Open, Absent
<1>3. AttemptLedger /\ StatusIsLastResult /\ DeliveredWasHandedOver /\ RetryBudget
  BY OutboxAssumption DEF Init, AttemptLedger, StatusIsLastResult, DeliveredWasHandedOver,
     RetryBudget
<1> QED
  BY <1>1, <1>2, <1>3 DEF IInv

LEMMA IInvStep ==
  ASSUME IInv, [Next]_vars
  PROVE  IInv'
BY TypeStep, TokenStep, RowStep, HeldStep, LeaseStep, BudgetStep, LedgerStep,
   UnwrittenStep, LastResultStep, HandedStep, RetryStep DEF IInv, ClaimInv

LEMMA IInvHolds == Spec => []IInv
BY IInvInit, IInvStep, PTL DEF Spec

\* The attempt counter of a row never runs ahead of its attempt records, and
\* agrees with them unless the row is a reminder that is queued again.
THEOREM LedgerCorrect == Spec => []AttemptLedger
<1>1. IInv => AttemptLedger
  BY DEF IInv
<1> QED
  BY <1>1, IInvHolds, PTL

\* The status of a row is the result of its last recorded attempt, whatever
\* workers crash, outlive their leases or come back late.
THEOREM StatusCorrect == Spec => []StatusIsLastResult
<1>1. IInv => StatusIsLastResult
  BY DEF IInv
<1> QED
  BY <1>1, IInvHolds, PTL

\* Nothing is marked delivered unless its last attempt was handed over.
THEOREM NoFalseDelivery == Spec => []DeliveredWasHandedOver
<1>1. IInv => DeliveredWasHandedOver
  BY DEF IInv
<1> QED
  BY <1>1, IInvHolds, PTL

\* The number of attempts is bounded by the configured one plus the faults.
THEOREM BudgetCorrect == Spec => []RetryBudget
<1>1. IInv => RetryBudget
  BY DEF IInv
<1> QED
  BY <1>1, IInvHolds, PTL

\* Two workers share an event only after one of them has outlived its lease.
THEOREM ExclusionCorrect == Spec => []LeaseExclusion
<1>1. IInv => LeaseExclusion
  BY DEF IInv, ClaimInv, LeaseExclusion, LeaseInv, TokenInv, Holds
<1> QED
  BY <1>1, IInvHolds, PTL

\* The invariant that carries all of the above, and that runs check as well.
THEOREM ClaimsCorrect == Spec => []ClaimInv
<1>1. IInv => ClaimInv
  BY DEF IInv
<1> QED
  BY <1>1, IInvHolds, PTL

\* A delivered or dead-lettered event is never changed by a late worker: the
\* row lost its token when it was settled, and no worker holds "no token".
THEOREM SettledCorrect == Spec => SettledStays
<1> DEFINE Stays == \A e \in Event : status[e] \in Terminal =>
                      \/ status'[e] \in {status[e], "PURGED"}
                      \/ e \in Reminder /\ status'[e] = "PENDING"
<1>1. IInv /\ [Next]_vars => Stays
  <2> SUFFICES ASSUME IInv, [Next]_vars, NEW f \in Event, status[f] \in Terminal
               PROVE  \/ status'[f] \in {status[f], "PURGED"}
                      \/ f \in Reminder /\ status'[f] = "PENDING"
    OBVIOUS
  <2> USE DEF Terminal, IInv, TypeOK
  <2>1. CASE AssignProvider
    BY <2>1 DEF AssignProvider, Absent
  <2>2. ASSUME NEW e \in Event, Publish(e) PROVE status'[f] = status[f]
    BY <2>2 DEF Publish
  <2>3. ASSUME NEW w \in Worker, NEW S \in SUBSET Claimable, ClaimBatch(w, S)
        PROVE  status'[f] = status[f]
    BY <2>3 DEF ClaimBatch, Claimable
  <2>4. ASSUME NEW w \in Worker, NEW e \in Event, OnEvent(w, e)
        PROVE  status'[f] = status[f]
    <3>1. token[f] = NoToken
      BY DEF ClaimInv, RowInv
    <3>2. CASE f # e \/ token[f] # hold[w]
      BY <2>4, <3>2, OnEventOtherRows
    <3>3. CASE f = e /\ token[f] = hold[w]
      <4>1. phase[w][e] # "none"
        BY <2>4, OnEventMemory
      <4> QED
        BY <3>1, <3>3, <4>1 DEF ClaimInv, TokenInv, Holds
    <3> QED
      BY <3>2, <3>3
  <2>5. ASSUME NEW w \in Worker, NEW S \in SUBSET Event, Cleanup(w, S)
        PROVE  status'[f] \in {status[f], "PURGED"}
    BY <2>5 DEF Cleanup
  <2>6. CASE UNCHANGED status
    BY <2>6
  <2> QED
    BY <2>1, <2>2, <2>3, <2>4, <2>5, <2>6, StepCases
       DEF Crash, LeaseOutlived, LeaseLapses, table
<1>2. IInv /\ [Next]_vars => [Stays]_vars
  BY <1>1
<1> QED
  BY <1>2, IInvHolds, PTL DEF Spec, SettledStays

-----------------------------------------------------------------------------
(* OutboxDelivery implements EventLifecycle: every step of a writer, a     *)
(* worker or the environment is a step of the lifecycle or changes neither *)
(* the fate of an event nor what was handed over.                          *)

LEMMA FateInit ==
  ASSUME Init
  PROVE  Lifecycle!Init
BY DEF Init, Lifecycle!Init, fate, handed, FateOf


\* A step that keeps the fate of every event and what was handed over.
LEMMA Stutter ==
  ASSUME \A e \in Event : FateOf(status'[e]) = FateOf(status[e]),
         \A e \in Event : sent'[e] = {} <=> sent[e] = {},
         noted' = noted
  PROVE  UNCHANGED Lifecycle!lifeVars
BY DEF Lifecycle!lifeVars, fate, handed

LEMMA AssignWrites ==
  ASSUME IInv, AssignProvider
  PROVE  Lifecycle!Write(Reminder \cup {AssignPush})
<1> DEFINE S == Reminder \cup {AssignPush}
<1>1. \A e \in S : fate[e] \in Lifecycle!Gone <=> status[e] \in Absent
  BY OutboxAssumption DEF IInv, TypeOK, fate, FateOf, Lifecycle!Gone, Absent, Status, Open, Terminal
<1>2. \A e \in S : fate[e] \in Lifecycle!Gone \/ e \in Reminder
  BY <1>1 DEF AssignProvider
<1>3. fate' = [e \in Event |-> IF e \in S THEN "open" ELSE fate[e]]
  BY OutboxAssumption DEF AssignProvider, fate, FateOf, Open
<1>4. handed' = handed \ {e \in S : fate[e] \in Lifecycle!Gone}
  <2>1. handed' = {e \in Event : sent'[e] # {}} \cup noted'
    BY DEF handed
  <2>2. \A e \in Event : sent'[e] = IF e \in S /\ status[e] \in Absent THEN {} ELSE sent[e]
    BY DEF AssignProvider
  <2>3. noted' = noted \ {e \in S : status[e] \in Absent} /\ noted \subseteq Event
    BY DEF AssignProvider, IInv, TypeOK
  <2> QED
    BY <1>1, <2>1, <2>2, <2>3, OutboxAssumption DEF handed
<1> QED
  BY <1>2, <1>3, <1>4 DEF Lifecycle!Write

LEMMA PublishWrites ==
  ASSUME IInv, NEW e \in Event, Publish(e)
  PROVE  Lifecycle!Write({e})
<1>1. fate[e] = "unwritten"
  BY DEF Publish, fate, FateOf
<1>2. fate' = [f \in Event |-> IF f \in {e} THEN "open" ELSE fate[f]]
  BY DEF Publish, fate, FateOf, Open, IInv, TypeOK
<1>3. e \notin handed
  BY DEF Publish, handed, IInv, ClaimInv, UnwrittenInv
<1>4. handed' = handed
  BY DEF Publish, handed, outside
<1> QED
  BY <1>1, <1>2, <1>3, <1>4 DEF Lifecycle!Write, Lifecycle!Gone

LEMMA CleanupPurges ==
  ASSUME IInv, NEW w \in Worker, NEW S \in SUBSET Event, Cleanup(w, S)
  PROVE  Lifecycle!Purge(S)
<1>1. \A e \in S : fate[e] \in Lifecycle!Done
  BY DEF Cleanup, fate, FateOf, Lifecycle!Done, Terminal, Open
<1>2. fate' = [e \in Event |-> IF e \in S THEN "purged" ELSE fate[e]]
  BY DEF Cleanup, fate, FateOf, Open
<1>3. handed' = handed
  BY DEF Cleanup, handed, outside
<1> QED
  BY <1>1, <1>2, <1>3 DEF Lifecycle!Purge

LEMMA DispatchHandsOver ==
  ASSUME IInv, NEW w \in Worker, NEW e \in Event, Dispatch(w, e)
  PROVE  UNCHANGED Lifecycle!lifeVars \/ Lifecycle!HandOver(e)
<1>1. status' = status /\ noted' = noted
  BY DEF Dispatch, table
<1>2. CASE UNCHANGED sent
  BY <1>1, <1>2, Stutter
<1>3. CASE e \notin InApp /\ Accepted(w, e)
  <2>1. \A f \in Event : sent'[f] = IF f = e THEN sent[e] \cup {tried[w][e]} ELSE sent[f]
    BY <1>3 DEF Accepted, IInv, TypeOK
  <2>2. handed' = handed \cup {e}
    BY <1>1, <2>1 DEF handed
  <2>3. fate' = fate
    BY <1>1 DEF fate
  <2> QED
    BY <1>3, <2>2, <2>3 DEF Lifecycle!HandOver
<1> QED
  BY <1>2, <1>3 DEF Dispatch

LEMMA FinishSettles ==
  ASSUME IInv, NEW w \in Worker, NEW e \in Event, Finish(w, e)
  PROVE  \/ UNCHANGED Lifecycle!lifeVars
         \/ Lifecycle!Complete(e)
         \/ Lifecycle!GiveUp(e)
<1>0. UNCHANGED sent
  BY DEF Finish, outside
<1>1. CASE UNCHANGED table
  BY <1>0, <1>1, Stutter DEF table
<1>2. CASE Record(w, e) /\ token[e] = hold[w]
  <2>1. phase[w][e] \in Ending
    BY DEF Finish
  <2>2. token[e] # NoToken
    BY <1>2, <2>1 DEF IInv, ClaimInv, TokenInv, Holds, Ending
  <2>3. fate[e] = "open"
    BY <2>2 DEF IInv, ClaimInv, RowInv, fate, FateOf, Open
  <2>4. status' = [status EXCEPT ![e] = StatusOf(phase[w][e])]
    BY <1>2 DEF Record
  <2>5. fate' = [fate EXCEPT ![e] = FateOf(StatusOf(phase[w][e]))]
    BY <2>4 DEF fate, IInv, TypeOK
  <2>6. CASE phase[w][e] = "delivered"
    <3>1. fate' = [fate EXCEPT ![e] = "delivered"]
      BY <2>5, <2>6 DEF FateOf, StatusOf, Open
    <3>2. CASE e \in InApp
      BY <1>0, <1>2, <2>3, <2>6, <3>1, <3>2 DEF Record, handed, Lifecycle!Complete
    <3>3. CASE e \notin InApp
      <4>1. e \in handed
        BY <1>2, <2>6, <3>3 DEF IInv, ClaimInv, HeldInv, Holds, handed
      <4>2. handed' = handed
        BY <1>0, <1>2, <3>3 DEF Record, handed
      <4> QED
        BY <2>3, <3>1, <3>3, <4>1, <4>2 DEF Lifecycle!Complete
    <3> QED
      BY <3>2, <3>3
  <2>7. CASE phase[w][e] = "transient"
    <3>1. fate' = fate
      BY <2>3, <2>5, <2>7 DEF FateOf, StatusOf, Open, fate
    <3> QED
      BY <1>0, <1>2, <2>7, <3>1 DEF Record, handed, Lifecycle!lifeVars
  <2>8. CASE phase[w][e] = "permanent"
    <3>1. fate' = [fate EXCEPT ![e] = "dead"]
      BY <2>5, <2>8 DEF FateOf, StatusOf, Open
    <3>2. handed' = handed
      BY <1>0, <1>2, <2>8 DEF Record, handed
    <3> QED
      BY <2>3, <3>1, <3>2 DEF Lifecycle!GiveUp
  <2> QED
    BY <2>1, <2>6, <2>7, <2>8 DEF Ending
<1> QED
  BY <1>1, <1>2 DEF Finish, Owns

LEMMA LifecycleStep ==
  ASSUME IInv, [Next]_vars
  PROVE  [Lifecycle!Next]_(Lifecycle!lifeVars)
<1> DEFINE Simulated == [Lifecycle!Next]_(Lifecycle!lifeVars)
<1>1. CASE AssignProvider
  <2>1. Reminder \cup {AssignPush} \in SUBSET Event
    BY OutboxAssumption
  <2> QED
    BY <1>1, <2>1, AssignWrites DEF Lifecycle!Next
<1>2. ASSUME NEW e \in Event, Publish(e) PROVE Simulated
  BY <1>2, PublishWrites DEF Lifecycle!Next
<1>3. ASSUME NEW w \in Worker, NEW S \in SUBSET Claimable, ClaimBatch(w, S)
      PROVE  Simulated
  <2>1. \A e \in S : status[e] \in Open
    BY DEF Claimable, Open
  <2>2. \A e \in Event : FateOf(status'[e]) = FateOf(status[e])
    BY <1>3, <2>1 DEF ClaimBatch, FateOf, Open
  <2> QED
    BY <1>3, <2>2, Stutter DEF ClaimBatch
<1>4. ASSUME NEW w \in Worker, NEW e \in Event, OnEvent(w, e) PROVE Simulated
  <2>1. CASE ReadContent(w, e) \/ FinishFails(w, e)
    BY <2>1, Stutter DEF ReadContent, FinishFails, table, outside
  <2>2. CASE Dispatch(w, e)
    BY <2>2, DispatchHandsOver DEF Lifecycle!Next
  <2>3. CASE Finish(w, e)
    BY <2>3, FinishSettles DEF Lifecycle!Next
  <2> QED
    BY <1>4, <2>1, <2>2, <2>3 DEF OnEvent
<1>5. ASSUME NEW w \in Worker, NEW S \in SUBSET Event, Cleanup(w, S) PROVE Simulated
  BY <1>5, CleanupPurges DEF Lifecycle!Next
<1>6. CASE UNCHANGED <<status, noted, sent>>
  BY <1>6, Stutter
<1> QED
  BY <1>1, <1>2, <1>3, <1>4, <1>5, <1>6, StepCases
     DEF Crash, LeaseOutlived, LeaseLapses, table

\* The outbox with its workers implements the at-least-once lifecycle of an
\* event, for any number of events and workers and any bound on faults.
THEOREM OutboxImplementsLifecycle == Spec => ImplementsLifecycle
BY FateInit, LifecycleStep, IInvHolds, PTL DEF Spec, ImplementsLifecycle, Lifecycle!Spec
=============================================================================
