------------------------ MODULE ServiceRequest_proofs ------------------------
(***************************************************************************)
(* Proofs about ServiceRequest, for every set of providers, sites and      *)
(* concurrent calls and every bound, and, at the end, about Idempotency,   *)
(* the wrapper its operations run in.                                      *)
(***************************************************************************)
EXTENDS ServiceRequest, Idempotency, SequenceTheorems, TLAPS

\* The steps that matter for the request; all others concern accounts, the
\* outbox rows of assignments, the content of a request and the list of sites.
LEMMA StepCases ==
  ASSUME [Next]_vars
  PROVE  \/ \E o \in Origin : Create(o)
         \/ \E i \in DOMAIN versions : WithdrawClientRequest(i)
         \/ \E p \in Provider : AcceptRequest(p)
         \/ \E p \in Provider : RejectAssignedRequest(p)
         \/ \E p \in Provider : AssignCallCentreRequest(p)
         \/ \E p \in Provider : StartToRequest(p)
         \/ \E p \in Provider : StartToDisposal(p)
         \/ \E p \in Provider : ReportCollection(p)
         \/ \E p \in Provider : CompleteDisposal(p)
         \/ \E s \in Site : AssignDisposalSite(s)
         \/ \E c \in Call, f \in Phase : ReadPositions(c, f)
         \/ \E c \in Call : MarkArrived(c)
         \/ \E c \in Call : DropPositions(c)
         \/ \E o \in Outcome : SubmitFeedback(o)
         \/ UNCHANGED <<request, assignment, collected, sites, journey, positions, starts>>
BY DEF Next, vars, people, Admit, Refuse, ChangeProviderStatus, PurgePush, UpdateClientRequest,
       UpsertDisposalSite

LEMMA MoveToType ==
  ASSUME TypeOK, NEW from, NEW to \in Status, MoveTo(from, to)
  PROVE  status' \in Status /\ history' \in Seq(Status)
BY DEF MoveTo, TypeOK

LEMMA ChooseSiteType ==
  ASSUME TypeOK, NEW s \in Site, ChooseSite(s)
  PROVE  site' \in Site /\ siteLog' \in Seq(Site)
BY DEF ChooseSite, TypeOK

LEMMA NextAfterType ==
  ASSUME NEW o \in Outcome
  PROVE  NextAfter(o) \in {"FOLLOW_UP_REQUIRED", "COLLECTION_COMPLETED"}
BY DEF NextAfter

LEMMA TypeStep ==
  ASSUME TypeOK, [Next]_vars
  PROVE  TypeOK'
<1> USE RequestAssumption
<1> USE DEF TypeOK, request, people, collected, sites, accounts, positions, edited
<1>1. ASSUME NEW p \in Provider, Admit(p) \/ Refuse(p) \/ ChangeProviderStatus(p) \/ PurgePush(p)
      PROVE  TypeOK'
  BY <1>1 DEF Admit, Refuse, Answered, ChangeProviderStatus, PurgePush
<1>2. ASSUME NEW o \in Origin, Create(o) PROVE TypeOK'
  <2>1. versions' \in Seq(Time)
    BY <1>2 DEF Create
  <2>2. status' \in Status /\ history' \in Seq(Status) /\ origin' \in Origin
    BY <1>2, MoveToType DEF Create, Status
  <2> QED
    BY <1>2, <2>1, <2>2 DEF Create
<1>3. ASSUME NEW i \in DOMAIN versions, WithdrawClientRequest(i) PROVE TypeOK'
  BY <1>3, MoveToType DEF WithdrawClientRequest, Status
<1>4. ASSUME NEW p \in Provider, AcceptRequest(p) PROVE TypeOK'
  BY <1>4, MoveToType DEF AcceptRequest, Answered, Status, Decision
<1>5. ASSUME NEW p \in Provider, RejectAssignedRequest(p) PROVE TypeOK'
  BY <1>5 DEF RejectAssignedRequest, Answered, Decision
<1>6. ASSUME NEW p \in Provider, AssignCallCentreRequest(p) PROVE TypeOK'
  <2>1. assignment' \in [Provider -> Decision] /\ pushKey' \subseteq Provider
    BY <1>6 DEF AssignCallCentreRequest, Decision
  <2>2. site' \in Site \cup {NoSite} /\ siteLog' \in Seq(Site)
    BY <1>6, ChooseSiteType DEF AssignCallCentreRequest
  <2> QED
    BY <1>6, <2>1, <2>2 DEF AssignCallCentreRequest
<1>7. ASSUME NEW p \in Provider, StartToRequest(p) PROVE TypeOK'
  BY <1>7, MoveToType DEF StartToRequest, Owner, Answered, Status, Travel
<1>8. ASSUME NEW p \in Provider, StartToDisposal(p) PROVE TypeOK'
  <2>1. starts' \in 0..MaxStarts
    BY <1>8 DEF StartToDisposal
  <2>2. journey' \in [Phase -> Travel] /\ admitted' \subseteq Provider /\ UNCHANGED approved
    BY <1>8 DEF StartToDisposal, Owner, Answered, Travel
  <2>3. UNCHANGED <<request, people, collected, sites, positions, edited>>
    BY <1>8 DEF StartToDisposal
  <2> QED
    BY <2>1, <2>2, <2>3
<1>9. ASSUME NEW p \in Provider, ReportCollection(p) PROVE TypeOK'
  BY <1>9, MoveToType DEF ReportCollection, Owner, Answered, Status, Travel
<1>10. ASSUME NEW p \in Provider, CompleteDisposal(p) PROVE TypeOK'
  BY <1>10, MoveToType DEF CompleteDisposal, Owner, Answered, Status, Travel
<1>11. ASSUME NEW s \in Site, AssignDisposalSite(s) PROVE TypeOK'
  BY <1>11, ChooseSiteType DEF AssignDisposalSite
<1>12. ASSUME NEW c \in Call, NEW f \in Phase, ReadPositions(c, f) PROVE TypeOK'
  BY <1>12 DEF ReadPositions, Answered
<1>13. ASSUME NEW c \in Call, MarkArrived(c) PROVE TypeOK'
  <2>1. arriving[c] \in Phase
    BY <1>13 DEF MarkArrived
  <2>2. journey' \in [Phase -> Travel] /\ arrivals' \in [Phase -> Nat]
    BY <1>13, <2>1 DEF MarkArrived, Travel
  <2>3. /\ reached' \in Site \cup {NoSite}
        /\ arriving' \in [Call -> Phase \cup {"NONE"}]
        /\ goal' \in [Call -> Site \cup {NoSite}]
    BY <1>13, <2>1 DEF MarkArrived
  <2> QED
    BY <1>13, <2>2, <2>3 DEF MarkArrived
<1>14. ASSUME NEW c \in Call, DropPositions(c) PROVE TypeOK'
  BY <1>14 DEF DropPositions
<1>15. ASSUME NEW o \in Outcome, SubmitFeedback(o) PROVE TypeOK'
  <2>1. NextAfter(o) \in Status
    BY NextAfterType DEF Status
  <2> QED
    BY <1>15, <2>1, MoveToType DEF SubmitFeedback, Travel
<1>16. CASE UNCHANGED vars
  BY <1>16 DEF vars
<1>17. ASSUME NEW i \in DOMAIN versions, UpdateClientRequest(i) PROVE TypeOK'
  <2>1. versions' \in Seq(Time)
    BY <1>17 DEF UpdateClientRequest
  <2> QED
    BY <1>17, <2>1 DEF UpdateClientRequest
<1>18. ASSUME NEW s \in Site, UpsertDisposalSite(s) PROVE TypeOK'
  BY <1>18 DEF UpsertDisposalSite
<1> QED
  BY <1>1, <1>2, <1>3, <1>4, <1>5, <1>6, <1>7, <1>8, <1>9, <1>10, <1>11, <1>12, <1>13, <1>14,
     <1>15, <1>16, <1>17, <1>18 DEF Next

LEMMA InitType == Init => TypeOK
<1> SUFFICES ASSUME Init PROVE TypeOK
  OBVIOUS
<1>1. history \in Seq(Status) /\ siteLog \in Seq(Site) /\ versions \in Seq(Time)
  BY DEF Init
<1>2. starts \in 0..MaxStarts
  BY RequestAssumption DEF Init
<1>3. /\ assignment \in [Provider -> Decision] /\ journey \in [Phase -> Travel]
      /\ arriving \in [Call -> Phase \cup {"NONE"}] /\ goal \in [Call -> Site \cup {NoSite}]
      /\ arrivals \in [Phase -> Nat]
  BY DEF Init, Decision, Travel
<1> QED
  BY <1>1, <1>2, <1>3 DEF Init, TypeOK

\* Every variable keeps its type: the columns the operations write hold values
\* of their enumerations (workflow.service.ts, all updates).
THEOREM TypeCorrect == Spec => []TypeOK
BY InitType, TypeStep, PTL DEF Spec

-----------------------------------------------------------------------------
(* The parts of the inductive invariant. *)

LEMMA ProviderStep ==
  ASSUME TypeOK, OneProvider, [Next]_vars
  PROVE  OneProvider'
<1> USE RequestAssumption
<1> USE DEF TypeOK, OneProvider, Open, MoveTo, request, people
<1>1. ASSUME NEW o \in Origin, Create(o) PROVE OneProvider'
  BY <1>1 DEF Create
<1>2. ASSUME NEW i \in DOMAIN versions, WithdrawClientRequest(i) PROVE OneProvider'
  BY <1>2 DEF WithdrawClientRequest, Untouched
<1>3. ASSUME NEW p \in Provider, AcceptRequest(p) PROVE OneProvider'
  BY <1>3 DEF AcceptRequest
<1>4. ASSUME NEW p \in Provider, RejectAssignedRequest(p) PROVE OneProvider'
  BY <1>4 DEF RejectAssignedRequest
<1>5. ASSUME NEW p \in Provider, AssignCallCentreRequest(p) PROVE OneProvider'
  BY <1>5 DEF AssignCallCentreRequest
<1>6. ASSUME NEW p \in Provider,
             StartToRequest(p) \/ StartToDisposal(p) \/ ReportCollection(p) \/ CompleteDisposal(p)
      PROVE  OneProvider'
  BY <1>6 DEF StartToRequest, StartToDisposal, ReportCollection, CompleteDisposal
<1>7. ASSUME NEW o \in Outcome, SubmitFeedback(o) PROVE OneProvider'
  BY <1>7, NextAfterType DEF SubmitFeedback
<1>8. CASE UNCHANGED <<status, owner, assignment>>
  BY <1>8
<1> QED
  BY <1>1, <1>2, <1>3, <1>4, <1>5, <1>6, <1>7, <1>8, StepCases
     DEF AssignDisposalSite, ReadPositions, MarkArrived, DropPositions

LEMMA RecordStep ==
  ASSUME TypeOK, RequestInv, OutcomeRouting, [Next]_vars
  PROVE  RecordInv'
<1> USE RequestAssumption
<1> USE DEF RequestInv, RecordInv, Served, MoveTo, request, collected, sites
<1> DEFINE Reports == reported' <=> status' \in Served \ {"ACTIVE"}
           Answers == outcome' # "NONE" <=> status' \in Served \ {"ACTIVE", "COLLECTION_REPORTED"}
           Logs == IF siteLog' = <<>> THEN site' = NoSite ELSE site' = siteLog'[Len(siteLog')]
<1>0. ASSUME NEW s \in Site, ChooseSite(s) PROVE Logs
  <2>1. siteLog' = Append(siteLog, s) /\ siteLog \in Seq(Site) /\ site' = s
    BY <1>0 DEF ChooseSite, TypeOK
  <2>2. Len(siteLog') = Len(siteLog) + 1 /\ siteLog'[Len(siteLog) + 1] = s /\ siteLog' # <<>>
    BY <2>1
  <2> QED
    BY <2>1, <2>2
<1>1. ASSUME NEW o \in Origin, Create(o) PROVE RecordInv'
  BY <1>1 DEF Create
<1>2. ASSUME NEW i \in DOMAIN versions, WithdrawClientRequest(i) PROVE RecordInv'
  BY <1>2 DEF WithdrawClientRequest
<1>3. ASSUME NEW p \in Provider, AcceptRequest(p) PROVE RecordInv'
  BY <1>3 DEF AcceptRequest
<1>4. ASSUME NEW p \in Provider, AssignCallCentreRequest(p) PROVE RecordInv'
  <2>1. Logs
    BY <1>0, <1>4 DEF AssignCallCentreRequest
  <2> QED
    BY <1>4, <2>1 DEF AssignCallCentreRequest
<1>5. ASSUME NEW p \in Provider, StartToRequest(p) \/ StartToDisposal(p) PROVE RecordInv'
  BY <1>5 DEF StartToRequest, StartToDisposal
<1>6. ASSUME NEW p \in Provider, ReportCollection(p) PROVE RecordInv'
  BY <1>6 DEF ReportCollection
<1>7. ASSUME NEW p \in Provider, CompleteDisposal(p) PROVE RecordInv'
  BY <1>7 DEF CompleteDisposal
<1>8. ASSUME NEW o \in Outcome, SubmitFeedback(o) PROVE RecordInv'
  BY <1>8, NextAfterType DEF SubmitFeedback, Outcome
<1>9. ASSUME NEW s \in Site, AssignDisposalSite(s) PROVE RecordInv'
  BY <1>0, <1>9 DEF AssignDisposalSite
<1>10. CASE UNCHANGED <<request, collected, sites>>
  BY <1>10
<1> QED
  BY <1>1, <1>2, <1>3, <1>4, <1>5, <1>6, <1>7, <1>8, <1>9, <1>10, StepCases
     DEF RejectAssignedRequest, ReadPositions, MarkArrived, DropPositions

LEMMA OutcomeStep ==
  ASSUME TypeOK, RequestInv, OutcomeRouting, [Next]_vars
  PROVE  OutcomeRouting'
<1> USE DEF TypeOK, OutcomeRouting, RequestInv, RecordInv, JourneyInv, Served, WasteCollected,
            Outcome, MoveTo, request, collected
<1>1. ASSUME NEW o \in Origin, Create(o) PROVE OutcomeRouting'
  BY <1>1 DEF Create
<1>2. ASSUME NEW i \in DOMAIN versions, WithdrawClientRequest(i) PROVE OutcomeRouting'
  BY <1>2 DEF WithdrawClientRequest
<1>3. ASSUME NEW p \in Provider, AcceptRequest(p) PROVE OutcomeRouting'
  BY <1>3 DEF AcceptRequest
<1>4. ASSUME NEW p \in Provider, StartToRequest(p) PROVE OutcomeRouting'
  BY <1>4 DEF StartToRequest
<1>5. ASSUME NEW p \in Provider, StartToDisposal(p) PROVE OutcomeRouting'
  BY <1>5 DEF StartToDisposal
<1>6. ASSUME NEW p \in Provider, ReportCollection(p) PROVE OutcomeRouting'
  BY <1>6 DEF ReportCollection
<1>7. ASSUME NEW p \in Provider, CompleteDisposal(p) PROVE OutcomeRouting'
  BY <1>7 DEF CompleteDisposal
<1>8. ASSUME NEW o \in Outcome, SubmitFeedback(o) PROVE OutcomeRouting'
  BY <1>8 DEF SubmitFeedback, NextAfter
<1>9. ASSUME NEW c \in Call, MarkArrived(c) PROVE OutcomeRouting'
  BY <1>9 DEF MarkArrived, Departed
<1>10. CASE UNCHANGED <<request, collected, journey>>
  BY <1>10
<1> QED
  BY <1>1, <1>2, <1>3, <1>4, <1>5, <1>6, <1>7, <1>8, <1>9, <1>10, StepCases
     DEF RejectAssignedRequest, AssignCallCentreRequest, AssignDisposalSite, ReadPositions,
         DropPositions

LEMMA JourneyStep ==
  ASSUME TypeOK, RequestInv, OutcomeRouting, [Next]_vars
  PROVE  JourneyInv'
<1> USE RequestAssumption
<1> USE DEF TypeOK, OutcomeRouting, RequestInv, RecordInv, JourneyInv, Departed, Served, MoveTo,
            request, sites, positions
<1>1. ASSUME NEW o \in Origin, Create(o) PROVE JourneyInv'
  BY <1>1 DEF Create
<1>2. ASSUME NEW i \in DOMAIN versions, WithdrawClientRequest(i) PROVE JourneyInv'
  BY <1>2 DEF WithdrawClientRequest
<1>3. ASSUME NEW p \in Provider, AcceptRequest(p) PROVE JourneyInv'
  BY <1>3 DEF AcceptRequest
<1>4. ASSUME NEW p \in Provider, StartToRequest(p) PROVE JourneyInv'
  <2>1. status = "ACCEPTED" /\ status' = "ACTIVE" /\ UNCHANGED <<sites, positions>>
    BY <1>4 DEF StartToRequest
  <2>2. journey'["TO_REQUEST"] = "ACTIVE" /\ journey'["TO_DISPOSAL"] = journey["TO_DISPOSAL"]
    BY <1>4 DEF StartToRequest, Phase
  <2>3. journey["TO_DISPOSAL"] = "NONE"
    BY <2>1
  <2>4. \A c \in Call : arriving[c] # "TO_REQUEST" /\ arriving[c] # "TO_DISPOSAL"
    BY <2>1, <2>3
  <2> QED
    BY <2>1, <2>2, <2>3, <2>4
<1>5. ASSUME NEW p \in Provider, StartToDisposal(p) PROVE JourneyInv'
  BY <1>5 DEF StartToDisposal
<1>6. ASSUME NEW p \in Provider, ReportCollection(p) PROVE JourneyInv'
  BY <1>6 DEF ReportCollection
<1>7. ASSUME NEW p \in Provider, CompleteDisposal(p) PROVE JourneyInv'
  BY <1>7 DEF CompleteDisposal, Disposable
<1>8. ASSUME NEW o \in Outcome, SubmitFeedback(o) PROVE JourneyInv'
  BY <1>8 DEF SubmitFeedback, NextAfter
<1>9. ASSUME NEW c \in Call, MarkArrived(c) PROVE JourneyInv'
  <2>1. CASE arriving[c] = "TO_REQUEST"
    BY <1>9, <2>1 DEF MarkArrived
  <2>2. CASE arriving[c] = "TO_DISPOSAL"
    BY <1>9, <2>2 DEF MarkArrived
  <2> QED
    BY <1>9, <2>1, <2>2 DEF MarkArrived, Phase
<1>10. ASSUME NEW c \in Call, NEW f \in Phase, ReadPositions(c, f) PROVE JourneyInv'
  BY <1>10 DEF ReadPositions, Phase
<1>11. ASSUME NEW c \in Call, DropPositions(c) PROVE JourneyInv'
  BY <1>11 DEF DropPositions
<1>12. ASSUME NEW s \in Site, ChooseSite(s), UNCHANGED <<request, journey, positions>>
       PROVE  JourneyInv'
  BY <1>12 DEF ChooseSite, SiteChoosable
<1>13. CASE UNCHANGED <<request, sites, journey, positions>>
  BY <1>13
<1> QED
  BY <1>1, <1>2, <1>3, <1>4, <1>5, <1>6, <1>7, <1>8, <1>9, <1>10, <1>11, <1>12, <1>13, StepCases
     DEF RejectAssignedRequest, AssignCallCentreRequest, AssignDisposalSite

LEMMA CancelledStep ==
  ASSUME TypeOK, RequestInv, OutcomeRouting, CancelledUntouched, [Next]_vars
  PROVE  CancelledUntouched'
<1> SUFFICES ASSUME status' = "CANCELLED"
             PROVE  Untouched' /\ outcome' = "NONE" /\ ~followUp'
  BY DEF CancelledUntouched
<1> DEFINE Clean == Untouched' /\ outcome' = "NONE" /\ ~followUp'
<1> USE DEF TypeOK, CancelledUntouched, Untouched, MoveTo, request, people, collected
<1>1. ASSUME NEW i \in DOMAIN versions, WithdrawClientRequest(i) PROVE Clean
  BY <1>1 DEF WithdrawClientRequest, OutcomeRouting
<1>2. ASSUME NEW o \in Origin, Create(o) PROVE Clean
  BY <1>2 DEF Create
<1>3. ASSUME NEW p \in Provider,
             AcceptRequest(p) \/ RejectAssignedRequest(p) \/ AssignCallCentreRequest(p)
      PROVE  Clean
  BY <1>3 DEF AcceptRequest, RejectAssignedRequest, AssignCallCentreRequest
<1>4. ASSUME NEW p \in Provider,
             StartToRequest(p) \/ StartToDisposal(p) \/ ReportCollection(p) \/ CompleteDisposal(p)
      PROVE  Clean
  BY <1>4 DEF StartToRequest, StartToDisposal, ReportCollection, CompleteDisposal
<1>5. ASSUME NEW o \in Outcome, SubmitFeedback(o) PROVE Clean
  BY <1>5, NextAfterType DEF SubmitFeedback
<1>6. ASSUME NEW c \in Call, MarkArrived(c) PROVE Clean
  <2>1. status = "CANCELLED" /\ arriving[c] \in Phase
    BY <1>6 DEF MarkArrived
  <2> QED
    BY <2>1 DEF RequestInv, JourneyInv, Departed, Served, Phase
<1>7. CASE UNCHANGED <<request, assignment, collected, journey>>
  BY <1>7
<1> QED
  BY <1>1, <1>2, <1>3, <1>4, <1>5, <1>6, <1>7, StepCases
     DEF AssignDisposalSite, ReadPositions, DropPositions

\* A recorded transition extends a path of the lifecycle.
LEMMA MoveToPath ==
  ASSUME TypeOK, HistoryIsPath, NEW from, NEW to \in Status, MoveTo(from, to),
         IF from = "NONE" THEN to = "PENDING" ELSE <<from, to>> \in Step
  PROVE  HistoryIsPath'
<1>1. history \in Seq(Status) /\ history' = Append(history, to) /\ status = from /\ status' = to
  BY DEF TypeOK, MoveTo
<1>2. /\ Len(history') = Len(history) + 1
      /\ history'[Len(history) + 1] = to
      /\ \A i \in 1..Len(history) : history'[i] = history[i]
      /\ history' # <<>>
      /\ Len(history) \in Nat
  BY <1>1
<1>3. to # "NONE"
  BY DEF Status
<1>4. CASE from = "NONE"
  BY <1>1, <1>2, <1>3, <1>4 DEF HistoryIsPath
<1>5. CASE from # "NONE"
  <2>1. /\ history # <<>>
        /\ history[1] = "PENDING"
        /\ history[Len(history)] = from
        /\ \A i \in 1..(Len(history) - 1) : <<history[i], history[i + 1]>> \in Step
    BY <1>1, <1>5 DEF HistoryIsPath
  <2>2. Len(history) > 0
    BY <1>1, <2>1
  <2>3. ASSUME NEW i \in 1..Len(history) PROVE <<history'[i], history'[i + 1]>> \in Step
    <3>1. CASE i = Len(history)
      BY <1>2, <1>5, <2>1, <3>1
    <3>2. CASE i # Len(history)
      <4>1. i \in 1..(Len(history) - 1) /\ i + 1 \in 1..Len(history)
        BY <1>2, <3>2
      <4> QED
        BY <1>2, <2>1, <4>1
    <3> QED
      BY <3>1, <3>2
  <2> QED
    BY <1>1, <1>2, <1>3, <2>1, <2>2, <2>3 DEF HistoryIsPath
<1> QED
  BY <1>4, <1>5

LEMMA HistoryStep ==
  ASSUME TypeOK, HistoryIsPath, [Next]_vars
  PROVE  HistoryIsPath'
<1>1. ASSUME NEW o \in Origin, Create(o) PROVE HistoryIsPath'
  BY <1>1, MoveToPath DEF Create, Status
<1>2. ASSUME NEW i \in DOMAIN versions, WithdrawClientRequest(i) PROVE HistoryIsPath'
  BY <1>2, MoveToPath DEF WithdrawClientRequest, Status, Step
<1>3. ASSUME NEW p \in Provider, AcceptRequest(p) PROVE HistoryIsPath'
  BY <1>3, MoveToPath DEF AcceptRequest, Status, Step
<1>4. ASSUME NEW p \in Provider, StartToRequest(p) PROVE HistoryIsPath'
  BY <1>4, MoveToPath DEF StartToRequest, Status, Step
<1>5. ASSUME NEW p \in Provider, ReportCollection(p) PROVE HistoryIsPath'
  BY <1>5, MoveToPath DEF ReportCollection, Status, Step
<1>6. ASSUME NEW p \in Provider, CompleteDisposal(p) PROVE HistoryIsPath'
  BY <1>6, MoveToPath DEF CompleteDisposal, Status, Step
<1>7. ASSUME NEW o \in Outcome, SubmitFeedback(o) PROVE HistoryIsPath'
  <2>1. NextAfter(o) \in Status /\ <<"COLLECTION_REPORTED", NextAfter(o)>> \in Step
    BY NextAfterType DEF Status, Step
  <2> QED
    BY <1>7, <2>1, MoveToPath DEF SubmitFeedback
<1>8. CASE UNCHANGED request
  BY <1>8 DEF request, HistoryIsPath
<1> QED
  BY <1>1, <1>2, <1>3, <1>4, <1>5, <1>6, <1>7, <1>8, StepCases
     DEF RejectAssignedRequest, AssignCallCentreRequest, StartToDisposal, AssignDisposalSite,
         ReadPositions, MarkArrived, DropPositions, request

\* The versions of a request have rising times of change.
LEMMA VersionStep ==
  ASSUME TypeOK, VersionInv, [Next]_vars
  PROVE  VersionInv'
<1> USE RequestAssumption DEF Time
<1>1. ASSUME NEW o \in Origin, Create(o) PROVE VersionInv'
  <2>1. versions' = <<>> \/ \E now \in Time : versions' = <<now>>
    BY <1>1 DEF Create
  <2> QED
    BY <2>1 DEF VersionInv
<1>2. ASSUME NEW i \in DOMAIN versions, UpdateClientRequest(i) PROVE VersionInv'
  <2>1. PICK now \in Time : versions' = Append(versions, Stamp(versions[i], now))
    BY <1>2 DEF UpdateClientRequest
  <2>2. versions \in Seq(Nat) /\ Len(versions) \in Nat /\ DOMAIN versions = 1..Len(versions)
    BY DEF TypeOK
  <2> DEFINE last == versions[Len(versions)]
  <2>3. versions[i] = last /\ last \in Nat /\ now \in Nat
    BY <1>2, <2>2 DEF UpdateClientRequest, Matches
  <2>4. Stamp(versions[i], now) \in Nat /\ Stamp(versions[i], now) > last
    BY <2>3 DEF Stamp
  <2>5. \A j \in DOMAIN versions : versions[j] \in Nat /\ versions[j] <= last
    BY <2>2 DEF VersionInv
  <2>6. /\ DOMAIN versions' = 1..(Len(versions) + 1)
        /\ \A j \in 1..Len(versions) : versions'[j] = versions[j]
        /\ versions'[Len(versions) + 1] = Stamp(versions[i], now)
    BY <2>1, <2>2, <2>4
  <2>7. \A j \in 1..Len(versions) : versions'[j] < versions'[Len(versions) + 1]
    BY <2>2, <2>4, <2>5, <2>6
  <2>8. SUFFICES ASSUME NEW j \in DOMAIN versions', NEW k \in DOMAIN versions', j < k
                 PROVE  versions'[j] < versions'[k]
    BY DEF VersionInv
  <2>9. j \in 1..Len(versions) /\ k \in 1..(Len(versions) + 1)
    BY <2>2, <2>6, <2>8
  <2>10. CASE k = Len(versions) + 1
    BY <2>7, <2>9, <2>10
  <2>11. CASE k \in 1..Len(versions)
    <3>1. versions[j] < versions[k]
      BY <2>2, <2>8, <2>9, <2>11 DEF VersionInv
    <3> QED
      BY <2>6, <2>9, <2>11, <3>1
  <2> QED
    BY <2>2, <2>9, <2>10, <2>11
<1>3. CASE UNCHANGED versions
  BY <1>3 DEF VersionInv
<1> QED
  BY <1>1, <1>2, <1>3
     DEF Next, vars, edited, Admit, Refuse, ChangeProviderStatus, PurgePush, WithdrawClientRequest,
         AcceptRequest, RejectAssignedRequest, AssignCallCentreRequest, AssignDisposalSite,
         UpsertDisposalSite, StartToRequest, StartToDisposal, ReadPositions, MarkArrived,
         DropPositions, ReportCollection, SubmitFeedback, CompleteDisposal

-----------------------------------------------------------------------------
(* The inductive invariant. *)

IInv ==
  /\ TypeOK
  /\ OneProvider
  /\ OutcomeRouting
  /\ RequestInv
  /\ CancelledUntouched
  /\ HistoryIsPath
  /\ VersionInv

LEMMA InitIInv == Init => IInv
<1> SUFFICES ASSUME Init PROVE IInv
  OBVIOUS
<1> USE DEF Init
<1>1. TypeOK
  BY InitType
<1>2. OneProvider
  BY RequestAssumption DEF OneProvider, Open
<1>3. journey["TO_REQUEST"] = "NONE" /\ journey["TO_DISPOSAL"] = "NONE"
  BY DEF Phase
<1>4. OutcomeRouting
  BY <1>3 DEF OutcomeRouting
<1>5. RequestInv
  BY <1>3 DEF RequestInv, JourneyInv, RecordInv, Served
<1>6. CancelledUntouched /\ HistoryIsPath /\ VersionInv
  BY DEF CancelledUntouched, HistoryIsPath, VersionInv
<1> QED
  BY <1>1, <1>2, <1>4, <1>5, <1>6 DEF IInv

LEMMA IInvStep == IInv /\ [Next]_vars => IInv'
BY TypeStep, ProviderStep, OutcomeStep, RecordStep, JourneyStep, CancelledStep, HistoryStep,
   VersionStep
   DEF IInv, RequestInv

\* The inductive invariant holds in every reachable state.
THEOREM IInvHolds == Spec => []IInv
BY InitIInv, IInvStep, PTL DEF Spec

\* From the first acceptance on exactly one provider holds the request, in its
\* row and in the assignments, and at most one assignment is ever pending
\* (acceptRequest, rejectAssignedRequest and assignCallCentreRequest).
THEOREM ProviderCorrect == Spec => []OneProvider
<1>1. IInv => OneProvider
  BY DEF IInv
<1> QED
  BY <1>1, IInvHolds, PTL

\* The status history is a path of the lifecycle that ends at the status
\* (transitionRecord beside every update of the status).
THEOREM HistoryCorrect == Spec => []HistoryIsPath
<1>1. IInv => HistoryIsPath
  BY DEF IInv
<1> QED
  BY <1>1, IInvHolds, PTL

\* A withdrawn request was never assigned, travelled to or collected, and stays
\* so (mutateClientRequest against the operations of providers and staff).
THEOREM WithdrawalCorrect == Spec => []CancelledUntouched
<1>1. IInv => CancelledUntouched
  BY DEF IInv
<1> QED
  BY <1>1, IInvHolds, PTL

\* Only collected waste is disposed of, and only negative feedback opens a case
\* (submitFeedback, startJourney).
THEOREM OutcomeCorrect == Spec => []OutcomeRouting
<1>1. IInv => OutcomeRouting
  BY DEF IInv
<1> QED
  BY <1>1, IInvHolds, PTL

\* The conditions the operations read are what they stand for: journeys, calls
\* in flight and records agree with the status.
THEOREM RequestCorrect == Spec => []RequestInv
<1>1. IInv => RequestInv
  BY DEF IInv
<1> QED
  BY <1>1, IInvHolds, PTL

\* A completed request had its waste taken to the site it is assigned
\* (completeDisposal, submitPositions, assignDisposalSiteTx).
THEOREM DisposalCorrect == Spec => []DisposedWhereSent
<1>1. IInv => DisposedWhereSent
  <2> SUFFICES ASSUME IInv, status = "COMPLETED" PROVE DisposedWhereSent
    BY DEF DisposedWhereSent
  <2>1. /\ journey["TO_DISPOSAL"] \in {"ARRIVED", "COMPLETED"}
        /\ site # NoSite /\ reached = site /\ arrivals["TO_DISPOSAL"] > 0
    BY DEF IInv, RequestInv, JourneyInv
  <2>2. siteLog # <<>> /\ site = siteLog[Len(siteLog)]
    BY <2>1 DEF IInv, RequestInv, RecordInv
  <2> QED
    BY <2>1, <2>2 DEF DisposedWhereSent
<1> QED
  BY <1>1, IInvHolds, PTL

\* No edit is lost: who edits or withdraws a request has looked at its latest
\* version (the comparison and the stamp of updated_at in mutateClientRequest).
THEOREM EditsCorrect == Spec => NoLostEdit
<1>1. IInv /\ [Next]_vars =>
        [\A i \in DOMAIN versions :
           UpdateClientRequest(i) \/ WithdrawClientRequest(i) => i = Len(versions)]_vars
  <2> SUFFICES ASSUME IInv, NEW i \in DOMAIN versions, Matches(i) PROVE i = Len(versions)
    BY DEF UpdateClientRequest, WithdrawClientRequest
  <2>1. versions \in Seq(Nat) /\ Len(versions) \in Nat /\ DOMAIN versions = 1..Len(versions)
    BY RequestAssumption DEF IInv, TypeOK, Time
  <2>2. i < Len(versions) => versions[i] < versions[Len(versions)]
    BY <2>1 DEF IInv, VersionInv
  <2> QED
    BY <2>1, <2>2 DEF Matches
<1> QED
  BY <1>1, IInvHolds, PTL DEF Spec, NoLostEdit

-----------------------------------------------------------------------------
(* ServiceRequest implements RequestLifecycle: every operation is a step   *)
(* of the lifecycle or leaves its stage, holder and target as they are.    *)

LEMMA LifecycleInit ==
  ASSUME Init
  PROVE  Lifecycle!Init
BY DEF Init, Lifecycle!Init, stage

\* The stage depends on the status and on whether the provider has departed.
LEMMA StageKept ==
  ASSUME UNCHANGED <<status, owner, site>>, Departed' <=> Departed
  PROVE  UNCHANGED Lifecycle!requestVars
BY DEF Lifecycle!requestVars, stage

LEMMA ChooseSiteRetargets ==
  ASSUME IInv, NEW s \in Site, ChooseSite(s), status # "NONE", UNCHANGED <<status, owner, journey>>
  PROVE  Lifecycle!Retarget(s)
<1>1. ~Departed /\ ~Departed'
  BY DEF ChooseSite, SiteChoosable, Departed
<1>2. status # "COMPLETED"
  BY <1>1 DEF IInv, RequestInv, JourneyInv, Departed
<1>3. stage \notin {"none", "disposing", "closed"}
  BY <1>1, <1>2 DEF stage
<1>4. stage' = stage
  BY <1>1 DEF stage
<1> QED
  BY <1>3, <1>4 DEF ChooseSite, Lifecycle!Retarget

LEMMA LifecycleStep ==
  ASSUME IInv, [Next]_vars
  PROVE  [Lifecycle!Next]_(Lifecycle!requestVars)
<1> DEFINE Goal == [Lifecycle!Next]_(Lifecycle!requestVars)
<1> USE DEF MoveTo, request, sites, Lifecycle!Next
<1>1. ASSUME NEW o \in Origin, Create(o) PROVE Goal
  <2>1. Lifecycle!Ask
    BY <1>1 DEF Create, stage, Lifecycle!Ask, Lifecycle!Advance
  <2> QED
    BY <2>1
<1>2. ASSUME NEW i \in DOMAIN versions, WithdrawClientRequest(i) PROVE Goal
  <2>1. Lifecycle!Withdraw
    BY <1>2 DEF WithdrawClientRequest, stage, Lifecycle!Withdraw, Lifecycle!Advance
  <2> QED
    BY <2>1
<1>3. ASSUME NEW p \in Provider, AcceptRequest(p) PROVE Goal
  <2>1. Lifecycle!Take(p)
    BY <1>3 DEF AcceptRequest, stage, Lifecycle!Take, Lifecycle!Advance
  <2> QED
    BY <2>1
<1>4. ASSUME NEW p \in Provider, RejectAssignedRequest(p) PROVE Goal
  BY <1>4, StageKept DEF RejectAssignedRequest, Departed
<1>5. ASSUME NEW p \in Provider, AssignCallCentreRequest(p) PROVE Goal
  <2>1. CASE UNCHANGED sites
    BY <1>5, <2>1, StageKept DEF AssignCallCentreRequest, Departed
  <2>2. ASSUME NEW s \in Site, ChooseSite(s) PROVE Goal
    BY <1>5, <2>2, ChooseSiteRetargets DEF AssignCallCentreRequest
  <2> QED
    BY <1>5, <2>1, <2>2 DEF AssignCallCentreRequest
<1>6. ASSUME NEW p \in Provider, StartToRequest(p) PROVE Goal
  <2>1. Lifecycle!Serve
    BY <1>6 DEF StartToRequest, stage, Lifecycle!Serve, Lifecycle!Advance
  <2> QED
    BY <2>1
<1>7. ASSUME NEW p \in Provider, StartToDisposal(p) PROVE Goal
  <2>1. status = "COLLECTION_COMPLETED" /\ site # NoSite /\ UNCHANGED <<status, owner, site>>
    BY <1>7 DEF StartToDisposal
  <2>2. Departed'
    BY <1>7 DEF StartToDisposal, Departed, IInv, TypeOK, Phase
  <2>3. CASE Departed
    BY <2>1, <2>2, <2>3, StageKept
  <2>4. CASE ~Departed
    <3>1. Lifecycle!Serve
      BY <2>1, <2>2, <2>4 DEF stage, Lifecycle!Serve, Lifecycle!Advance
    <3> QED
      BY <3>1
  <2> QED
    BY <2>3, <2>4
<1>8. ASSUME NEW p \in Provider, ReportCollection(p) PROVE Goal
  <2>1. Lifecycle!Serve
    BY <1>8 DEF ReportCollection, stage, Lifecycle!Serve, Lifecycle!Advance
  <2> QED
    BY <2>1
<1>9. ASSUME NEW p \in Provider, CompleteDisposal(p) PROVE Goal
  <2>1. Departed
    BY <1>9 DEF CompleteDisposal, Disposable, Departed
  <2>2. Lifecycle!Serve
    BY <1>9, <2>1 DEF CompleteDisposal, stage, Lifecycle!Serve, Lifecycle!Advance
  <2> QED
    BY <2>2
<1>10. ASSUME NEW s \in Site, AssignDisposalSite(s) PROVE Goal
  BY <1>10, ChooseSiteRetargets DEF AssignDisposalSite
<1>11. ASSUME NEW c \in Call, NEW f \in Phase, ReadPositions(c, f) PROVE Goal
  BY <1>11, StageKept DEF ReadPositions, Departed
<1>12. ASSUME NEW c \in Call, MarkArrived(c) PROVE Goal
  <2>1. UNCHANGED <<status, owner, site>> /\ arriving[c] \in Phase
    BY <1>12 DEF MarkArrived, IInv, TypeOK
  <2>2. Departed' <=> Departed
    BY <1>12, <2>1 DEF MarkArrived, Departed, IInv, TypeOK, RequestInv, JourneyInv, Phase
  <2> QED
    BY <2>1, <2>2, StageKept
<1>13. ASSUME NEW c \in Call, DropPositions(c) PROVE Goal
  BY <1>13, StageKept DEF DropPositions, Departed
<1>14. ASSUME NEW o \in Outcome, SubmitFeedback(o) PROVE Goal
  <2>1. ~Departed'
    BY <1>14 DEF SubmitFeedback, Departed, IInv, RequestInv, JourneyInv, TypeOK, Phase
  <2>2. NextAfter(o) \in {"FOLLOW_UP_REQUIRED", "COLLECTION_COMPLETED"}
    BY NextAfterType
  <2>3. Lifecycle!Serve
    BY <1>14, <2>1, <2>2 DEF SubmitFeedback, stage, Lifecycle!Serve, Lifecycle!Advance
  <2> QED
    BY <2>3
<1>15. CASE UNCHANGED <<request, sites, journey>>
  BY <1>15, StageKept DEF Departed
<1> QED
  BY <1>1, <1>2, <1>3, <1>4, <1>5, <1>6, <1>7, <1>8, <1>9, <1>10, <1>11, <1>12, <1>13, <1>14,
     <1>15, StepCases

\* Assignments, calls in flight, restarted journeys and late samples only do
\* what RequestLifecycle allows (workflow.service.ts, all operations).
THEOREM RequestImplementsLifecycle == Spec => ImplementsRequestLifecycle
<1>1. Init => Lifecycle!Init
  BY LifecycleInit
<1>2. IInv /\ [Next]_vars => [Lifecycle!Next]_(Lifecycle!requestVars)
  BY LifecycleStep
<1> QED
  BY <1>1, <1>2, IInvHolds, PTL DEF Spec, ImplementsRequestLifecycle, Lifecycle!Spec

-----------------------------------------------------------------------------
(* The wrapper that every operation but submitPositions() runs in, for any *)
(* calls, keys, payloads and kinds of work.                                *)

\* A call that is to begin a transaction has one left.
RoomInv == \A c \in Attempt : progress[c] \in {"idle", "start"} => tries[c] < 2

WrapperInv ==
  /\ WrapperTypeOK /\ RoomInv
  /\ OncePerKey /\ SnapshotInv /\ DoneIsRecorded

LEMMA WrapperStarts == WrapperInit => WrapperInv
<1> SUFFICES ASSUME WrapperInit PROVE WrapperInv
  OBVIOUS
<1> USE IdempotencyAssumption DEF WrapperInit
<1>1. WrapperTypeOK
  BY DEF WrapperTypeOK, Stage, Answer
<1>2. RoomInv /\ DoneIsRecorded
  BY DEF RoomInv, DoneIsRecorded
<1>3. OncePerKey
  BY DEF OncePerKey
<1>4. SnapshotInv
  BY DEF SnapshotInv
<1> QED
  BY <1>1, <1>2, <1>3, <1>4 DEF WrapperInv

LEMMA WrapperTypes ==
  ASSUME WrapperInv, [WrapperNext]_wrapperVars
  PROVE  WrapperTypeOK' /\ RoomInv'
<1> USE IdempotencyAssumption
<1> USE DEF WrapperInv, WrapperTypeOK, RoomInv, Go, Reply, Stage, Answer, database, caller
<1> DEFINE Goal == WrapperTypeOK' /\ RoomInv'
<1>1. ASSUME NEW c \in Attempt, Arrive(c) PROVE Goal
  BY <1>1 DEF Arrive
<1>2. ASSUME NEW c \in Attempt, Begin(c) PROVE Goal
  <2>1. tries[c] + 1 \in 0..2
    BY <1>2 DEF Begin
  <2> QED
    BY <1>2, <2>1 DEF Begin
<1>3. ASSUME NEW c \in Attempt, Repeat(c) PROVE Goal
  BY <1>3 DEF Repeat
<1>4. ASSUME NEW c \in Attempt, Decline(c) PROVE Goal
  BY <1>4 DEF Decline
<1>5. ASSUME NEW c \in Attempt, Commit(c) PROVE Goal
  <2>1. /\ record' \in [Key -> Payload \cup {None}]
        /\ taker' \in Key \cup {None}
        /\ effects' \in [Key -> Nat]
    BY <1>5 DEF Commit
  <2>2. progress' \in [Attempt -> Stage] /\ answer' \in [Attempt -> Answer]
    BY <1>5 DEF Commit
  <2>3. UNCHANGED <<key, payload, tries, seen, found, aborts>>
    BY <1>5 DEF Commit
  <2>4. RoomInv'
    BY <1>5, <2>3 DEF Commit
  <2> QED
    BY <2>1, <2>2, <2>3, <2>4
<1>6. ASSUME NEW c \in Attempt, UniqueConflict(c) PROVE Goal
  BY <1>6 DEF UniqueConflict
<1>7. ASSUME NEW c \in Attempt, SerializationFailure(c) PROVE Goal
  <2>1. aborts' \in 0..MaxAborts
    BY <1>7 DEF SerializationFailure
  <2>2. /\ UNCHANGED <<database, caller, tries, seen, found>>
        /\ progress' \in [Attempt -> Stage] /\ answer' \in [Attempt -> Answer]
    BY <1>7 DEF SerializationFailure
  <2>3. RoomInv'
    BY <1>7 DEF SerializationFailure
  <2> QED
    BY <2>1, <2>2, <2>3
<1>8. ASSUME NEW c \in Attempt, Recover(c) PROVE Goal
  BY <1>8 DEF Recover
<1>9. CASE UNCHANGED wrapperVars
  BY <1>9 DEF wrapperVars
<1> QED
  BY <1>1, <1>2, <1>3, <1>4, <1>5, <1>6, <1>7, <1>8, <1>9 DEF WrapperNext, Run, Over

LEMMA CommitKeeps ==
  ASSUME WrapperInv, NEW c \in Attempt, Commit(c)
  PROVE  OncePerKey' /\ SnapshotInv' /\ DoneIsRecorded'
<1> USE IdempotencyAssumption
<1> USE DEF WrapperInv, WrapperTypeOK
<1>1. /\ record[key[c]] = None /\ effects[key[c]] = 0
      /\ key[c] \in Key /\ payload[c] \in Payload /\ payload[c] # None
      /\ Taking(c) => taker = None
  BY DEF Commit, Clashes, OncePerKey
<1>2. /\ record' = [record EXCEPT ![key[c]] = payload[c]]
      /\ taker' = IF Taking(c) THEN key[c] ELSE taker
      /\ effects' = [effects EXCEPT ![key[c]] = @ + 1]
      /\ \A d \in Attempt : progress'[d] = IF d = c THEN "over" ELSE progress[d]
      /\ \A d \in Attempt : answer'[d] \in IF d = c THEN {"done", "failed"} ELSE {answer[d]}
      /\ UNCHANGED <<key, payload, tries, seen, found>>
  BY DEF Commit, Go, Reply, caller
<1>3. OncePerKey'
  <2>1. \A k \in Key : effects'[k] = IF record'[k] = None THEN 0 ELSE 1
    BY <1>1, <1>2 DEF OncePerKey
  <2>2. \A k \in Checked \cup Unchecked : record'[k] # None => taker' = k
    BY <1>1, <1>2 DEF OncePerKey, Taking
  <2> QED
    BY <2>1, <2>2 DEF OncePerKey
<1>4. DoneIsRecorded'
  <2>1. ASSUME NEW d \in Attempt, answer'[d] = "done" PROVE record'[key'[d]] = payload'[d]
    <3>1. CASE d = c
      BY <1>1, <1>2, <3>1
    <3>2. CASE d # c
      <4>1. record[key[d]] = payload[d] /\ payload[d] # None
        <5>1. answer[d] = "done"
          BY <1>2, <2>1, <3>2
        <5>2. record[key[d]] = payload[d]
          BY <5>1 DEF DoneIsRecorded
        <5>3. payload[d] \in Payload
          OBVIOUS
        <5> QED
          BY <5>2, <5>3
      <4> QED
        BY <1>1, <1>2, <4>1
    <3> QED
      BY <3>1, <3>2
  <2> QED
    BY <2>1 DEF DoneIsRecorded
<1>5. SnapshotInv'
  <2>1. \A k \in Key : record'[k] = None => taker' # k
    BY <1>1, <1>2 DEF SnapshotInv
  <2>2. ASSUME NEW d \in Attempt, progress'[d] \in {"open", "recover"}
        PROVE  /\ \A k \in Key : seen'[d][k] # None => record'[k] = seen'[d][k]
               /\ found'[d] # None => taker' = found'[d]
               /\ \A k \in Checked \cup Unchecked : seen'[d][k] = None => found'[d] # k
    <3>1. progress[d] \in {"open", "recover"} /\ d # c
      BY <1>2, <2>2
    <3>2. \A k \in Key : seen[d][k] # None => record'[k] = seen[d][k]
      BY <1>1, <1>2, <3>1 DEF SnapshotInv
    <3>3. found[d] # None => taker' = found[d]
      BY <1>1, <1>2, <3>1 DEF SnapshotInv
    <3> QED
      BY <1>2, <3>1, <3>2, <3>3 DEF SnapshotInv
  <2>3. ASSUME NEW d \in Attempt, answer'[d] = "refused"
        PROVE  taker' \notin {None, key'[d]} /\ Taking(d)'
    <3>1. answer[d] = "refused" /\ taker \notin {None, key[d]} /\ Taking(d)
      BY <1>2, <2>3 DEF SnapshotInv
    <3> QED
      BY <1>1, <1>2, <3>1 DEF Taking
  <2> QED
    BY <2>1, <2>2, <2>3 DEF SnapshotInv
<1> QED
  BY <1>3, <1>4, <1>5

LEMMA WrapperSafety ==
  ASSUME WrapperInv, [WrapperNext]_wrapperVars
  PROVE  OncePerKey' /\ SnapshotInv' /\ DoneIsRecorded'
<1> USE IdempotencyAssumption
<1> USE DEF WrapperInv, WrapperTypeOK, OncePerKey, SnapshotInv, DoneIsRecorded, Taking, Go,
            Reply, database, caller
<1> DEFINE Goal == OncePerKey' /\ SnapshotInv' /\ DoneIsRecorded'
<1>1. ASSUME NEW c \in Attempt, Arrive(c) PROVE Goal
  BY <1>1 DEF Arrive
<1>2. ASSUME NEW c \in Attempt, Begin(c) PROVE Goal
  BY <1>2 DEF Begin
<1>3. ASSUME NEW c \in Attempt, Repeat(c) PROVE Goal
  <2>1. key[c] \in Key /\ record[key[c]] = seen[c][key[c]]
    BY <1>3 DEF Repeat
  <2> QED
    BY <1>3, <2>1 DEF Repeat
<1>4. ASSUME NEW c \in Attempt, Decline(c) PROVE Goal
  <2>1. /\ taker = found[c] /\ found[c] # None
        /\ key[c] \in Checked /\ found[c] # key[c]
    BY <1>4 DEF Decline, Refuses, Works
  <2> QED
    BY <1>4, <2>1 DEF Decline
<1>5. ASSUME NEW c \in Attempt, Commit(c) PROVE Goal
  BY <1>5, CommitKeeps
<1>6. ASSUME NEW c \in Attempt, UniqueConflict(c) PROVE Goal
  BY <1>6 DEF UniqueConflict
<1>7. ASSUME NEW c \in Attempt, SerializationFailure(c) PROVE Goal
  BY <1>7 DEF SerializationFailure
<1>8. ASSUME NEW c \in Attempt, Recover(c) PROVE Goal
  BY <1>8 DEF Recover
<1>9. CASE UNCHANGED wrapperVars
  BY <1>9 DEF wrapperVars
<1> QED
  BY <1>1, <1>2, <1>3, <1>4, <1>5, <1>6, <1>7, <1>8, <1>9 DEF WrapperNext, Run, Over

\* The inductive invariant of the wrapper holds in every reachable state.
THEOREM WrapperInvHolds == WrapperSpec => []WrapperInv
<1>1. WrapperInv /\ [WrapperNext]_wrapperVars => WrapperInv'
  BY WrapperTypes, WrapperSafety DEF WrapperInv
<1> QED
  BY WrapperStarts, <1>1, PTL DEF WrapperSpec

\* The variables keep their types; in particular no call begins more than two
\* transactions (idempotent: execute, retried once).
THEOREM WrapperTypeCorrect == WrapperSpec => []WrapperTypeOK
<1>1. WrapperInv => WrapperTypeOK
  BY DEF WrapperInv
<1> QED
  BY <1>1, WrapperInvHolds, PTL

\* The work of a key is committed at most once, with its record, and competing
\* work by one key only (the unique indexes under idempotent).
THEOREM OnceCorrect == WrapperSpec => []OncePerKey
<1>1. WrapperInv => OncePerKey
  BY DEF WrapperInv
<1> QED
  BY <1>1, WrapperInvHolds, PTL

\* An answer of success means that the caller's own data is recorded (the
\* recovery after a unique conflict).
THEOREM DoneCorrect == WrapperSpec => []DoneIsRecorded
<1>1. WrapperInv => DoneIsRecorded
  BY DEF WrapperInv
<1> QED
  BY <1>1, WrapperInvHolds, PTL

\* A refused caller has had no effect under its key (lookup and work in one
\* snapshot).
THEOREM RefusalCorrect == WrapperSpec => []RefusedHadNoEffect
<1>1. WrapperInv => RefusedHadNoEffect
  <2> SUFFICES ASSUME WrapperInv, NEW c \in Attempt, answer[c] = "refused"
               PROVE  effects[key[c]] = 0
    BY DEF RefusedHadNoEffect
  <2>1. taker # key[c] /\ key[c] \in Checked \cup Unchecked
    BY DEF WrapperInv, SnapshotInv, Taking
  <2>2. key[c] \in Key
    BY DEF WrapperInv, WrapperTypeOK
  <2> QED
    BY <2>1, <2>2 DEF WrapperInv, OncePerKey
<1> QED
  BY <1>1, WrapperInvHolds, PTL

\* Snapshots and refusals agree with what is committed (SERIALIZABLE).
THEOREM SnapshotCorrect == WrapperSpec => []SnapshotInv
<1>1. WrapperInv => SnapshotInv
  BY DEF WrapperInv
<1> QED
  BY <1>1, WrapperInvHolds, PTL
=============================================================================
