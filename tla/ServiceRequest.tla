--------------------------- MODULE ServiceRequest ---------------------------
(***************************************************************************)
(* One service request through apps/api/src/workflows/workflow.service.ts: *)
(* creation, edits, withdrawal, assignment, acceptance, the two journeys,  *)
(* collection, feedback and disposal.                                      *)
(*                                                                         *)
(* Every operation that goes through idempotent() is a SERIALIZABLE        *)
(* transaction and is one action here.  Two things are not covered by it   *)
(* and are steps of their own: the actor is read by the guard before the   *)
(* transaction begins (`admitted'), and submitPositions() runs READ        *)
(* COMMITTED, so that it reads the journey and writes it back by id in two *)
(* steps between which the other transactions commit (`arriving').         *)
(***************************************************************************)
EXTENDS Naturals, Sequences

CONSTANTS
  Provider,     \* service provider accounts
  Site,         \* disposal sites
  Call,         \* concurrent calls of submitPositions
  Nobody,       \* no accepted provider
  NoSite,       \* no disposal assignment
  MaxTime,      \* bound: times a clock can show
  MaxStarts,    \* bound: starts of the disposal journey
  MaxChoices    \* bound: assignments of a disposal site

ASSUME RequestAssumption ==
  /\ Nobody \notin Provider
  /\ NoSite \notin Site
  /\ MaxTime \in Nat
  /\ MaxStarts \in Nat
  /\ MaxChoices \in Nat

VARIABLES
  origin,      \* service_requests.origin
  status,      \* service_requests.status, "NONE" before the insert
  owner,       \* service_requests.accepted_provider_user_id
  history,     \* request_status_history: the to_status of each row
  versions,    \* the updated_at of each version a client has seen of the pending request
  assignment,  \* the status of the latest request_assignments row of a provider
  pushKey,     \* providers with an outbox row request:<id>:assigned:<provider>:push
  reported,    \* collection_reports has a row
  outcome,     \* service_feedback.outcome
  followUp,    \* follow_up_cases has a row
  active,      \* disposal_sites.active
  site,        \* disposal_assignments.disposal_site_id
  siteLog,     \* disposal_assignment_history: the sites in order
  journey,     \* journeys.status by phase
  approved,    \* providers that are APPROVED and active
  admitted,    \* providers with a call that the guard has let in
  arriving,    \* the phase a call of submitPositions found ACTIVE, with evidence of arrival
  goal,        \* the destination that call compared with
  arrivals,    \* arrival notifications sent, by phase (history)
  reached,     \* the destination of the last disposal arrival (history)
  starts       \* starts of the disposal journey

request   == <<origin, status, owner, history>>
people    == <<assignment, pushKey>>
collected == <<reported, outcome, followUp>>
sites     == <<site, siteLog>>
accounts  == <<approved, admitted>>
positions == <<arriving, goal, arrivals, reached>>
edited    == <<versions, active>>
vars == <<request, people, collected, sites, journey, accounts, positions, starts, edited>>

Origin  == {"MOBILE_APP", "CALL_CENTRE"}
Status  == {"PENDING", "ACCEPTED", "ACTIVE", "COLLECTION_REPORTED", "COLLECTION_COMPLETED",
            "FOLLOW_UP_REQUIRED", "COMPLETED", "CANCELLED"}
Decision == {"NONE", "PENDING", "ACCEPTED", "REJECTED", "SUPERSEDED"}
Outcome == {"COMPLETED", "LEFT_INCOMPLETE", "NOT_DONE_AT_ALL"}
Phase   == {"TO_REQUEST", "TO_DISPOSAL"}
Travel  == {"NONE", "READY", "ACTIVE", "ARRIVED", "COMPLETED"}
Time    == 0..MaxTime

TypeOK ==
  /\ origin \in Origin \cup {"NONE"}
  /\ status \in Status \cup {"NONE"}
  /\ owner \in Provider \cup {Nobody}
  /\ history \in Seq(Status)
  /\ versions \in Seq(Time)
  /\ assignment \in [Provider -> Decision]
  /\ pushKey \subseteq Provider
  /\ reported \in BOOLEAN
  /\ outcome \in Outcome \cup {"NONE"}
  /\ followUp \in BOOLEAN
  /\ active \subseteq Site
  /\ site \in Site \cup {NoSite}
  /\ siteLog \in Seq(Site)
  /\ journey \in [Phase -> Travel]
  /\ approved \subseteq Provider
  /\ admitted \subseteq Provider
  /\ arriving \in [Call -> Phase \cup {"NONE"}]
  /\ goal \in [Call -> Site \cup {NoSite}]
  /\ arrivals \in [Phase -> Nat]
  /\ reached \in Site \cup {NoSite}
  /\ starts \in 0..MaxStarts

Init ==
  /\ origin = "NONE"
  /\ status = "NONE"
  /\ owner = Nobody
  /\ history = <<>>
  /\ versions = <<>>
  /\ assignment = [p \in Provider |-> "NONE"]
  /\ pushKey = {}
  /\ reported = FALSE
  /\ outcome = "NONE"
  /\ followUp = FALSE
  /\ active = {}
  /\ site = NoSite
  /\ siteLog = <<>>
  /\ journey = [f \in Phase |-> "NONE"]
  /\ approved = Provider
  /\ admitted = {}
  /\ arriving = [c \in Call |-> "NONE"]
  /\ goal = [c \in Call |-> NoSite]
  /\ arrivals = [f \in Phase |-> 0]
  /\ reached = NoSite
  /\ starts = 0

-----------------------------------------------------------------------------
(* Accounts and calls. *)

\* AccessGuard loads the actor, assertProvider() looks at that copy.
Admit(p) ==
  /\ p \in approved \ admitted
  /\ admitted' = admitted \cup {p}
  /\ UNCHANGED <<request, people, collected, sites, journey, approved, positions, starts, edited>>

Answered(p) == admitted' = admitted \ {p} /\ UNCHANGED approved

\* A call of the provider ends without having changed anything.
Refuse(p) ==
  /\ p \in admitted
  /\ Answered(p)
  /\ UNCHANGED <<request, people, collected, sites, journey, positions, starts, edited>>

\* changeProviderStatus(): APPROVED and active, or not.
ChangeProviderStatus(p) ==
  /\ approved' = IF p \in approved THEN approved \ {p} ELSE approved \cup {p}
  /\ UNCHANGED <<request, people, collected, sites, journey, admitted, positions, starts, edited>>

\* transitionRecord() beside an update of the status.
MoveTo(from, to) ==
  /\ status = from
  /\ status' = to
  /\ history' = Append(history, to)

-----------------------------------------------------------------------------
(* The request is made, withdrawn, assigned and accepted. *)

\* A request of the call centre is never edited: its versions are not kept.
Create(o) ==
  /\ MoveTo("NONE", "PENDING")
  /\ origin' = o
  /\ \E now \in Time : versions' = IF o = "MOBILE_APP" THEN <<now>> ELSE <<>>
  /\ UNCHANGED <<owner, people, collected, sites, journey, accounts, positions, starts, active>>

\* The conditions of mutateClientRequest() on the rows around the request.
Untouched ==
  /\ owner = Nobody
  /\ \A p \in Provider : assignment[p] = "NONE"
  /\ \A f \in Phase : journey[f] = "NONE"
  /\ ~reported
  /\ outcome = "NONE"

\* expectedUpdatedAt, taken from the version the client looked at, is the
\* updated_at of the row.
Matches(i) == i \in DOMAIN versions /\ versions[i] = versions[Len(versions)]

\* Max(Date.now(), expected + 1), as clocks may jump back or stand still.
\* Broken: the clock alone.
StampNow(expected, now) == now
Stamp(expected, now)    == IF now > expected THEN now ELSE expected + 1

\* A client, on one device or another, edits the version i it has looked at.
UpdateClientRequest(i) ==
  /\ origin = "MOBILE_APP" /\ status = "PENDING"
  /\ Untouched
  /\ Matches(i)
  /\ \E now \in Time :
       /\ Stamp(versions[i], now) \in Time
       /\ versions' = Append(versions, Stamp(versions[i], now))
  /\ UNCHANGED <<request, people, collected, sites, journey, accounts, positions, starts, active>>

WithdrawClientRequest(i) ==
  /\ origin = "MOBILE_APP"
  /\ Untouched
  /\ Matches(i)
  /\ MoveTo("PENDING", "CANCELLED")
  /\ UNCHANGED <<origin, owner, people, collected, sites, journey, accounts, positions, starts, edited>>

\* updateMany() where the request is PENDING and has no provider; the provider's
\* own assignment is created or found, the others still pending are superseded.
AcceptRequest(p) ==
  /\ p \in admitted /\ Answered(p)
  /\ origin = "CALL_CENTRE" => assignment[p] = "PENDING"
  /\ owner = Nobody
  /\ MoveTo("PENDING", "ACCEPTED")
  /\ owner' = p
  /\ assignment' = [q \in Provider |->
                      IF q = p THEN "ACCEPTED"
                      ELSE IF assignment[q] = "PENDING" THEN "SUPERSEDED" ELSE assignment[q]]
  /\ UNCHANGED <<origin, pushKey, collected, sites, journey, positions, starts, edited>>

RejectAssignedRequest(p) ==
  /\ p \in admitted /\ Answered(p)
  /\ origin = "CALL_CENTRE"
  /\ status = "PENDING"
  /\ assignment[p] = "PENDING"
  /\ assignment' = [assignment EXCEPT ![p] = "REJECTED"]
  /\ UNCHANGED <<request, pushKey, collected, sites, journey, positions, starts, edited>>

\* assignDisposalSiteTx(): whatever the status of the request, until a
\* disposal journey is past READY.  Broken: only while it is under way.
SiteChoosableLate == journey["TO_DISPOSAL"] # "ACTIVE"
SiteChoosable == journey["TO_DISPOSAL"] \in {"NONE", "READY"}

ChooseSite(s) ==
  /\ SiteChoosable
  /\ s \in active
  /\ Len(siteLog) < MaxChoices
  /\ site' = s
  /\ siteLog' = Append(siteLog, s)

\* upsertDisposalSite() creates a site, or switches it on or off.
UpsertDisposalSite(s) ==
  /\ active' = IF s \in active THEN active \ {s} ELSE active \cup {s}
  /\ UNCHANGED <<request, people, collected, sites, journey, accounts, positions, starts, versions>>

\* Broken: the earlier assignment stays pending.
AssignBeside(p) ==
  /\ origin = "CALL_CENTRE"
  /\ status = "PENDING"
  /\ p \in approved
  /\ p \notin pushKey
  /\ pushKey' = pushKey \cup {p}
  /\ assignment' = [assignment EXCEPT ![p] = "PENDING"]
  /\ UNCHANGED sites \/ \E s \in Site : ChooseSite(s)
  /\ UNCHANGED <<request, collected, journey, accounts, positions, starts, edited>>

\* The push row of the new assignment needs a key that no row has yet; else
\* the whole transaction is rolled back.
AssignCallCentreRequest(p) ==
  /\ origin = "CALL_CENTRE"
  /\ status = "PENDING"
  /\ p \in approved
  /\ p \notin pushKey
  /\ pushKey' = pushKey \cup {p}
  /\ assignment' = [q \in Provider |->
                      IF q = p THEN "PENDING"
                      ELSE IF assignment[q] = "PENDING" THEN "SUPERSEDED" ELSE assignment[q]]
  /\ UNCHANGED sites \/ \E s \in Site : ChooseSite(s)
  /\ UNCHANGED <<request, collected, journey, accounts, positions, starts, edited>>

\* cleanup() of the delivery worker deletes the settled push row.
PurgePush(p) ==
  /\ p \in pushKey
  /\ pushKey' = pushKey \ {p}
  /\ UNCHANGED <<request, assignment, collected, sites, journey, accounts, positions, starts, edited>>

AssignDisposalSite(s) ==
  /\ status # "NONE"
  /\ ChooseSite(s)
  /\ UNCHANGED <<request, people, collected, journey, accounts, positions, starts, edited>>

-----------------------------------------------------------------------------
(* The journeys. *)

\* The provider of the request, in a call of its own.
Owner(p) == p \in admitted /\ owner = p /\ Answered(p)

StartToRequest(p) ==
  /\ Owner(p)
  /\ MoveTo("ACCEPTED", "ACTIVE")
  /\ journey' = [journey EXCEPT !["TO_REQUEST"] = "ACTIVE"]
  /\ UNCHANGED <<origin, owner, people, collected, sites, positions, starts, edited>>

WasteCollected == outcome \in Outcome \ {"NOT_DONE_AT_ALL"}

\* The upsert makes the journey ACTIVE again if it was ACTIVE or ARRIVED.
StartToDisposal(p) ==
  /\ Owner(p)
  /\ status = "COLLECTION_COMPLETED"
  /\ WasteCollected
  /\ site # NoSite
  /\ starts < MaxStarts
  /\ starts' = starts + 1
  /\ journey' = [journey EXCEPT !["TO_DISPOSAL"] = "ACTIVE"]
  /\ UNCHANGED <<request, people, collected, sites, positions, edited>>

\* submitPositions() reads a journey that is ACTIVE, and its samples with the
\* last stored one are evidence of arrival at the destination.  A call that
\* finds no such evidence, or an ARRIVED journey, changes nothing here.
ReadPositions(c, f) ==
  /\ owner \in admitted /\ Answered(owner)
  /\ arriving[c] = "NONE"
  /\ journey[f] = "ACTIVE"
  /\ arriving' = [arriving EXCEPT ![c] = f]
  /\ goal' = [goal EXCEPT ![c] = IF f = "TO_DISPOSAL" THEN site ELSE NoSite]
  /\ UNCHANGED <<request, people, collected, sites, journey, arrivals, reached, starts, edited>>

\* It writes ARRIVED by the id of the journey, whatever that is by now.
MarkArrived(c) ==
  LET f == arriving[c] IN
  /\ f # "NONE"
  /\ journey' = [journey EXCEPT ![f] = "ARRIVED"]
  /\ arrivals' = [arrivals EXCEPT ![f] = @ + 1]
  /\ reached' = IF f = "TO_DISPOSAL" THEN goal[c] ELSE reached
  /\ arriving' = [arriving EXCEPT ![c] = "NONE"]
  /\ goal' = [goal EXCEPT ![c] = NoSite]
  /\ UNCHANGED <<request, people, collected, sites, accounts, starts, edited>>

\* Its transaction is rolled back.
DropPositions(c) ==
  /\ arriving[c] # "NONE"
  /\ arriving' = [arriving EXCEPT ![c] = "NONE"]
  /\ goal' = [goal EXCEPT ![c] = NoSite]
  /\ UNCHANGED <<request, people, collected, sites, journey, accounts, arrivals, reached, starts, edited>>

-----------------------------------------------------------------------------
(* Collection, feedback and disposal. *)

ReportCollection(p) ==
  /\ Owner(p)
  /\ ~reported
  /\ MoveTo("ACTIVE", "COLLECTION_REPORTED")
  /\ reported' = TRUE
  /\ journey' = [journey EXCEPT !["TO_REQUEST"] = "COMPLETED"]
  /\ UNCHANGED <<origin, owner, people, outcome, followUp, sites, positions, starts, edited>>

NextAfter(o) == IF o = "NOT_DONE_AT_ALL" THEN "FOLLOW_UP_REQUIRED" ELSE "COLLECTION_COMPLETED"

SubmitFeedback(o) ==
  /\ outcome = "NONE"
  /\ MoveTo("COLLECTION_REPORTED", NextAfter(o))
  /\ outcome' = o
  /\ followUp' = (o # "COMPLETED")
  /\ journey' = IF o # "NOT_DONE_AT_ALL" /\ site # NoSite /\ journey["TO_DISPOSAL"] = "NONE"
                THEN [journey EXCEPT !["TO_DISPOSAL"] = "READY"] ELSE journey
  /\ UNCHANGED <<origin, owner, people, reported, sites, accounts, positions, starts, edited>>

Disposable == journey["TO_DISPOSAL"] = "ARRIVED"

CompleteDisposal(p) ==
  /\ Owner(p)
  /\ WasteCollected
  /\ Disposable
  /\ MoveTo("COLLECTION_COMPLETED", "COMPLETED")
  /\ journey' = [journey EXCEPT !["TO_DISPOSAL"] = "COMPLETED"]
  /\ UNCHANGED <<origin, owner, people, collected, sites, positions, starts, edited>>

Next ==
  \/ \E o \in Origin : Create(o)
  \/ \E i \in DOMAIN versions : UpdateClientRequest(i) \/ WithdrawClientRequest(i)
  \/ \E p \in Provider :
       \/ Admit(p) \/ Refuse(p) \/ ChangeProviderStatus(p)
       \/ AcceptRequest(p)
       \/ RejectAssignedRequest(p)
       \/ AssignCallCentreRequest(p)
       \/ PurgePush(p)
       \/ StartToRequest(p) \/ StartToDisposal(p)
       \/ ReportCollection(p)
       \/ CompleteDisposal(p)
  \/ \E s \in Site : AssignDisposalSite(s) \/ UpsertDisposalSite(s)
  \/ \E c \in Call : \/ \E f \in Phase : ReadPositions(c, f)
                     \/ MarkArrived(c)
                     \/ DropPositions(c)
  \/ \E o \in Outcome : SubmitFeedback(o)

Spec == Init /\ [][Next]_vars

-----------------------------------------------------------------------------
(* Safety. *)

\* The lifecycle as the transition records of the service draw it.
Step == {<<"PENDING", "CANCELLED">>, <<"PENDING", "ACCEPTED">>, <<"ACCEPTED", "ACTIVE">>,
         <<"ACTIVE", "COLLECTION_REPORTED">>,
         <<"COLLECTION_REPORTED", "COLLECTION_COMPLETED">>,
         <<"COLLECTION_REPORTED", "FOLLOW_UP_REQUIRED">>,
         <<"COLLECTION_COMPLETED", "COMPLETED">>}

\* The status history of a request is a path of that lifecycle that ends at its
\* status: no two operations both move it from the same state, and none moves
\* it on a status it did not check (workflow.service.ts:2242-2259).
HistoryIsPath ==
  IF status = "NONE" THEN history = <<>>
  ELSE /\ history # <<>>
       /\ history[1] = "PENDING"
       /\ history[Len(history)] = status
       /\ \A i \in 1..(Len(history) - 1) : <<history[i], history[i + 1]>> \in Step

Open == {"NONE", "PENDING", "CANCELLED"}

\* The first valid acceptance wins: from then on exactly one provider has an
\* accepted assignment, it is the provider of the request, and no assignment is
\* left pending; before it nobody has one, and staff select one provider at a
\* time (727-772, 932-946).
OneProvider ==
  /\ owner = Nobody <=> status \in Open
  /\ \A p \in Provider : assignment[p] = "ACCEPTED" <=> owner = p
  /\ \A p \in Provider : assignment[p] = "PENDING" =>
       status = "PENDING" /\ \A q \in Provider : assignment[q] = "PENDING" => q = p

\* What a client withdrew was never assigned, travelled to or collected, and
\* stays so: the withdrawal races the operations of providers and staff (541-566).
CancelledUntouched == status = "CANCELLED" => Untouched /\ outcome = "NONE" /\ ~followUp

\* Waste that was not collected is never disposed of, waste that was collected
\* is disposed of even after negative feedback, and only negative feedback
\* opens a case (1309-1379).
OutcomeRouting ==
  /\ status = "FOLLOW_UP_REQUIRED" <=> outcome = "NOT_DONE_AT_ALL"
  /\ journey["TO_DISPOSAL"] # "NONE" => WasteCollected
  /\ followUp <=> outcome \in {"LEFT_INCOMPLETE", "NOT_DONE_AT_ALL"}

\* A completed request had its waste taken to the site it is assigned, and that
\* site is the last one in the retained history, although samples and site
\* changes are processed concurrently (1419-1460, 2053-2112).
DisposedWhereSent ==
  status = "COMPLETED" =>
    /\ site # NoSite
    /\ reached = site
    /\ arrivals["TO_DISPOSAL"] > 0
    /\ siteLog # <<>>
    /\ siteLog[Len(siteLog)] = site

\* "stale changes return CONFLICT" (workflow.dto.ts:419): who edits or withdraws
\* a request has looked at its latest version, whatever the clocks do and from
\* however many devices.
NoLostEdit ==
  [][\A i \in DOMAIN versions :
       UpdateClientRequest(i) \/ WithdrawClientRequest(i) => i = Len(versions)]_vars

-----------------------------------------------------------------------------
(* What the request promises, as a specification of its own. *)

Departed == journey["TO_DISPOSAL"] \notin {"NONE", "READY"}

stage == IF status = "NONE" THEN "none"
         ELSE IF status = "PENDING" THEN "open"
         ELSE IF status = "CANCELLED" THEN "withdrawn"
         ELSE IF status = "ACCEPTED" THEN "taken"
         ELSE IF status = "ACTIVE" THEN "underway"
         ELSE IF status = "COLLECTION_REPORTED" THEN "reported"
         ELSE IF status = "FOLLOW_UP_REQUIRED" THEN "unserved"
         ELSE IF status = "COMPLETED" THEN "closed"
         ELSE IF Departed THEN "disposing" ELSE "emptied"

Lifecycle == INSTANCE RequestLifecycle WITH holder <- owner, target <- site

\* Assignments, calls in flight, restarted journeys and late samples only do
\* what RequestLifecycle allows; in particular the disposal site is fixed from
\* the departure on.
ImplementsRequestLifecycle == Lifecycle!Spec

-----------------------------------------------------------------------------
(* Why it is so: the inductive invariant behind the safety properties. *)

Served == {"ACTIVE", "COLLECTION_REPORTED", "COLLECTION_COMPLETED", "FOLLOW_UP_REQUIRED",
           "COMPLETED"}

\* How far the journeys can be in each state, and what a call in flight, which
\* read its journey at any earlier time, can still write.
JourneyInv ==
  /\ journey["TO_REQUEST"] # "NONE" <=> status \in Served
  /\ journey["TO_DISPOSAL"] # "NONE" =>
       status \in {"COLLECTION_COMPLETED", "COMPLETED"} /\ site # NoSite
  /\ status = "COMPLETED" => journey["TO_DISPOSAL"] \in {"ARRIVED", "COMPLETED"}
  /\ journey["TO_DISPOSAL"] \in {"ARRIVED", "COMPLETED"} =>
       reached = site /\ arrivals["TO_DISPOSAL"] > 0
  /\ \A c \in Call :
       /\ arriving[c] = "TO_REQUEST" => status \in Served
       /\ arriving[c] = "TO_DISPOSAL" => Departed /\ goal[c] = site

\* What has been recorded in each state.
RecordInv ==
  /\ reported <=> status \in Served \ {"ACTIVE"}
  /\ outcome # "NONE" <=> status \in Served \ {"ACTIVE", "COLLECTION_REPORTED"}
  /\ IF siteLog = <<>> THEN site = NoSite ELSE site = siteLog[Len(siteLog)]

\* Two versions of a request have different times of change.
VersionInv ==
  \A i, j \in DOMAIN versions : i < j => versions[i] < versions[j]

\* The parts together: what the code's conditions read is what they mean.
RequestInv == JourneyInv /\ RecordInv
=============================================================================
