---------------------------- MODULE PhoneAccess ----------------------------
(***************************************************************************)
(* One phone number: the account registered with it, the codes sent to it  *)
(* and the decisions of staff about it                                     *)
(* (apps/api/src/registration/phone-challenge.service.ts,                  *)
(* registration/registration.service.ts, auth/auth.service.ts).            *)
(*                                                                         *)
(* A code is issued in one transaction under an advisory lock of phone and *)
(* purpose, sent after it, and its delivery recorded after that.  An       *)
(* answer is compared with a copy of the challenge and then counted, or    *)
(* used in one transaction that also acts on the account, both under row   *)
(* locks.  The transactions of staff read the account without a lock.      *)
(* Time is the age of a challenge.  The configured times are in order, 30  *)
(* to 300 s, 300 to 1800 s and an hour, so a challenge cools down, expires *)
(* and leaves the hour in that order, and after every older challenge.     *)
(***************************************************************************)
EXTENDS Naturals, Sequences, FiniteSets, SequencesExt

CONSTANTS
  Call,          \* concurrent calls
  Challenge,     \* rows of phone_challenges
  Nothing,       \* no challenge
  MaxAttempts,   \* otpMaxAttempts
  MaxPerHour,    \* otpMaxRequestsPerHour
  AutoApproval,  \* values SERVICE_PROVIDER_AUTO_APPROVAL_ENABLED may have
  Off            \* statuses that take an approved provider out of work

ASSUME PhoneAccessAssumption ==
  /\ Nothing \notin Challenge
  /\ MaxAttempts \in Nat \ {0}
  /\ MaxPerHour \in Nat \ {0}
  /\ AutoApproval \subseteq BOOLEAN
  /\ Off \subseteq {"INACTIVE", "DISABLED"}

VARIABLES
  kind,      \* users.actor_type, "none" before the insert
  verified,  \* phone_verified_at is set and login_enabled, written together
  status,    \* users.provider_status
  active,    \* users.is_active
  numbered,  \* the profile has its client or provider number
  pushed,    \* outcomes with an outbox row provider:<id>:review:<outcome>
  purpose,   \* phone_challenges.purpose, "none" before the insert
  used,      \* challenges with consumed_at
  delivery,  \* delivery_status
  left,      \* attempts_remaining
  age,       \* 0 before resend_available_at, 1 before expires_at, 2 within the hour, 3
  issued,    \* the challenges in the order of created_at
  sent,      \* challenges whose code the gateway accepted (history)
  wins,      \* answers that opened a session, up to 2 (history)
  pc,        \* the next step of the call
  arg        \* what it acts on: an actor type, a purpose, a challenge or a status

account == <<kind, verified, status, active, numbered, pushed>>
codes   == <<purpose, used, delivery, left, age, issued, sent, wins>>
calls   == <<pc, arg>>
vars    == <<account, codes, calls>>

ActorType == {"client", "provider"}
Purpose   == {"REGISTRATION", "CLIENT_SIGN_IN", "PROVIDER_SIGN_IN"}
Decided   == {"APPROVED", "REJECTED"} \cup Off
Step      == {"idle", "insert", "issue", "send", "sent", "failed", "wrong", "right",
              "decide", "change"}

TypeOK ==
  /\ kind \in ActorType \cup {"none"}
  /\ verified \in BOOLEAN /\ active \in BOOLEAN /\ numbered \in BOOLEAN
  /\ status \in Decided \cup {"none", "PENDING"}
  /\ status # "none" <=> kind = "provider"
  /\ pushed \subseteq {"APPROVED", "REJECTED"}
  /\ purpose \in [Challenge -> Purpose \cup {"none"}]
  /\ delivery \in [Challenge -> {"PENDING", "SENT", "FAILED"}]
  /\ left \in [Challenge -> 0..MaxAttempts]
  /\ used \cup sent \subseteq ToSet(issued)
  /\ age \in [Challenge -> 0..3]
  /\ issued \in Seq(Challenge) /\ IsInjective(issued)
  /\ wins \in [Challenge -> 0..2]
  /\ pc \in [Call -> Step]
  /\ arg \in [Call -> {Nothing} \cup ActorType \cup Purpose \cup Decided \cup Challenge]

Init ==
  /\ kind = "none" /\ status = "none"
  /\ verified = FALSE /\ active = FALSE /\ numbered = FALSE
  /\ pushed = {}
  /\ purpose = [c \in Challenge |-> "none"]
  /\ delivery = [c \in Challenge |-> "PENDING"]
  /\ left = [c \in Challenge |-> MaxAttempts]
  /\ used = {} /\ sent = {}
  /\ age = [c \in Challenge |-> 0]
  /\ issued = <<>>
  /\ wins = [c \in Challenge |-> 0]
  /\ pc = [k \in Call |-> "idle"]
  /\ arg = [k \in Call |-> Nothing]

Go(k, step, value) == pc' = [pc EXCEPT ![k] = step] /\ arg' = [arg EXCEPT ![k] = value]
Return(k) == Go(k, "idle", Nothing)

\* The API process ends, or the database refuses a statement.
Abandon(k) == pc[k] # "idle" /\ Return(k) /\ UNCHANGED <<account, codes>>

-----------------------------------------------------------------------------
(* Registration: registerClient() and registerServiceProvider(). *)

\* A registration that was not completed is resumed.
Unfinished(k) ==
  /\ kind = k
  /\ ~verified
  /\ k = "provider" => status = "PENDING" /\ ~active

Register(c, k) ==
  /\ pc[c] = "idle"
  /\ \/ Unfinished(k) /\ Go(c, "issue", "REGISTRATION")
     \/ kind = "none" /\ Go(c, "insert", k)
  /\ UNCHANGED <<account, codes>>

\* The unique index on the phone number lets one insert through.
InsertAccount(c) ==
  /\ pc[c] = "insert"
  /\ IF kind = "none"
     THEN /\ kind' = arg[c]
          /\ status' = IF arg[c] = "provider" THEN "PENDING" ELSE "none"
          /\ Go(c, "issue", "REGISTRATION")
     ELSE Return(c) /\ UNCHANGED <<kind, status>>
  /\ UNCHANGED <<verified, active, numbered, pushed, codes>>

-----------------------------------------------------------------------------
(* Codes: create(), resend() and the requests that lead to them. *)

MayClient   == kind = "client" /\ verified /\ active
MayProvider == kind = "provider" /\ verified

\* requestClientCode() and requestProviderCode(), let through by the throttle.
RequestCode(c) ==
  /\ pc[c] = "idle"
  /\ \/ MayClient /\ Go(c, "issue", "CLIENT_SIGN_IN")
     \/ MayProvider /\ Go(c, "issue", "PROVIDER_SIGN_IN")
  /\ UNCHANGED <<account, codes>>

Resend(c, h) ==
  /\ pc[c] = "idle"
  /\ purpose[h] # "none"
  /\ age[h] > 0
  /\ Go(c, "issue", purpose[h])
  /\ UNCHANGED <<account, codes>>

OfPurpose(p) == {h \in Challenge : purpose[h] = p}
Unissued     == Challenge \ ToSet(issued)
NewChallenge == CHOOSE h \in Unissued : TRUE

Cooling(p) == {h \in OfPurpose(p) : age[h] = 0}
Recent(p)  == {h \in OfPurpose(p) : age[h] < 3}

\* Broken: the limits were looked at before the lock was taken.
IssueUnlimited(c) ==
  /\ pc[c] = "issue"
  /\ Unissued # {}
  /\ purpose' = [purpose EXCEPT ![NewChallenge] = arg[c]]
  /\ used' = used \cup OfPurpose(arg[c])
  /\ issued' = Append(issued, NewChallenge)
  /\ Go(c, "send", NewChallenge)
  /\ UNCHANGED <<account, delivery, left, age, sent, wins>>

\* Broken: earlier codes of the purpose stay usable.
IssueBeside(c) ==
  /\ pc[c] = "issue"
  /\ Unissued # {}
  /\ IF Cardinality(Recent(arg[c])) >= MaxPerHour \/ Cooling(arg[c]) # {}
     THEN Return(c) /\ UNCHANGED <<purpose, issued>>
     ELSE /\ purpose' = [purpose EXCEPT ![NewChallenge] = arg[c]]
          /\ issued' = Append(issued, NewChallenge)
          /\ Go(c, "send", NewChallenge)
  /\ UNCHANGED <<account, used, delivery, left, age, sent, wins>>

\* The transaction under the advisory lock: limits, supersession, insert.
Issue(c) ==
  /\ pc[c] = "issue"
  /\ Unissued # {}
  /\ IF Cardinality(Recent(arg[c])) >= MaxPerHour \/ Cooling(arg[c]) # {}
     THEN Return(c) /\ UNCHANGED <<purpose, used, issued>>
     ELSE /\ purpose' = [purpose EXCEPT ![NewChallenge] = arg[c]]
          /\ used' = used \cup OfPurpose(arg[c])
          /\ issued' = Append(issued, NewChallenge)
          /\ Go(c, "send", NewChallenge)
  /\ UNCHANGED <<account, delivery, left, age, sent, wins>>

\* The gateway accepts the message and says so, or its answer is lost, or it
\* does not accept it.
Send(c) ==
  /\ pc[c] = "send"
  /\ \/ sent' = sent \cup {arg[c]} /\ \E answer \in {"sent", "failed"} : Go(c, answer, arg[c])
     \/ UNCHANGED sent /\ Go(c, "failed", arg[c])
  /\ UNCHANGED <<account, purpose, used, delivery, left, age, issued, wins>>

\* An update that fails is taken for a failed delivery.
RecordSent(c) ==
  /\ pc[c] = "sent"
  /\ \/ delivery' = [delivery EXCEPT ![arg[c]] = "SENT"] /\ Return(c)
     \/ UNCHANGED delivery /\ Go(c, "failed", arg[c])
  /\ UNCHANGED <<account, purpose, used, left, age, issued, sent, wins>>

\* Broken: a code counts as sent whatever the gateway said.
RecordAnyway(c) ==
  /\ pc[c] = "failed"
  /\ delivery' = [delivery EXCEPT ![arg[c]] = "SENT"]
  /\ Return(c)
  /\ UNCHANGED <<account, purpose, used, left, age, issued, sent, wins>>

RecordFailed(c) ==
  /\ pc[c] = "failed"
  /\ delivery' = [delivery EXCEPT ![arg[c]] = "FAILED"]
  /\ Return(c)
  /\ UNCHANGED <<account, purpose, used, left, age, issued, sent, wins>>

\* The challenge reaches its next time, resend_available_at, expires_at or the hour.
Elapse(h) ==
  /\ h \in ToSet(issued) /\ age[h] < 3
  /\ \A i, j \in 1..Len(issued) : i < j /\ issued[j] = h => age[issued[i]] > age[h]
  /\ age' = [age EXCEPT ![h] = @ + 1]
  /\ UNCHANGED <<account, calls, purpose, used, delivery, left, issued, sent, wins>>

-----------------------------------------------------------------------------
(* Answers: verifyAndComplete(). *)

Usable(h) == h \in ToSet(issued) \ used /\ age[h] < 2 /\ delivery[h] = "SENT" /\ left[h] > 0

\* The challenge is read and the answer compared with it.
Answer(c, h) ==
  /\ pc[c] = "idle"
  /\ Usable(h)
  /\ \E result \in {"wrong", "right"} : Go(c, result, h)
  /\ UNCHANGED <<account, codes>>

\* Broken: the copy that was compared still had an attempt.
CountAnyway(c) ==
  /\ pc[c] = "wrong"
  /\ left' = [left EXCEPT ![arg[c]] = @ - 1]
  /\ Return(c)
  /\ UNCHANGED <<account, purpose, used, delivery, age, issued, sent, wins>>

CountWrong(c) ==
  /\ pc[c] = "wrong"
  /\ left' = [left EXCEPT ![arg[c]] = IF arg[c] \notin used /\ @ > 0 THEN @ - 1 ELSE @]
  /\ Return(c)
  /\ UNCHANGED <<account, purpose, used, delivery, age, issued, sent, wins>>

\* verifyPhone(): the row of the account is locked and read again.
MayVerify ==
  /\ kind # "none" /\ ~verified
  /\ kind = "provider" => status = "PENDING" /\ ~active /\ ~numbered

Activate(auto) ==
  /\ verified' = TRUE
  /\ active' = (kind = "client" \/ auto)
  /\ numbered' = (kind = "client" \/ auto)
  /\ status' = IF kind = "provider" /\ auto THEN "APPROVED" ELSE status
  /\ pushed' = IF kind = "provider" /\ auto THEN pushed \cup {"APPROVED"} ELSE pushed
  /\ UNCHANGED kind

\* The work of the answer.  If it fails, the code is not used either.
Complete(p) ==
  \/ p = "REGISTRATION" /\ MayVerify /\ \E auto \in AutoApproval : Activate(auto)
  \/ p = "CLIENT_SIGN_IN" /\ MayClient /\ UNCHANGED account
  \/ p = "PROVIDER_SIGN_IN" /\ MayProvider /\ UNCHANGED account

\* Broken: the copy that was compared decides, the row is updated by id.
UseStale(c) ==
  /\ pc[c] = "right"
  /\ used' = used \cup {arg[c]}
  /\ wins' = [wins EXCEPT ![arg[c]] = IF @ < 2 THEN @ + 1 ELSE @]
  /\ Complete(purpose[arg[c]])
  /\ Return(c)
  /\ UNCHANGED <<purpose, delivery, left, age, issued, sent>>

UseCode(c) ==
  /\ pc[c] = "right"
  /\ Usable(arg[c])
  /\ used' = used \cup {arg[c]}
  /\ wins' = [wins EXCEPT ![arg[c]] = IF @ < 2 THEN @ + 1 ELSE @]
  /\ Complete(purpose[arg[c]])
  /\ Return(c)
  /\ UNCHANGED <<purpose, delivery, left, age, issued, sent>>

-----------------------------------------------------------------------------
(* Staff: decideProvider() and changeProviderStatus(), without a row lock. *)

ReadPending(c) ==
  /\ pc[c] = "idle"
  /\ status = "PENDING" /\ verified
  /\ \E outcome \in {"APPROVED", "REJECTED"} : Go(c, "decide", outcome)
  /\ UNCHANGED <<account, codes>>

\* The unique key of the push row rolls back a second decision of one outcome.
DecideProvider(c) ==
  /\ pc[c] = "decide"
  /\ IF arg[c] \in pushed
     THEN UNCHANGED account
     ELSE /\ status' = arg[c]
          /\ active' = (arg[c] = "APPROVED")
          /\ numbered' = (arg[c] = "APPROVED")
          /\ pushed' = pushed \cup {arg[c]}
          /\ UNCHANGED <<kind, verified>>
  /\ Return(c)
  /\ UNCHANGED codes

ReadStatus(c, to) ==
  /\ pc[c] = "idle"
  /\ status \in Decided \ {to}
  /\ to = "APPROVED" => verified
  /\ Go(c, "change", to)
  /\ UNCHANGED <<account, codes>>

ChangeProviderStatus(c) ==
  /\ pc[c] = "change"
  /\ status' = arg[c]
  /\ active' = (arg[c] = "APPROVED")
  /\ Return(c)
  /\ UNCHANGED <<kind, verified, numbered, pushed, codes>>

Next ==
  \/ \E h \in Challenge : Elapse(h)
  \/ \E c \in Call :
       \/ \E k \in ActorType : Register(c, k)
       \/ InsertAccount(c) \/ RequestCode(c)
       \/ \E h \in Challenge : Resend(c, h) \/ Answer(c, h)
       \/ Issue(c) \/ Send(c) \/ RecordSent(c) \/ RecordFailed(c)
       \/ CountWrong(c) \/ UseCode(c)
       \/ ReadPending(c) \/ DecideProvider(c)
       \/ \E to \in {"APPROVED"} \cup Off : ReadStatus(c, to)
       \/ ChangeProviderStatus(c)
       \/ Abandon(c)

Spec == Init /\ [][Next]_vars

-----------------------------------------------------------------------------

\* "Issuance serializes each protected phone/purpose" (docs/
\* PHONE_VERIFICATION_SETUP.md:57): concurrent requests together send no more
\* codes than one caller may, one per waiting time and MaxPerHour per hour.
IssuanceLimits ==
  \A p \in Purpose :
    /\ Cardinality(Cooling(p)) <= 1
    /\ Cardinality(Recent(p)) <= MaxPerHour

\* One code opens one session, although several answers may have been compared
\* with the same copy of it (276-333), and one registration code verifies the
\* account, although codes were superseded while they were being answered.
OneUsePerCode ==
  LET won == {h \in OfPurpose("REGISTRATION") : wins[h] > 0}
  IN  /\ \A h \in Challenge : wins[h] <= 1
      /\ Cardinality(won) = IF verified THEN 1 ELSE 0

IsLatest(h) == \A i \in 1..Len(issued) :
                 purpose[issued[i]] = purpose[h] => \E j \in i..Len(issued) : issued[j] = h

\* An answer works only with the newest code of its purpose, also when that was
\* issued after the answer had been compared (122-125, 320-329).
LatestCodeOnly ==
  [][\A h \in Challenge : wins'[h] # wins[h] => IsLatest(h) /\ left[h] > 0]_vars

\* A code that can be used was given to the gateway (139-160).
UsableWasSent == \A h \in Challenge : Usable(h) => h \in sent
=============================================================================
