------------------------- MODULE PhoneAccess_proofs -------------------------
(***************************************************************************)
(* Proofs about PhoneAccess, for any calls, challenges and limits.         *)
(***************************************************************************)
EXTENDS PhoneAccess, SequenceTheorems, FiniteSetTheorems, TLAPS

-----------------------------------------------------------------------------
(* The strengthening. *)

Argument == {Nothing} \cup ActorType \cup Purpose \cup Decided \cup Challenge

\* What a step may take for granted about its argument.
CallOK(step, a) ==
  /\ step = "insert" => a \in ActorType
  /\ step = "issue" => a \in Purpose
  /\ step \in {"send", "sent", "failed", "wrong", "right"} => a \in ToSet(issued)
  /\ step = "sent" => a \in sent
  /\ step \in {"decide", "change"} => a \in Decided /\ kind = "provider"
  /\ step = "decide" => a \in {"APPROVED", "REJECTED"}

CallInv ==
  /\ pc \in [Call -> Step]
  /\ arg \in [Call -> Argument]
  /\ \A c \in Call : CallOK(pc[c], arg[c])

AccountInv ==
  /\ kind \in ActorType \cup {"none"}
  /\ verified \in BOOLEAN /\ active \in BOOLEAN /\ numbered \in BOOLEAN
  /\ status \in Decided \cup {"none", "PENDING"}
  /\ status # "none" <=> kind = "provider"
  /\ pushed \subseteq {"APPROVED", "REJECTED"}

\* A row has a purpose once it is inserted, and counts as sent only when it was.
RowInv ==
  /\ purpose \in [Challenge -> Purpose \cup {"none"}]
  /\ delivery \in [Challenge -> {"PENDING", "SENT", "FAILED"}]
  /\ left \in [Challenge -> 0..MaxAttempts]
  /\ age \in [Challenge -> 0..3]
  /\ wins \in [Challenge -> 0..2]
  /\ used \cup sent \subseteq ToSet(issued)
  /\ issued \in Seq(Challenge) /\ IsInjective(issued)
  /\ \A h \in Challenge :
       /\ purpose[h] # "none" <=> h \in ToSet(issued)
       /\ h \notin ToSet(issued) => age[h] = 0
       /\ delivery[h] = "SENT" => h \in sent

\* Only the newest code of a purpose is not used or superseded.
LatestInv == \A h \in ToSet(issued) \ used : IsLatest(h)

LimitInv == IsFiniteSet(ToSet(issued)) /\ IssuanceLimits

Won == {h \in OfPurpose("REGISTRATION") : wins[h] > 0}

\* A code that won is used; the account is verified by exactly one of them.
WinInv ==
  /\ \A h \in Challenge : wins[h] <= 1 /\ (wins[h] > 0 => h \in used)
  /\ IF verified THEN \E h \in Challenge : Won = {h} ELSE Won = {}

IInv == CallInv /\ AccountInv /\ RowInv /\ LatestInv /\ LimitInv /\ WinInv

-----------------------------------------------------------------------------
(* The order of the challenges. *)

LEMMA IssuedSeq ==
  ASSUME RowInv
  PROVE  /\ Len(issued) \in Nat
         /\ DOMAIN issued = 1..Len(issued)
         /\ ToSet(issued) = {issued[i] : i \in 1..Len(issued)}
         /\ ToSet(issued) \subseteq Challenge
<1>1. issued \in Seq(Challenge)
  BY DEF RowInv
<1>2. Len(issued) \in Nat /\ issued \in [1..Len(issued) -> Challenge]
  BY <1>1, LenProperties
<1> QED
  BY <1>2 DEF ToSet

\* A new challenge is appended to the order.
LEMMA AppendIssued ==
  ASSUME RowInv, NEW h \in Challenge, h \notin ToSet(issued), issued' = Append(issued, h)
  PROVE  /\ issued' \in Seq(Challenge) /\ IsInjective(issued)'
         /\ Len(issued') = Len(issued) + 1
         /\ issued'[Len(issued) + 1] = h
         /\ \A i \in 1..Len(issued) : issued'[i] = issued[i]
         /\ ToSet(issued)' = ToSet(issued) \cup {h}
<1>1. issued \in Seq(Challenge)
  BY DEF RowInv
<1>2. /\ issued' \in Seq(Challenge)
      /\ Len(issued') = Len(issued) + 1
      /\ issued'[Len(issued) + 1] = h
      /\ \A i \in 1..Len(issued) : issued'[i] = issued[i]
  BY <1>1, AppendProperties
<1>3. Len(issued) \in Nat /\ DOMAIN issued = 1..Len(issued)
  BY IssuedSeq
<1>4. DOMAIN issued' = 1..(Len(issued) + 1)
  BY <1>2, LenProperties
<1>5. ToSet(issued)' = ToSet(issued) \cup {h}
  BY <1>2, <1>3, <1>4 DEF ToSet
<1>6. ASSUME NEW i \in DOMAIN issued', NEW j \in DOMAIN issued', issued'[i] = issued'[j]
      PROVE  i = j
  <2>1. \A k \in 1..Len(issued) : issued[k] # h
    BY <1>3 DEF ToSet
  <2>2. \A k, l \in 1..Len(issued) : issued[k] = issued[l] => k = l
    BY <1>3 DEF RowInv, IsInjective
  <2>3. /\ i \in 1..Len(issued) \/ i = Len(issued) + 1
        /\ j \in 1..Len(issued) \/ j = Len(issued) + 1
    BY <1>3, <1>4
  <2> QED
    BY <1>2, <1>6, <2>1, <2>2, <2>3
<1>7. IsInjective(issued)'
  BY <1>6 DEF IsInjective
<1> QED
  BY <1>2, <1>5, <1>7

LEMMA NewIsUnissued ==
  ASSUME Unissued # {}
  PROVE  NewChallenge \in Challenge /\ NewChallenge \notin ToSet(issued)
<1>1. NewChallenge \in Unissued
  BY DEF NewChallenge
<1> QED
  BY <1>1 DEF Unissued

\* The challenges the limits count are finitely many.
LEMMA CountedFinite ==
  ASSUME RowInv, LimitInv, NEW p \in Purpose
  PROVE  /\ Cooling(p) \subseteq Recent(p)
         /\ IsFiniteSet(Recent(p)) /\ Cardinality(Recent(p)) \in Nat
         /\ IsFiniteSet(Cooling(p)) /\ Cardinality(Cooling(p)) \in Nat
<1>1. Cooling(p) \subseteq Recent(p)
  BY DEF Cooling, Recent
<1>2. p # "none"
  BY DEF Purpose
<1>3. Recent(p) \subseteq ToSet(issued)
  BY <1>2 DEF Recent, OfPurpose, RowInv
<1>4. IsFiniteSet(Recent(p))
  BY <1>3, FS_Subset DEF LimitInv
<1>5. IsFiniteSet(Cooling(p))
  BY <1>1, <1>4, FS_Subset
<1> QED
  BY <1>1, <1>4, <1>5, FS_CardinalityType

-----------------------------------------------------------------------------
(* Calls. *)

\* What a call may take for granted is not taken back.
Grows ==
  /\ ToSet(issued) \subseteq ToSet(issued)'
  /\ sent \subseteq sent'
  /\ kind = "provider" => kind' = "provider"

LEMMA GoKeeps ==
  ASSUME CallInv, Grows, NEW c \in Call, NEW step \in Step, NEW a \in Argument,
         Go(c, step, a), CallOK(step, a)'
  PROVE  CallInv'
<1>1. /\ pc' = [pc EXCEPT ![c] = step] /\ arg' = [arg EXCEPT ![c] = a]
      /\ pc \in [Call -> Step] /\ arg \in [Call -> Argument]
  BY DEF Go, CallInv
<1>2. pc' \in [Call -> Step]
  BY <1>1
<1>3. arg' \in [Call -> Argument]
  BY <1>1
<1>4. ASSUME NEW d \in Call, d # c PROVE CallOK(pc[d], arg[d])'
  BY <1>1, <1>4 DEF CallInv, CallOK, Grows
<1>5. pc'[c] = step /\ arg'[c] = a
  BY <1>1
<1>6. CallOK(pc[c], arg[c])'
  BY <1>5 DEF CallOK
<1> QED
  BY <1>2, <1>3, <1>4, <1>6 DEF CallInv, Argument

LEMMA ReturnKeeps ==
  ASSUME CallInv, Grows, NEW c \in Call, Return(c)
  PROVE  CallInv'
<1>1. Go(c, "idle", Nothing)
  BY DEF Return
<1>2. CallOK("idle", Nothing)'
  BY DEF CallOK
<1> QED
  BY <1>1, <1>2, GoKeeps DEF Step, Argument

LEMMA CallsKeep ==
  ASSUME CallInv, Grows, UNCHANGED calls
  PROVE  CallInv'
BY DEF CallInv, Grows, calls, CallOK, Argument

LEMMA SameGrows ==
  ASSUME issued' = issued, sent' = sent, kind' = kind
  PROVE  Grows
BY DEF Grows

-----------------------------------------------------------------------------
(* Steps that leave the account or the codes alone. *)

LEMMA AccountKeeps ==
  ASSUME AccountInv, UNCHANGED account
  PROVE  AccountInv'
BY DEF AccountInv, account

\* The account may change as long as it stays verified or not.
LEMMA CodesKeep ==
  ASSUME RowInv, LatestInv, LimitInv, WinInv, UNCHANGED codes, UNCHANGED verified
  PROVE  RowInv' /\ LatestInv' /\ LimitInv' /\ WinInv'
<1> USE DEF codes
<1>1. RowInv'
  BY DEF RowInv, ToSet, IsInjective
<1>2. LatestInv'
  BY DEF LatestInv, IsLatest, ToSet
<1>3. LimitInv'
  BY DEF LimitInv, IssuanceLimits, Cooling, Recent, OfPurpose, ToSet
<1>4. WinInv'
  BY DEF WinInv, Won, OfPurpose
<1> QED
  BY <1>1, <1>2, <1>3, <1>4

LEMMA WinsKeep ==
  ASSUME WinInv, UNCHANGED <<purpose, used, wins, verified>>
  PROVE  WinInv'
BY DEF WinInv, Won, OfPurpose

LEMMA LatestKeeps ==
  ASSUME LatestInv, used \subseteq used', UNCHANGED <<purpose, issued>>
  PROVE  LatestInv'
BY DEF LatestInv, IsLatest, ToSet

LEMMA LimitsKeep ==
  ASSUME LimitInv, UNCHANGED <<purpose, issued, age>>
  PROVE  LimitInv'
BY DEF LimitInv, IssuanceLimits, Cooling, Recent, OfPurpose, ToSet

-----------------------------------------------------------------------------
(* The invariant. *)

LEMMA InitInv == Init => IInv
<1> SUFFICES ASSUME Init PROVE IInv
  OBVIOUS
<1> DEFINE e == <<>>
<1>1. e \in Seq(Challenge) /\ Len(e) = 0 /\ ToSet(e) = {} /\ IsInjective(e)
  <2>1. e \in Seq(Challenge) /\ Len(e) = 0
    BY EmptySeq
  <2>2. DOMAIN e = {}
    BY <2>1, LenProperties
  <2> QED
    BY <2>1, <2>2 DEF ToSet, IsInjective
<1>2. issued = e
  BY DEF Init
<1> HIDE DEF e
<1>3. CallInv
  BY DEF Init, CallInv, CallOK, Step, Argument
<1>4. AccountInv
  BY DEF Init, AccountInv
<1>5. /\ purpose = [c \in Challenge |-> "none"]
      /\ delivery = [c \in Challenge |-> "PENDING"]
      /\ left = [c \in Challenge |-> MaxAttempts]
      /\ used = {} /\ sent = {}
      /\ age = [c \in Challenge |-> 0]
      /\ wins = [c \in Challenge |-> 0]
      /\ verified = FALSE
  BY DEF Init
<1>6. RowInv
  <2>1. MaxAttempts \in 0..MaxAttempts
    BY PhoneAccessAssumption
  <2>2. left \in [Challenge -> 0..MaxAttempts]
    BY <1>5, <2>1
  <2> QED
    BY <1>1, <1>2, <1>5, <2>2 DEF RowInv
<1>7. LatestInv
  BY <1>1, <1>2 DEF LatestInv
<1>8. LimitInv
  <2>1. \A p \in Purpose : Cooling(p) = {} /\ Recent(p) = {}
    BY <1>5 DEF Purpose, Cooling, Recent, OfPurpose
  <2>2. MaxPerHour \in Nat
    BY PhoneAccessAssumption
  <2>3. IsFiniteSet(ToSet(issued))
    BY <1>1, <1>2, FS_EmptySet
  <2>4. Cardinality({}) <= 1 /\ Cardinality({}) <= MaxPerHour
    BY <2>2, FS_EmptySet
  <2> QED
    BY <2>1, <2>3, <2>4 DEF LimitInv, IssuanceLimits
<1>9. WinInv
  <2>1. Won = {}
    BY <1>5 DEF Won, OfPurpose
  <2> QED
    BY <1>5, <2>1 DEF WinInv
<1> QED
  BY <1>3, <1>4, <1>6, <1>7, <1>8, <1>9 DEF IInv

\* The steps that only read: they leave account and codes alone.
LEMMA ReadStep ==
  ASSUME IInv, UNCHANGED <<account, codes>>, NEW c \in Call, NEW step \in Step, NEW a \in Argument,
         Go(c, step, a), CallOK(step, a)
  PROVE  IInv'
<1>1. Grows
  BY SameGrows DEF account, codes
<1>2. CallOK(step, a)'
  BY <1>1 DEF CallOK, Grows
<1>3. CallInv'
  BY <1>1, <1>2, GoKeeps DEF IInv
<1>4. AccountInv'
  BY AccountKeeps DEF IInv
<1>5. RowInv' /\ LatestInv' /\ LimitInv' /\ WinInv'
  BY CodesKeep DEF IInv, account
<1> QED
  BY <1>3, <1>4, <1>5 DEF IInv

LEMMA ReturnStep ==
  ASSUME IInv, UNCHANGED <<account, codes>>, NEW c \in Call, Return(c)
  PROVE  IInv'
<1>1. Go(c, "idle", Nothing) /\ CallOK("idle", Nothing)
  BY DEF Return, CallOK
<1> QED
  BY <1>1, ReadStep DEF Step, Argument

\* A code is issued: the limits hold with it, and it is the newest of its purpose.
LEMMA IssueAdds ==
  ASSUME IInv, NEW c \in Call, NEW p \in Purpose, NEW h \in Challenge,
         h \notin ToSet(issued),
         purpose' = [purpose EXCEPT ![h] = p],
         used' = used \cup OfPurpose(p),
         issued' = Append(issued, h),
         Go(c, "send", h),
         UNCHANGED <<account, delivery, left, age, sent, wins>>,
         Cardinality(Recent(p)) < MaxPerHour, Cooling(p) = {}
  PROVE  IInv'
<1>1. RowInv /\ LatestInv /\ LimitInv /\ WinInv /\ CallInv /\ AccountInv
  BY DEF IInv
<1>2. /\ issued' \in Seq(Challenge) /\ IsInjective(issued)'
      /\ Len(issued') = Len(issued) + 1
      /\ issued'[Len(issued) + 1] = h
      /\ \A i \in 1..Len(issued) : issued'[i] = issued[i]
      /\ ToSet(issued)' = ToSet(issued) \cup {h}
  BY <1>1, AppendIssued
<1>3. /\ Len(issued) \in Nat
      /\ ToSet(issued) = {issued[i] : i \in 1..Len(issued)}
      /\ ToSet(issued) \subseteq Challenge
  BY <1>1, IssuedSeq
<1>4. /\ purpose \in [Challenge -> Purpose \cup {"none"}]
      /\ \A g \in Challenge : purpose[g] # "none" <=> g \in ToSet(issued)
      /\ "none" \notin Purpose
      /\ used \cup sent \subseteq ToSet(issued)
      /\ \A g \in Challenge : g \notin ToSet(issued) => age[g] = 0
  BY <1>1 DEF RowInv, Purpose
<1>5. /\ purpose'[h] = p
      /\ \A g \in Challenge : g # h => purpose'[g] = purpose[g]
      /\ purpose' \in [Challenge -> Purpose \cup {"none"}]
  BY <1>4
<1>6. CallInv'
  <2>1. Grows
    BY <1>2 DEF Grows, account
  <2>2. CallOK("send", h)'
    BY <1>2 DEF CallOK
  <2>3. h \in Argument
    BY DEF Argument
  <2> QED
    BY <1>1, <2>1, <2>2, <2>3, GoKeeps DEF Step
<1>7. RowInv'
  <2>1. OfPurpose(p) \subseteq ToSet(issued)
    BY <1>4 DEF OfPurpose
  <2>2. used' \cup sent' \subseteq ToSet(issued)'
    BY <1>2, <1>4, <2>1
  <2>3. \A g \in Challenge :
          /\ purpose'[g] # "none" <=> g \in ToSet(issued)'
          /\ g \notin ToSet(issued)' => age'[g] = 0
          /\ delivery'[g] = "SENT" => g \in sent'
    BY <1>1, <1>2, <1>4, <1>5 DEF RowInv
  <2>4. /\ delivery' \in [Challenge -> {"PENDING", "SENT", "FAILED"}]
        /\ left' \in [Challenge -> 0..MaxAttempts]
        /\ age' \in [Challenge -> 0..3]
        /\ wins' \in [Challenge -> 0..2]
    BY <1>1 DEF RowInv
  <2> QED
    BY <1>2, <1>5, <2>2, <2>3, <2>4 DEF RowInv
<1>8. LatestInv'
  <2> SUFFICES ASSUME NEW g \in ToSet(issued)' \ used',
                      NEW i \in 1..(Len(issued) + 1),
                      purpose'[issued'[i]] = purpose'[g]
               PROVE  \E j \in i..(Len(issued) + 1) : issued'[j] = g
    BY <1>2 DEF LatestInv, IsLatest
  <2>1. CASE g = h
    <3>1. Len(issued) + 1 \in i..(Len(issued) + 1)
      BY <1>3
    <3> QED
      BY <1>2, <2>1, <3>1
  <2>2. CASE g # h
    <3>1. g \in ToSet(issued) \ used /\ g \in Challenge /\ purpose[g] # p
      BY <1>2, <1>3, <2>2 DEF OfPurpose
    <3>2. purpose'[g] = purpose[g]
      BY <1>5, <2>2, <3>1
    <3>3. i # Len(issued) + 1
      BY <1>2, <1>5, <3>1, <3>2
    <3>4. i \in 1..Len(issued)
      BY <1>3, <3>3
    <3>5. issued'[i] = issued[i] /\ issued[i] \in ToSet(issued) /\ issued[i] # h
      BY <1>2, <1>3, <3>4
    <3>6. purpose[issued[i]] = purpose[g]
      BY <1>3, <1>5, <3>2, <3>5
    <3>7. PICK j \in i..Len(issued) : issued[j] = g
      BY <1>1, <3>1, <3>4, <3>6 DEF LatestInv, IsLatest
    <3>8. j \in 1..Len(issued) /\ j \in i..(Len(issued) + 1)
      BY <1>3, <3>4
    <3> QED
      BY <1>2, <3>7, <3>8
  <2> QED
    BY <2>1, <2>2
<1>9. LimitInv'
  <2>1. IsFiniteSet(ToSet(issued)')
    BY <1>1, <1>2, FS_AddElement DEF LimitInv
  <2>2. age' = age /\ age[h] = 0
    BY <1>4
  <2>3. h \notin Recent(p)
    BY <1>4 DEF Recent, OfPurpose
  <2>4. Recent(p)' = Recent(p) \cup {h}
    BY <1>5, <2>2 DEF Recent, OfPurpose
  <2>5. Cooling(p)' = {h}
    BY <1>5, <2>2 DEF Cooling, OfPurpose
  <2>6. ASSUME NEW q \in Purpose, q # p
        PROVE  Recent(q)' = Recent(q) /\ Cooling(q)' = Cooling(q)
    BY <1>4, <1>5, <2>2, <2>6 DEF Recent, Cooling, OfPurpose
  <2>7. Cardinality(Recent(p)') = Cardinality(Recent(p)) + 1
    <3>1. IsFiniteSet(Recent(p))
      BY <1>1, CountedFinite
    <3> QED
      BY <2>3, <2>4, <3>1, FS_AddElement
  <2>8. Cardinality(Recent(p)') <= MaxPerHour
    <3>1. Cardinality(Recent(p)) \in Nat /\ MaxPerHour \in Nat
      BY <1>1, CountedFinite, PhoneAccessAssumption
    <3> QED
      BY <2>7, <3>1
  <2>9. Cardinality(Cooling(p)') <= 1
    <3>1. Cardinality({h}) = 1
      BY FS_Singleton
    <3> QED
      BY <2>5, <3>1
  <2>10. ASSUME NEW q \in Purpose
         PROVE  Cardinality(Cooling(q)') <= 1 /\ Cardinality(Recent(q)') <= MaxPerHour
    <3>1. CASE q = p
      BY <2>8, <2>9, <3>1
    <3>2. CASE q # p
      <4>1. Cardinality(Cooling(q)) <= 1 /\ Cardinality(Recent(q)) <= MaxPerHour
        BY <1>1 DEF LimitInv, IssuanceLimits
      <4> QED
        BY <2>6, <3>2, <4>1
    <3> QED
      BY <3>1, <3>2
  <2> QED
    BY <2>1, <2>10 DEF LimitInv, IssuanceLimits
<1>10. WinInv'
  <2>1. \A g \in Challenge : wins[g] <= 1 /\ (wins[g] > 0 => g \in used)
    BY <1>1 DEF WinInv
  <2>2. ~(wins[h] > 0)
    BY <1>4, <2>1
  <2>3. Won' = Won
    BY <1>5, <2>2 DEF Won, OfPurpose
  <2> QED
    BY <1>1, <2>1, <2>3 DEF WinInv, account
<1>11. AccountInv'
  BY <1>1, AccountKeeps
<1> QED
  BY <1>6, <1>7, <1>8, <1>9, <1>10, <1>11 DEF IInv

LEMMA IssueStep ==
  ASSUME IInv, NEW c \in Call, Issue(c)
  PROVE  IInv'
<1>1. CASE Cardinality(Recent(arg[c])) >= MaxPerHour \/ Cooling(arg[c]) # {}
  <2>1. Return(c) /\ UNCHANGED <<account, codes>>
    BY <1>1 DEF Issue, codes
  <2> QED
    BY <2>1, ReturnStep
<1>2. CASE ~(Cardinality(Recent(arg[c])) >= MaxPerHour \/ Cooling(arg[c]) # {})
  <2>1. /\ pc[c] = "issue"
        /\ Unissued # {}
        /\ purpose' = [purpose EXCEPT ![NewChallenge] = arg[c]]
        /\ used' = used \cup OfPurpose(arg[c])
        /\ issued' = Append(issued, NewChallenge)
        /\ Go(c, "send", NewChallenge)
        /\ UNCHANGED <<account, delivery, left, age, sent, wins>>
    BY <1>2 DEF Issue
  <2>2. NewChallenge \in Challenge /\ NewChallenge \notin ToSet(issued)
    BY <2>1, NewIsUnissued
  <2>3. arg[c] \in Purpose
    BY <2>1 DEF IInv, CallInv, CallOK
  <2>4. Cardinality(Recent(arg[c])) < MaxPerHour /\ Cooling(arg[c]) = {}
    <3>1. Cardinality(Recent(arg[c])) \in Nat /\ MaxPerHour \in Nat
      BY <2>3, CountedFinite, PhoneAccessAssumption DEF IInv
    <3> QED
      BY <1>2, <3>1
  <2> QED
    BY <2>1, <2>2, <2>3, <2>4, IssueAdds
<1> QED
  BY <1>1, <1>2

\* Steps on the codes that leave purposes, uses, order and wins alone.
LEMMA CodeStep ==
  ASSUME IInv, NEW c \in Call, NEW step \in Step, NEW a \in Argument,
         Go(c, step, a), CallOK(step, a)', sent \subseteq sent',
         UNCHANGED <<account, purpose, used, age, issued, wins>>,
         RowInv'
  PROVE  IInv'
<1>1. Grows
  BY DEF Grows, account
<1>2. CallInv'
  BY <1>1, GoKeeps DEF IInv
<1>3. AccountInv'
  BY AccountKeeps DEF IInv
<1>4. LatestInv' /\ LimitInv' /\ WinInv'
  BY LatestKeeps, LimitsKeep, WinsKeep DEF IInv, account
<1> QED
  BY <1>2, <1>3, <1>4 DEF IInv

\* The argument of a call that sends, records or answers is an issued challenge.
LEMMA CodeArgument ==
  ASSUME IInv, NEW c \in Call, pc[c] \in {"send", "sent", "failed", "wrong", "right"}
  PROVE  /\ arg[c] \in Challenge /\ arg[c] \in ToSet(issued)
         /\ pc[c] = "sent" => arg[c] \in sent
<1>1. CallOK(pc[c], arg[c]) /\ RowInv
  BY DEF IInv, CallInv
<1>2. arg[c] \in ToSet(issued) /\ (pc[c] = "sent" => arg[c] \in sent)
  BY <1>1 DEF CallOK
<1> QED
  BY <1>1, <1>2, IssuedSeq

LEMMA SendStep ==
  ASSUME IInv, NEW c \in Call, Send(c)
  PROVE  IInv'
<1>1. PICK h \in Challenge : h = arg[c] /\ h \in ToSet(issued)
  BY CodeArgument DEF Send
<1>2. /\ UNCHANGED <<account, purpose, used, delivery, left, age, issued, wins>>
      /\ \/ sent' = sent \cup {h} /\ (Go(c, "sent", h) \/ Go(c, "failed", h))
         \/ sent' = sent /\ Go(c, "failed", h)
  BY <1>1 DEF Send
<1>3. RowInv'
  BY <1>1, <1>2 DEF IInv, RowInv, ToSet, IsInjective
<1>4. h \in ToSet(issued)' /\ (sent' = sent \cup {h} => h \in sent')
  BY <1>1, <1>2 DEF ToSet
<1>5. CallOK("failed", h)' /\ (sent' = sent \cup {h} => CallOK("sent", h)')
  BY <1>4 DEF CallOK
<1> QED
  BY <1>2, <1>3, <1>5, CodeStep DEF Step, Argument

LEMMA RecordStep ==
  ASSUME IInv, NEW c \in Call, RecordSent(c) \/ RecordFailed(c)
  PROVE  IInv'
<1>1. PICK h \in Challenge : /\ h = arg[c] /\ h \in ToSet(issued)
                             /\ pc[c] = "sent" => h \in sent
  BY CodeArgument DEF RecordSent, RecordFailed
<1>2. UNCHANGED <<account, purpose, used, left, age, issued, sent, wins>>
  BY DEF RecordSent, RecordFailed
<1>3. Go(c, "idle", Nothing) \/ Go(c, "failed", h)
  BY <1>1 DEF RecordSent, RecordFailed, Return
<1>4. \/ delivery' = delivery
      \/ delivery' = [delivery EXCEPT ![h] = "SENT"] /\ h \in sent
      \/ delivery' = [delivery EXCEPT ![h] = "FAILED"]
  BY <1>1 DEF RecordSent, RecordFailed
<1>5. delivery' \in [Challenge -> {"PENDING", "SENT", "FAILED"}]
  BY <1>4 DEF IInv, RowInv
<1>6. \A g \in Challenge : delivery'[g] = "SENT" => g \in sent'
  BY <1>2, <1>4 DEF IInv, RowInv
<1>7. RowInv'
  BY <1>2, <1>5, <1>6 DEF IInv, RowInv, ToSet, IsInjective
<1>8. h \in ToSet(issued)'
  BY <1>1, <1>2 DEF ToSet
<1>9. CallOK("idle", Nothing)' /\ CallOK("failed", h)'
  BY <1>8 DEF CallOK
<1> QED
  BY <1>2, <1>3, <1>7, <1>9, CodeStep DEF Step, Argument

LEMMA CountStep ==
  ASSUME IInv, NEW c \in Call, CountWrong(c)
  PROVE  IInv'
<1>1. PICK h \in Challenge : h = arg[c]
  BY CodeArgument DEF CountWrong
<1>2. /\ UNCHANGED <<account, purpose, used, delivery, age, issued, sent, wins>>
      /\ Go(c, "idle", Nothing)
  BY DEF CountWrong, Return
<1>3. left' = [left EXCEPT ![h] = IF h \notin used /\ @ > 0 THEN @ - 1 ELSE @]
  BY <1>1 DEF CountWrong
<1>4. left \in [Challenge -> 0..MaxAttempts] /\ MaxAttempts \in Nat
  BY PhoneAccessAssumption DEF IInv, RowInv
<1>5. left' \in [Challenge -> 0..MaxAttempts]
  BY <1>3, <1>4
<1>6. RowInv'
  BY <1>2, <1>5 DEF IInv, RowInv, ToSet, IsInjective
<1>7. CallOK("idle", Nothing)'
  BY DEF CallOK
<1> QED
  BY <1>2, <1>6, <1>7, CodeStep DEF Step, Argument

\* Time only takes challenges out of what the limits count.
LEMMA ElapseStep ==
  ASSUME IInv, NEW h \in Challenge, Elapse(h)
  PROVE  IInv'
<1>1. /\ h \in ToSet(issued) /\ age[h] < 3
      /\ age' = [age EXCEPT ![h] = age[h] + 1]
      /\ UNCHANGED <<account, calls, purpose, used, delivery, left, issued, sent, wins>>
  BY DEF Elapse
<1>2. RowInv /\ LatestInv /\ LimitInv /\ WinInv /\ CallInv /\ AccountInv
  BY DEF IInv
<1>3. age \in [Challenge -> 0..3]
  BY <1>2 DEF RowInv
<1>4. /\ age' \in [Challenge -> 0..3]
      /\ \A g \in Challenge : age[g] <= age'[g]
      /\ \A g \in Challenge : g # h => age'[g] = age[g]
  BY <1>1, <1>3
<1>5. RowInv'
  BY <1>1, <1>2, <1>4 DEF RowInv, ToSet, IsInjective
<1>6. LimitInv'
  <2> SUFFICES ASSUME NEW p \in Purpose
               PROVE  Cardinality(Cooling(p)') <= 1 /\ Cardinality(Recent(p)') <= MaxPerHour
    BY <1>1, <1>2 DEF LimitInv, IssuanceLimits, ToSet
  <2>1. Cooling(p)' \subseteq Cooling(p)
    BY <1>1, <1>3, <1>4 DEF Cooling, OfPurpose
  <2>2. Recent(p)' \subseteq Recent(p)
    BY <1>1, <1>3, <1>4 DEF Recent, OfPurpose
  <2>3. /\ IsFiniteSet(Recent(p)) /\ Cardinality(Recent(p)) \in Nat
        /\ IsFiniteSet(Cooling(p)) /\ Cardinality(Cooling(p)) \in Nat
        /\ Cardinality(Cooling(p)) <= 1 /\ Cardinality(Recent(p)) <= MaxPerHour
    BY <1>2, CountedFinite DEF LimitInv, IssuanceLimits
  <2>4. /\ Cardinality(Cooling(p)') <= Cardinality(Cooling(p))
        /\ Cardinality(Cooling(p)') \in Nat
    BY <2>1, <2>3, FS_Subset, FS_CardinalityType
  <2>5. /\ Cardinality(Recent(p)') <= Cardinality(Recent(p))
        /\ Cardinality(Recent(p)') \in Nat
    BY <2>2, <2>3, FS_Subset, FS_CardinalityType
  <2> QED
    BY <2>3, <2>4, <2>5, PhoneAccessAssumption
<1>7. Grows
  BY <1>1, SameGrows DEF account
<1>8. CallInv'
  BY <1>1, <1>2, <1>7, CallsKeep
<1>9. AccountInv'
  BY <1>1, <1>2, AccountKeeps
<1>10. LatestInv' /\ WinInv'
  BY <1>1, <1>2, LatestKeeps, WinsKeep DEF account
<1> QED
  BY <1>5, <1>6, <1>8, <1>9, <1>10 DEF IInv

\* A code that is used was not used before, and a registration code verifies an
\* account that was not verified.
LEMMA UseStep ==
  ASSUME IInv, NEW c \in Call, UseCode(c)
  PROVE  IInv'
<1>1. PICK h \in Challenge : h = arg[c] /\ h \in ToSet(issued)
  BY CodeArgument DEF UseCode
<1>2. /\ Usable(h) /\ Complete(purpose[h]) /\ Return(c)
      /\ used' = used \cup {h}
      /\ wins' = [wins EXCEPT ![h] = IF wins[h] < 2 THEN wins[h] + 1 ELSE wins[h]]
      /\ UNCHANGED <<purpose, delivery, left, age, issued, sent>>
  BY <1>1 DEF UseCode
<1>3. RowInv /\ LatestInv /\ LimitInv /\ WinInv /\ CallInv /\ AccountInv
  BY DEF IInv
<1>4. h \notin used /\ wins \in [Challenge -> 0..2]
  BY <1>2, <1>3 DEF Usable, RowInv
<1>5. wins[h] = 0
  BY <1>3, <1>4 DEF WinInv
<1>6. /\ wins' \in [Challenge -> 0..2]
      /\ wins'[h] = 1
      /\ \A g \in Challenge : g # h => wins'[g] = wins[g]
  BY <1>2, <1>4, <1>5
<1>7. RowInv'
  BY <1>1, <1>2, <1>3, <1>6 DEF RowInv, ToSet, IsInjective
<1>8. LatestInv' /\ LimitInv'
  BY <1>2, <1>3, LatestKeeps, LimitsKeep
<1>9. \/ /\ purpose[h] = "REGISTRATION" /\ kind # "none" /\ ~verified
         /\ \E auto \in AutoApproval : Activate(auto)
      \/ purpose[h] # "REGISTRATION" /\ UNCHANGED account
  BY <1>2 DEF Complete, MayVerify
<1>10. AccountInv' /\ kind' = kind
  <2>1. CASE UNCHANGED account
    BY <1>3, <2>1, AccountKeeps DEF account
  <2>2. CASE kind # "none" /\ \E auto \in AutoApproval : Activate(auto)
    <3>1. PICK auto \in BOOLEAN : Activate(auto)
      BY <2>2, PhoneAccessAssumption
    <3>2. kind' = kind /\ verified' \in BOOLEAN /\ active' \in BOOLEAN /\ numbered' \in BOOLEAN
      BY <3>1 DEF Activate
    <3>3. /\ status' \in Decided \cup {"none", "PENDING"}
          /\ status' # "none" <=> kind' = "provider"
          /\ pushed' \subseteq {"APPROVED", "REJECTED"}
      BY <1>3, <3>1 DEF Activate, AccountInv, Decided
    <3> QED
      BY <1>3, <3>2, <3>3 DEF AccountInv
  <2> QED
    BY <1>9, <2>1, <2>2
<1>11. CallInv'
  <2>1. Grows
    BY <1>2, <1>10, SameGrows
  <2> QED
    BY <1>2, <1>3, <2>1, ReturnKeeps
<1>12. WinInv'
  <2>1. \A g \in Challenge : wins'[g] <= 1 /\ (wins'[g] > 0 => g \in used')
    BY <1>2, <1>3, <1>6 DEF WinInv
  <2>2. CASE purpose[h] = "REGISTRATION" /\ ~verified
    <3>1. \A g \in Challenge : purpose[g] = "REGISTRATION" => ~(wins[g] > 0)
      BY <1>3, <2>2 DEF WinInv, Won, OfPurpose
    <3>2. Won' = {h}
      BY <1>2, <1>6, <2>2, <3>1 DEF Won, OfPurpose
    <3>3. verified'
      BY <1>9, <2>2 DEF Activate
    <3> QED
      BY <2>1, <3>2, <3>3 DEF WinInv
  <2>3. CASE purpose[h] # "REGISTRATION" /\ UNCHANGED account
    <3>1. Won' = Won
      BY <1>2, <1>6, <2>3 DEF Won, OfPurpose
    <3> QED
      BY <1>3, <2>1, <2>3, <3>1 DEF WinInv, account
  <2> QED
    BY <1>9, <2>2, <2>3
<1> QED
  BY <1>3, <1>7, <1>8, <1>10, <1>11, <1>12 DEF IInv

\* Steps on the account that do not verify it.
LEMMA AccountStep ==
  ASSUME IInv, NEW c \in Call,
         \/ InsertAccount(c) \/ DecideProvider(c) \/ ChangeProviderStatus(c)
  PROVE  IInv'
<1>1. UNCHANGED codes /\ UNCHANGED verified
  BY DEF InsertAccount, DecideProvider, ChangeProviderStatus, account
<1>2. RowInv' /\ LatestInv' /\ LimitInv' /\ WinInv'
  BY <1>1, CodesKeep DEF IInv
<1>3. CallOK(pc[c], arg[c]) /\ AccountInv /\ CallInv
  BY DEF IInv, CallInv
<1>4. CASE InsertAccount(c)
  <2>1. CASE kind = "none"
    <3>1. /\ arg[c] \in ActorType
          /\ kind' = arg[c]
          /\ status' = IF arg[c] = "provider" THEN "PENDING" ELSE "none"
          /\ UNCHANGED <<verified, active, numbered, pushed>>
          /\ Go(c, "issue", "REGISTRATION")
      BY <1>3, <1>4, <2>1 DEF InsertAccount, CallOK
    <3>2. AccountInv'
      BY <1>3, <3>1 DEF AccountInv, ActorType
    <3>3. Grows
      BY <1>1, <2>1 DEF Grows, codes, ToSet
    <3>4. CallOK("issue", "REGISTRATION")'
      BY DEF CallOK, Purpose
    <3>5. CallInv'
      BY <1>3, <3>1, <3>3, <3>4, GoKeeps DEF Step, Argument, Purpose
    <3> QED
      BY <1>2, <3>2, <3>5 DEF IInv
  <2>2. CASE kind # "none"
    <3>1. Return(c) /\ UNCHANGED <<account, codes>>
      BY <1>4, <2>2 DEF InsertAccount, account
    <3> QED
      BY <3>1, ReturnStep
  <2> QED
    BY <2>1, <2>2
<1>5. CASE DecideProvider(c) \/ ChangeProviderStatus(c)
  <2>1. arg[c] \in Decided /\ kind = "provider" /\ Return(c)
    BY <1>3, <1>5 DEF DecideProvider, ChangeProviderStatus, CallOK
  <2>2. kind' = kind
    BY <1>5 DEF DecideProvider, ChangeProviderStatus, account
  <2>3. AccountInv'
    <3>1. CASE DecideProvider(c) /\ arg[c] \in pushed
      <4>1. UNCHANGED account
        BY <3>1 DEF DecideProvider
      <4> QED
        BY <1>3, <4>1, AccountKeeps
    <3>2. CASE ~(DecideProvider(c) /\ arg[c] \in pushed)
      <4>1. /\ status' = arg[c] /\ active' \in BOOLEAN /\ numbered' \in BOOLEAN
            /\ verified' = verified
            /\ pushed' = pushed \/ (arg[c] \in {"APPROVED", "REJECTED"} /\ pushed' = pushed \cup {arg[c]})
        <5>1. CASE DecideProvider(c)
          BY <1>3, <3>2, <5>1 DEF DecideProvider, CallOK
        <5>2. CASE ChangeProviderStatus(c)
          <6>1. numbered' = numbered /\ verified' = verified /\ pushed' = pushed
            BY <5>2 DEF ChangeProviderStatus
          <6>2. status' = arg[c] /\ active' \in BOOLEAN
            BY <5>2 DEF ChangeProviderStatus
          <6>3. numbered' \in BOOLEAN
            BY <1>3, <6>1 DEF AccountInv
          <6> QED
            BY <6>1, <6>2, <6>3
        <5> QED
          BY <1>5, <5>1, <5>2
      <4>2. arg[c] # "none"
        BY <2>1, PhoneAccessAssumption DEF Decided
      <4>3. verified' \in BOOLEAN /\ active' \in BOOLEAN /\ numbered' \in BOOLEAN
        BY <1>3, <4>1 DEF AccountInv
      <4>4. pushed' \subseteq {"APPROVED", "REJECTED"}
        BY <1>3, <4>1 DEF AccountInv
      <4>5. kind' \in ActorType \cup {"none"} /\ kind' = "provider"
        BY <2>1, <2>2 DEF ActorType
      <4>6. status' \in Decided \cup {"none", "PENDING"} /\ status' # "none"
        BY <2>1, <4>1, <4>2
      <4> QED
        BY <4>3, <4>4, <4>5, <4>6 DEF AccountInv, Decided
    <3> QED
      BY <3>1, <3>2
  <2>4. Grows
    BY <1>1, <2>2, SameGrows DEF codes
  <2>5. CallInv'
    BY <1>3, <2>1, <2>4, ReturnKeeps
  <2> QED
    BY <1>2, <2>3, <2>5 DEF IInv
<1> QED
  BY <1>4, <1>5

\* Steps that read and go on to a later step.
LEMMA ReadSteps ==
  ASSUME IInv, NEW c \in Call,
         \/ \E k \in ActorType : Register(c, k)
         \/ RequestCode(c)
         \/ \E h \in Challenge : Resend(c, h) \/ Answer(c, h)
         \/ ReadPending(c)
         \/ \E to \in {"APPROVED"} \cup Off : ReadStatus(c, to)
  PROVE  IInv'
<1>1. AccountInv /\ RowInv
  BY DEF IInv
<1>2. CASE \E k \in ActorType : Register(c, k)
  <2>1. PICK k \in ActorType : Go(c, "issue", "REGISTRATION") \/ Go(c, "insert", k)
    BY <1>2 DEF Register
  <2>2. CallOK("issue", "REGISTRATION") /\ CallOK("insert", k)
    BY DEF CallOK, Purpose
  <2>3. UNCHANGED <<account, codes>>
    BY <1>2 DEF Register
  <2> QED
    BY <2>1, <2>2, <2>3, ReadStep DEF Step, Argument, Purpose
<1>3. CASE RequestCode(c)
  <2>1. PICK p \in Purpose : Go(c, "issue", p)
    BY <1>3 DEF RequestCode, Purpose
  <2>2. CallOK("issue", p)
    BY DEF CallOK
  <2>3. UNCHANGED <<account, codes>>
    BY <1>3 DEF RequestCode
  <2> QED
    BY <2>1, <2>2, <2>3, ReadStep DEF Step, Argument
<1>4. CASE \E h \in Challenge : Resend(c, h)
  <2>1. PICK p \in Purpose : Go(c, "issue", p)
    BY <1>1, <1>4 DEF Resend, RowInv
  <2>2. CallOK("issue", p)
    BY DEF CallOK
  <2>3. UNCHANGED <<account, codes>>
    BY <1>4 DEF Resend
  <2> QED
    BY <2>1, <2>2, <2>3, ReadStep DEF Step, Argument
<1>5. CASE \E h \in Challenge : Answer(c, h)
  <2>1. PICK h \in Challenge : Answer(c, h)
    BY <1>5
  <2>2. PICK result \in {"wrong", "right"} : Go(c, result, h)
    BY <2>1 DEF Answer
  <2>3. h \in ToSet(issued)
    BY <2>1 DEF Answer, Usable
  <2>4. CallOK(result, h)
    BY <2>3 DEF CallOK
  <2>5. UNCHANGED <<account, codes>>
    BY <2>1 DEF Answer
  <2> QED
    BY <2>2, <2>4, <2>5, ReadStep DEF Step, Argument
<1>6. CASE ReadPending(c)
  <2>1. PICK outcome \in {"APPROVED", "REJECTED"} : Go(c, "decide", outcome)
    BY <1>6 DEF ReadPending
  <2>2. kind = "provider"
    BY <1>1, <1>6 DEF ReadPending, AccountInv
  <2>3. CallOK("decide", outcome)
    BY <2>2 DEF CallOK, Decided
  <2>4. UNCHANGED <<account, codes>>
    BY <1>6 DEF ReadPending
  <2> QED
    BY <2>1, <2>3, <2>4, ReadStep DEF Step, Argument, Decided
<1>7. CASE \E to \in {"APPROVED"} \cup Off : ReadStatus(c, to)
  <2>1. PICK to \in Decided : ReadStatus(c, to)
    BY <1>7 DEF Decided
  <2>2. status # "none"
    BY <2>1, PhoneAccessAssumption DEF ReadStatus, Decided
  <2>3. CallOK("change", to)
    BY <1>1, <2>2 DEF CallOK, AccountInv
  <2>4. Go(c, "change", to) /\ UNCHANGED <<account, codes>>
    BY <2>1 DEF ReadStatus
  <2> QED
    BY <2>3, <2>4, ReadStep DEF Step, Argument
<1> QED
  BY <1>2, <1>3, <1>4, <1>5, <1>6, <1>7

LEMMA NextInv == IInv /\ [Next]_vars => IInv'
<1> SUFFICES ASSUME IInv, [Next]_vars PROVE IInv'
  OBVIOUS
<1>1. CASE \E h \in Challenge : Elapse(h)
  BY <1>1, ElapseStep
<1>2. CASE \E c \in Call :
             \/ \E k \in ActorType : Register(c, k)
             \/ RequestCode(c)
             \/ \E h \in Challenge : Resend(c, h) \/ Answer(c, h)
             \/ ReadPending(c)
             \/ \E to \in {"APPROVED"} \cup Off : ReadStatus(c, to)
  BY <1>2, ReadSteps
<1>3. CASE \E c \in Call : Abandon(c)
  BY <1>3, ReturnStep DEF Abandon
<1>4. CASE \E c \in Call : InsertAccount(c) \/ DecideProvider(c) \/ ChangeProviderStatus(c)
  BY <1>4, AccountStep
<1>5. CASE \E c \in Call : Issue(c)
  BY <1>5, IssueStep
<1>6. CASE \E c \in Call : Send(c) \/ RecordSent(c) \/ RecordFailed(c)
  BY <1>6, SendStep, RecordStep
<1>7. CASE \E c \in Call : CountWrong(c) \/ UseCode(c)
  BY <1>7, CountStep, UseStep
<1>8. CASE UNCHANGED vars
  <2>1. UNCHANGED <<account, codes>> /\ UNCHANGED calls
    BY <1>8 DEF vars
  <2>2. Grows
    BY <2>1, SameGrows DEF account, codes
  <2>3. CallInv' /\ AccountInv'
    BY <2>1, <2>2, CallsKeep, AccountKeeps DEF IInv
  <2>4. RowInv' /\ LatestInv' /\ LimitInv' /\ WinInv'
    BY <2>1, CodesKeep DEF IInv, account
  <2> QED
    BY <2>3, <2>4 DEF IInv
<1> QED
  BY <1>1, <1>2, <1>3, <1>4, <1>5, <1>6, <1>7, <1>8 DEF Next

LEMMA Invariance == Spec => []IInv
BY InitInv, NextInv, PTL DEF Spec

-----------------------------------------------------------------------------

\* Account, challenges and calls keep their types, whatever overlaps.
THEOREM TypeCorrect == Spec => []TypeOK
<1>1. IInv => TypeOK
  BY DEF IInv, CallInv, AccountInv, RowInv, TypeOK, Argument
<1> QED
  BY <1>1, Invariance, PTL

\* However many requests for a code overlap, they stay within the limits of one
\* caller (create()).
THEOREM IssuanceLimitsCorrect == Spec => []IssuanceLimits
<1>1. IInv => IssuanceLimits
  BY DEF IInv, LimitInv
<1> QED
  BY <1>1, Invariance, PTL

\* A code opens one session, and a registration is completed by one code
\* (verifyAndComplete()).
THEOREM OneUseCorrect == Spec => []OneUsePerCode
<1>1. ASSUME IInv PROVE OneUsePerCode
  <2>1. WinInv
    BY <1>1 DEF IInv
  <2>2. CASE verified
    <3>1. PICK h \in Challenge : Won = {h}
      BY <2>1, <2>2 DEF WinInv
    <3>2. Cardinality(Won) = 1
      BY <3>1, FS_Singleton
    <3> QED
      BY <2>1, <2>2, <3>2 DEF WinInv, OneUsePerCode, Won
  <2>3. CASE ~verified
    <3>1. Cardinality(Won) = 0
      BY <2>1, <2>3, FS_EmptySet DEF WinInv
    <3> QED
      BY <2>1, <2>3, <3>1 DEF WinInv, OneUsePerCode, Won
  <2> QED
    BY <2>2, <2>3
<1> QED
  BY <1>1, Invariance, PTL

\* A code that can be used was accepted by the gateway, whatever was lost between
\* sending it and recording that (create()).
THEOREM SentCorrect == Spec => []UsableWasSent
<1>1. IInv => UsableWasSent
  BY DEF IInv, RowInv, UsableWasSent, Usable
<1> QED
  BY <1>1, Invariance, PTL

\* An answer wins with the newest code of its purpose and while it has attempts,
\* whatever was issued and counted since it was compared (verifyAndComplete()).
THEOREM LatestCorrect == Spec => LatestCodeOnly
<1>1. ASSUME IInv, [Next]_vars
      PROVE  [\A h \in Challenge : wins'[h] # wins[h] => IsLatest(h) /\ left[h] > 0]_vars
  <2> SUFFICES ASSUME NEW g \in Challenge, wins'[g] # wins[g]
               PROVE  IsLatest(g) /\ left[g] > 0
    OBVIOUS
  <2>1. PICK c \in Call : UseCode(c)
    BY <1>1 DEF Next, vars, codes, Elapse, Register, InsertAccount, RequestCode, Resend, Answer,
                Issue, Send, RecordSent, RecordFailed, CountWrong, ReadPending, DecideProvider,
                ReadStatus, ChangeProviderStatus, Abandon
  <2>2. Usable(arg[c]) /\ wins' = [wins EXCEPT ![arg[c]] = IF @ < 2 THEN @ + 1 ELSE @]
    BY <2>1 DEF UseCode
  <2>3. g = arg[c]
    BY <1>1, <2>2 DEF IInv, RowInv
  <2> QED
    BY <1>1, <2>2, <2>3 DEF Usable, IInv, LatestInv
<1> QED
  BY <1>1, Invariance, PTL DEF Spec, LatestCodeOnly
=============================================================================
