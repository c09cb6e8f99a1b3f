---------------------- MODULE AccountChallenges_proofs ----------------------
(***************************************************************************)
(* Proofs about LoginThrottle and AccountChallenges together, for every    *)
(* set of calls, keys and codes, and every limit.                          *)
(***************************************************************************)
EXTENDS AccountChallenges, SequenceTheorems, FiniteSetTheorems, WellFoundedInduction, TLAPS

-----------------------------------------------------------------------------
(* The inductive invariant: what each step of a call takes for granted about *)
(* the rows it has locked, those it has still to lock and those it has read. *)

NoLocks(c) == todo[c] = <<>> /\ held[c] = {} /\ advised[c] = {} /\ seen[c] = Unseen

\* recordFailure() has read what it holds, and maybe the row it asks for next; the
\* failure it counts itself is not in what it has read.
FailureOK(c) ==
  /\ todo[c] \in {<<"email", "ip", "user">>, <<"ip", "user">>, <<"user">>, <<>>}
  /\ held[c] \subseteq {"email", "ip", "user"} /\ held[c] \subseteq DOMAIN seen[c]
  /\ "email" \in held[c] => todo[c] \in {<<"ip", "user">>, <<"user">>, <<>>}
  /\ "ip" \in held[c] => todo[c] \in {<<"user">>, <<>>}
  /\ "user" \in held[c] => todo[c] = <<>>
  /\ \A k \in DOMAIN seen[c] : k \in SignInRow \ {"memory"} /\ seen[c][k] < failures[k]

SuccessOK(c) ==
  /\ todo[c] \in SuccessLists \cup {<<>>}
  /\ held[c] \subseteq {"email", "ip", "user"}
  /\ seen[c] = Unseen

\* The phone is locked after the network address, first its key and then its row.
RequestOK(c) ==
  /\ held[c] = {} /\ seen[c] = Unseen
  /\ \E i \in Ip, p \in Phone :
       \/ todo[c] = <<i, p>> /\ advised[c] = {}
       \/ todo[c] = <<p>> /\ advised[c] = {i}
       \/ todo[c] = <<>> /\ advised[c] = {i, p}

\* What was read under both keys is still there.
AdmitOK(c) ==
  /\ \E i \in Ip, p \in Phone :
       /\ advised[c] = {i, p}
       /\ \/ todo[c] = <<i, p>> /\ held[c] = {}
          \/ todo[c] = <<p>> /\ held[c] = {i}
          \/ todo[c] = <<>> /\ held[c] = {i, p}
  /\ DOMAIN seen[c] = advised[c]
  /\ \A k \in advised[c] : seen[c][k] = count[k]

\* issue() locks in the order of the table.
InOrder(c) ==
  /\ \A i, j \in DOMAIN todo[c] : i < j => Position(todo[c][i]) < Position(todo[c][j])
  /\ \A h \in held[c], i \in DOMAIN todo[c] : Position(h) < Position(todo[c][i])

IssueOK(c) ==
  /\ arg[c] \in Action /\ seen[c] = Unseen
  /\ todo[c] \in Seq(ToSet(issued))
  /\ held[c] \subseteq ToSet(issued) /\ \A h \in held[c] : Open(h)
  /\ InOrder(c)

\* The code stays open while it is held.  Who has asked for a session or its token
\* recovers the password.
CompleteOK(c) ==
  /\ arg[c] \in ToSet(issued) /\ Open(arg[c]) /\ seen[c] = Unseen
  /\ \/ todo[c] = <<"user">> /\ held[c] = {arg[c]}
     \/ todo[c] = <<>> /\ held[c] = {arg[c], "user"}
     \/ /\ action[arg[c]][1] = "PASSWORD_RECOVERY"
        /\ \/ todo[c] = <<"user", "session", "token">> /\ held[c] = {arg[c]}
           \/ todo[c] = <<"session", "token">> /\ held[c] = {arg[c], "user"}
           \/ todo[c] = <<"token">> /\ held[c] = {arg[c], "user", "session"}
           \/ todo[c] = <<>> /\ held[c] = {arg[c], "user", "session", "token"}

RotateOK(c) ==
  /\ seen[c] = Unseen
  /\ \/ todo[c] = <<"token", "session">> /\ held[c] = {}
     \/ todo[c] = <<"session">> /\ held[c] = {"token"}
     \/ todo[c] = <<>> /\ held[c] = {"token", "session"}

CallOK(c) ==
  /\ pc[c] \notin {"request", "admit"} => advised[c] = {}
  /\ pc[c] = "failure" => FailureOK(c)
  /\ pc[c] = "success" => SuccessOK(c)
  /\ pc[c] = "cleanup" => seen[c] = Unseen
  /\ pc[c] = "request" => RequestOK(c)
  /\ pc[c] = "admit" => AdmitOK(c)
  /\ pc[c] = "issue" => IssueOK(c)
  /\ pc[c] = "complete" => CompleteOK(c)
  /\ pc[c] = "rotate" => RotateOK(c)
  /\ pc[c] = "rated" => NoLocks(c) /\ arg[c] \in Action
  /\ pc[c] \in {"counted", "answered"} => NoLocks(c) /\ arg[c] \in ToSet(issued)
  /\ pc[c] \in {"idle", "rows", "ask", "account", "wrong", "right"} => NoLocks(c)

\* No row and no key is locked twice.
Apart == \A c, d \in Call : c # d => held[c] \cap held[d] = {} /\ advised[c] \cap advised[d] = {}

\* No counter exceeds the failures of its window, and a code was used if it is consumed.
CausesOK == \A k \in SignInRow : count[k] <= failures[k]
UsesOK   == \A h \in Challenge : uses[h] <= 1 /\ (uses[h] = 1 => h \in consumed)

IInv ==
  /\ TypeOK
  /\ \A c \in Call : CallOK(c)
  /\ Apart /\ RequestsAreCounted /\ CausesOK
  /\ consumed \cap superseded = {} /\ UsesOK

-----------------------------------------------------------------------------
(* Sequences. *)

LEMMA ShortLists ==
  ASSUME NEW a, NEW b, NEW d
  PROVE  /\ Head(<<a, b, d>>) = a /\ Tail(<<a, b, d>>) = <<b, d>>
         /\ Head(<<a, b>>) = a /\ Tail(<<a, b>>) = <<b>>
         /\ Head(<<a>>) = a /\ Tail(<<a>>) = <<>>
OBVIOUS

LEMMA HeadTail ==
  ASSUME NEW S, NEW s \in Seq(S), s # <<>>
  PROVE  /\ Head(s) = s[1] /\ 1 \in DOMAIN s /\ Head(s) \in S
         /\ Tail(s) \in Seq(S)
         /\ \A i \in DOMAIN Tail(s) : i + 1 \in DOMAIN s /\ Tail(s)[i] = s[i + 1] /\ 1 < i + 1
         /\ DOMAIN Tail(s) \subseteq Nat
OBVIOUS

LEMMA Elements ==
  ASSUME NEW S, NEW s \in Seq(S)
  PROVE  ToSet(s) \subseteq S /\ \A i \in DOMAIN s : s[i] \in ToSet(s)
BY DEF ToSet

LEMMA AppendOne ==
  ASSUME NEW S, NEW s \in Seq(S), NEW x \in S, x \notin ToSet(s), IsInjective(s)
  PROVE  /\ Append(s, x) \in Seq(S) /\ IsInjective(Append(s, x))
         /\ ToSet(Append(s, x)) = ToSet(s) \cup {x}
         /\ \A i \in DOMAIN s : i \in DOMAIN Append(s, x) /\ Append(s, x)[i] = s[i]
<1> DEFINE t == Append(s, x)
<1>1. /\ t \in Seq(S) /\ Len(t) = Len(s) + 1 /\ t[Len(s) + 1] = x
      /\ \A i \in 1..Len(s) : t[i] = s[i]
  OBVIOUS
<1>2. DOMAIN s = 1..Len(s) /\ DOMAIN t = 1..(Len(s) + 1) /\ Len(s) \in Nat
  BY <1>1
<1> HIDE DEF t
<1>3. ToSet(t) = ToSet(s) \cup {x}
  BY <1>1, <1>2 DEF ToSet
<1>4. IsInjective(t)
  BY <1>1, <1>2 DEF IsInjective, ToSet
<1> QED
  BY <1>1, <1>2, <1>3, <1>4 DEF t

-----------------------------------------------------------------------------
(* What the steps of one call leave of the others. *)

IssuedGrows ==
  /\ issued' = issued \/ \E h \in Unissued : issued' = Append(issued, h)
  /\ \A h \in ToSet(issued) : action'[h] = action[h]

LEMMA PositionIs ==
  ASSUME IsInjective(issued), NEW i \in DOMAIN issued
  PROVE  Position(issued[i]) = i
BY DEF Position, IsInjective

LEMMA Growth ==
  ASSUME TypeOK, IssuedGrows
  PROVE  /\ issued' \in Seq(Challenge) /\ IsInjective(issued')
         /\ ToSet(issued) \subseteq ToSet(issued')
         /\ \A h \in ToSet(issued) : Position(h) \in Nat /\ Position(h)' = Position(h)
<1>1. issued \in Seq(Challenge) /\ IsInjective(issued)
  BY DEF TypeOK
<1>2. /\ issued' \in Seq(Challenge) /\ IsInjective(issued')
      /\ ToSet(issued) \subseteq ToSet(issued')
      /\ \A i \in DOMAIN issued : i \in DOMAIN issued' /\ issued'[i] = issued[i]
  <2>1. CASE issued' = issued
    BY <1>1, <2>1
  <2>2. ASSUME NEW h \in Unissued, issued' = Append(issued, h)
        PROVE  /\ issued' \in Seq(Challenge) /\ IsInjective(issued')
               /\ ToSet(issued) \subseteq ToSet(issued')
               /\ \A i \in DOMAIN issued : i \in DOMAIN issued' /\ issued'[i] = issued[i]
    <3>1. h \in Challenge /\ h \notin ToSet(issued)
      BY DEF Unissued
    <3>2. /\ Append(issued, h) \in Seq(Challenge) /\ IsInjective(Append(issued, h))
          /\ ToSet(Append(issued, h)) = ToSet(issued) \cup {h}
          /\ \A i \in DOMAIN issued :
               i \in DOMAIN Append(issued, h) /\ Append(issued, h)[i] = issued[i]
      BY <1>1, <3>1, AppendOne
    <3> QED
      BY <2>2, <3>2
  <2> QED
    BY <2>1, <2>2 DEF IssuedGrows
<1>3. ASSUME NEW h \in ToSet(issued)
      PROVE  Position(h) \in Nat /\ Position(h)' = Position(h)
  <2>1. PICK i \in DOMAIN issued : issued[i] = h
    BY DEF ToSet
  <2>2. Position(h) = i /\ i \in Nat
    BY <1>1, <2>1, PositionIs
  <2>3. Position(h)' = i
    BY <1>2, <2>1 DEF Position, IsInjective
  <2> QED
    BY <2>2, <2>3
<1> QED
  BY <1>2, <1>3

LEMMA OthersKept ==
  ASSUME IInv, TypeOK', IssuedGrows, NEW d \in Call,
         UNCHANGED <<pc[d], todo[d], seen[d], held[d], advised[d], arg[d]>>,
         seen[d] # Unseen => /\ \A k \in SignInRow \ {"memory"} : failures[k] <= failures'[k]
                             /\ \A k \in advised[d] \cap (Ip \cup Phone) : count'[k] = count[k],
         \A h \in held[d] \cap Challenge : Open(h) => Open(h)'
  PROVE  CallOK(d)'
<1>1. CallOK(d)
  BY DEF IInv
<1>2. pc[d] = "failure" => FailureOK(d)'
  <2> SUFFICES ASSUME FailureOK(d) PROVE FailureOK(d)'
    BY <1>1 DEF CallOK
  <2>1. ASSUME NEW k \in DOMAIN seen[d] PROVE k \in SignInRow \ {"memory"} /\ seen[d][k] < failures'[k]
    <3>1. k \in SignInRow \ {"memory"} /\ seen[d][k] < failures[k] /\ seen[d] # Unseen
      BY DEF FailureOK, Unseen
    <3>2. seen[d][k] \in Nat /\ failures[k] \in Nat /\ failures'[k] \in Nat
      BY <3>1 DEF IInv, TypeOK
    <3> QED
      BY <3>1, <3>2
  <2> QED
    BY <2>1 DEF FailureOK
<1>3. pc[d] = "success" => SuccessOK(d)'
  BY <1>1 DEF CallOK, SuccessOK
<1>4. pc[d] = "request" => RequestOK(d)'
  BY <1>1 DEF CallOK, RequestOK
<1>8. pc[d] = "admit" => AdmitOK(d)'
  <2> SUFFICES ASSUME AdmitOK(d) PROVE AdmitOK(d)'
    BY <1>1 DEF CallOK
  <2>1. advised[d] \subseteq Ip \cup Phone /\ seen[d] # Unseen
    BY DEF AdmitOK, Unseen
  <2> QED
    BY <2>1 DEF AdmitOK
<1>9. pc[d] = "rotate" => RotateOK(d)'
  BY <1>1 DEF CallOK, RotateOK
<1>5. ToSet(issued) \subseteq ToSet(issued')
  BY Growth DEF IInv
<1>6. pc[d] = "issue" => IssueOK(d)'
  <2> SUFFICES ASSUME IssueOK(d) PROVE IssueOK(d)'
    BY <1>1 DEF CallOK
  <2>1. /\ \A i \in DOMAIN todo[d] : todo[d][i] \in ToSet(issued)
        /\ ToSet(issued) \subseteq Challenge
    BY Elements DEF IssueOK, IInv, TypeOK
  <2>2. \A h \in ToSet(issued) : Position(h)' = Position(h)
    BY Growth DEF IInv
  <2>3. InOrder(d)'
    BY <2>1, <2>2 DEF IssueOK, InOrder
  <2>4. todo'[d] \in Seq(ToSet(issued'))
    BY <1>5 DEF IssueOK
  <2> QED
    BY <1>5, <2>1, <2>3, <2>4 DEF IssueOK
<1>7. pc[d] = "complete" => CompleteOK(d)'
  <2> SUFFICES ASSUME CompleteOK(d) PROVE CompleteOK(d)'
    BY <1>1 DEF CallOK
  <2>1. arg[d] \in held[d] \cap Challenge
    BY Elements DEF CompleteOK, IInv, TypeOK
  <2>2. action'[arg[d]] = action[arg[d]] /\ arg[d] \in ToSet(issued') /\ Open(arg[d])'
    BY <1>5, <2>1 DEF CompleteOK, IssuedGrows
  <2> QED
    BY <2>2 DEF CompleteOK
<1> QED
  BY <1>1, <1>2, <1>3, <1>4, <1>5, <1>6, <1>7, <1>8, <1>9 DEF CallOK, NoLocks

OthersRest(c) ==
  \A d \in Call \ {c} : UNCHANGED <<pc[d], todo[d], seen[d], held[d], advised[d], arg[d]>>

\* A call keeps its rows and keys, gives some back or takes one that is free.
HoldsMore(c) ==
  /\ \E k : held'[c] \subseteq held[c] \cup {k} /\ (k \in held'[c] \ held[c] => Free(c, k))
  /\ \E k : /\ advised'[c] \subseteq advised[c] \cup {k}
            /\ k \in advised'[c] \ advised[c] => \A d \in Call \ {c} : k \notin advised[d]

LEMMA ApartKept ==
  ASSUME IInv, NEW c \in Call, OthersRest(c), HoldsMore(c)
  PROVE  Apart'
BY DEF IInv, Apart, OthersRest, HoldsMore, Free

\* The parts of TypeOK.
CallTypes ==
  /\ pc \in [Call -> Step]
  /\ todo \in [Call -> Seq(Rows)]
  /\ DOMAIN seen = Call
  /\ \A c \in Call : seen[c] \in [DOMAIN seen[c] -> Nat] /\ DOMAIN seen[c] \subseteq Row
  /\ held \in [Call -> SUBSET Rows]
  /\ advised \in [Call -> SUBSET (Ip \cup Phone)]
  /\ arg \in [Call -> Challenge \cup Action \cup {Nothing}]

CounterTypes ==
  /\ count \in [Row -> Nat] /\ locked \subseteq Row
  /\ aged \subseteq Row \ {"memory", "user"}
  /\ failures \in [SignInRow -> Nat]
  /\ admitted \in [Ip \cup Phone -> Nat]
  /\ started \in 0..MaxCalls

ChallengeTypes ==
  /\ issued \in Seq(Challenge) /\ IsInjective(issued)
  /\ action \in [ToSet(issued) -> Action]
  /\ consumed \cup superseded \cup expired \cup resendable \subseteq ToSet(issued)
  /\ left \in [Challenge -> 0..MaxAttempts]
  /\ verified \in BOOLEAN
  /\ uses \in [Challenge -> 0..2]

LEMMA TypeParts == TypeOK <=> CallTypes /\ CounterTypes /\ ChallengeTypes
BY DEF TypeOK, CallTypes, CounterTypes, ChallengeTypes

\* A step of one call that spoils nothing the others have locked.
LEMMA OneCall ==
  ASSUME IInv, TypeOK', NEW c \in Call, OthersRest(c), HoldsMore(c), CallOK(c)', IssuedGrows,
         \A k \in SignInRow \ {"memory"} : failures[k] <= failures'[k],
         \A k \in (Ip \cup Phone) \ advised[c] : count'[k] = count[k],
         \A h \in Challenge \ held[c] : Open(h) => Open(h)',
         RequestsAreCounted', CausesOK', UsesOK', (consumed \cap superseded = {})'
  PROVE  IInv'
<1>1. ASSUME NEW d \in Call \ {c} PROVE CallOK(d)'
  <2>1. held[d] \cap held[c] = {} /\ advised[d] \cap advised[c] = {}
    BY DEF IInv, Apart
  <2> QED
    BY <2>1, OthersKept DEF OthersRest
<1> QED
  BY <1>1, ApartKept DEF IInv

\* A call goes on or returns, and no counter but that of the calls and no code changes.
LEMMA CallOnly ==
  ASSUME IInv, TypeOK', NEW c \in Call, OthersRest(c), HoldsMore(c), CallOK(c)',
         UNCHANGED <<count, failures, admitted, issued, action, consumed, superseded, uses>>
  PROVE  IInv'
<1>1. IssuedGrows
  BY DEF IssuedGrows
<1>2. \A k \in SignInRow : failures[k] <= failures'[k]
  BY DEF IInv, TypeOK
<1>3. \A h : Open(h) => Open(h)'
  BY DEF Open
<1>4. RequestsAreCounted' /\ CausesOK' /\ UsesOK' /\ (consumed \cap superseded = {})'
  BY DEF IInv, RequestsAreCounted, CausesOK, UsesOK
<1> QED
  BY <1>1, <1>2, <1>3, <1>4, OneCall

\* What a step between two statements needs, and what it is worth.
LEMMA Between ==
  ASSUME IInv, NEW c \in Call, NEW step, NEW rows \in Seq(Rows), Go(c, step, rows),
         UNCHANGED <<count, aged, locked, failures, admitted, seen, held, advised, challenges>>,
         started' \in 0..MaxCalls, step \in Step,
         arg' = arg \/ \E value \in Challenge \cup Action \cup {Nothing} :
                         arg' = [arg EXCEPT ![c] = value],
         CallOK(c)'
  PROVE  IInv'
<1>1. TypeOK'
  BY DEF IInv, TypeOK, Go, challenges
<1>2. OthersRest(c)
  BY DEF IInv, TypeOK, Go, OthersRest
<1>3. HoldsMore(c)
  BY DEF HoldsMore
<1> QED
  BY <1>1, <1>2, <1>3, CallOnly DEF challenges

LEMMA StartType ==
  ASSUME IInv, NEW c \in Call, Start(c)
  PROVE  pc[c] = "idle" /\ NoLocks(c) /\ started' \in 0..MaxCalls
BY ThrottleAssumption DEF IInv, TypeOK, Start, CallOK

-----------------------------------------------------------------------------
(* The steps of sign-ins and of their throttle. *)

LEMMA NoLocksKept ==
  ASSUME NEW c \in Call, NoLocks(c), UNCHANGED <<seen, held, advised>>, todo'[c] = <<>>
  PROVE  NoLocks(c)'
BY DEF NoLocks

LEMMA SignInSteps ==
  ASSUME IInv, NEW c \in Call, AskMemory(c) \/ AskRows(c) \/ ReadAccount(c),
         UNCHANGED <<challenges, arg>>
  PROVE  IInv'
<1>1. PICK step \in {"rows", "account", "idle", "wrong", "right"} : Go(c, step, <<>>) /\ step \in Step
  BY DEF AskMemory, AskRows, ReadAccount, Step
<1>2. started' \in 0..MaxCalls
  BY StartType DEF AskMemory, AskRows, ReadAccount, counters, IInv, TypeOK
<1>3. UNCHANGED <<count, aged, locked, failures, admitted, seen, held, advised>>
  BY DEF AskMemory, AskRows, ReadAccount, counters
<1>4. NoLocks(c)
  BY DEF AskMemory, AskRows, ReadAccount, Start, IInv, CallOK
<1>5. pc'[c] = step /\ todo'[c] = <<>>
  BY <1>1 DEF Go, IInv, TypeOK
<1>6. CallOK(c)'
  BY <1>3, <1>4, <1>5, NoLocksKept DEF CallOK, NoLocks
<1>7. <<>> \in Seq(Rows)
  OBVIOUS
<1> QED
  BY <1>1, <1>2, <1>3, <1>6, <1>7, Between

LEMMA Returns ==
  ASSUME IInv, NEW c \in Call, Return(c), arg' = arg \/ arg' = [arg EXCEPT ![c] = Nothing]
  PROVE  CallTypes' /\ OthersRest(c) /\ HoldsMore(c) /\ CallOK(c)' /\ pc'[c] = "idle"
<1>1. /\ pc'[c] = "idle" /\ todo'[c] = <<>> /\ seen'[c] = Unseen /\ held'[c] = {} /\ advised'[c] = {}
      /\ OthersRest(c)
  BY DEF IInv, TypeOK, Return, Go, OthersRest
<1>2. CallTypes'
  <2>1. CallTypes
    BY TypeParts DEF IInv
  <2>2. Unseen \in [DOMAIN Unseen -> Nat] /\ DOMAIN Unseen \subseteq Row
    BY DEF Unseen
  <2> QED
    BY <2>1, <2>2 DEF CallTypes, Return, Go, Step
<1>3. HoldsMore(c)
  BY <1>1 DEF HoldsMore
<1>4. CallOK(c)'
  BY <1>1 DEF CallOK, NoLocks
<1> QED
  BY <1>1, <1>2, <1>3, <1>4

LEMMA Written ==
  ASSUME CounterTypes, NEW value, value \in [DOMAIN value -> Nat], DOMAIN value \subseteq Row,
         WriteRows(value)
  PROVE  /\ count' \in [Row -> Nat] /\ locked' \subseteq Row /\ aged' \subseteq aged
         /\ \A k \in Row : count'[k] = IF k \in DOMAIN value THEN value[k] ELSE count[k]
         /\ \A k \in locked' \ locked : count'[k] >= Maximum(k)
BY DEF CounterTypes, WriteRows

\* A call writes rows it has locked, or the memory, and no code.
LEMMA Writes ==
  ASSUME IInv, NEW c \in Call, OthersRest(c), HoldsMore(c), CallTypes', CallOK(c)',
         NEW value, value \in [DOMAIN value -> Nat], DOMAIN value \subseteq Row,
         DOMAIN value \cap (Ip \cup Phone) \subseteq advised[c], WriteRows(value),
         failures' \in [SignInRow -> Nat],
         \A k \in SignInRow : k # "memory" \/ k \notin DOMAIN value => failures[k] <= failures'[k],
         \A k \in SignInRow \cap DOMAIN value : value[k] <= failures'[k],
         admitted' \in [Ip \cup Phone -> Nat],
         \A k \in Ip \cup Phone : admitted'[k] = IF k \in DOMAIN value THEN value[k] ELSE admitted[k],
         UNCHANGED <<started, challenges>>
  PROVE  IInv'
<1>1. CounterTypes /\ ChallengeTypes /\ RequestsAreCounted /\ CausesOK
  BY TypeParts DEF IInv
<1>2. /\ count' \in [Row -> Nat] /\ locked' \subseteq Row /\ aged' \subseteq aged
      /\ \A k \in Row : count'[k] = IF k \in DOMAIN value THEN value[k] ELSE count[k]
  BY <1>1, Written
<1>3. TypeOK'
  <2>1. CounterTypes'
    BY <1>1, <1>2 DEF CounterTypes
  <2>2. ChallengeTypes'
    BY <1>1 DEF ChallengeTypes, challenges
  <2> QED
    BY <2>1, <2>2, TypeParts DEF TypeOK, CallTypes, CounterTypes, ChallengeTypes
<1>4. IssuedGrows
  BY DEF IssuedGrows, challenges
<1>5. \A h : Open(h) => Open(h)'
  BY DEF Open, challenges
<1>6. UsesOK' /\ (consumed \cap superseded = {})'
  BY DEF IInv, UsesOK, challenges
<1>7. \A k \in (Ip \cup Phone) \ advised[c] : count'[k] = count[k]
  BY <1>2 DEF Row
<1>8. RequestsAreCounted'
  BY <1>1, <1>2 DEF RequestsAreCounted, Row
<1>9. CausesOK'
  <2> SUFFICES ASSUME NEW k \in SignInRow PROVE count'[k] <= failures'[k]
    BY DEF CausesOK
  <2>1. /\ k \in Row /\ count[k] <= failures[k]
        /\ k \notin DOMAIN value => failures[k] <= failures'[k]
        /\ count[k] \in Nat /\ failures[k] \in Nat /\ failures'[k] \in Nat
    BY <1>1 DEF CausesOK, CounterTypes, Row
  <2> QED
    BY <1>2, <2>1
<1> QED
  BY <1>3, <1>4, <1>5, <1>6, <1>7, <1>8, <1>9, OneCall

LEMMA FiniteRows == IsFiniteSet(Row)
<1>1. IsFiniteSet(Ip) /\ IsFiniteSet(Phone)
  BY ThrottleAssumption
<1>2. IsFiniteSet(Ip \cup Phone)
  BY <1>1, FS_Union
<1>3. IsFiniteSet({"memory"} \cup {"email"}) /\ IsFiniteSet({"ip"} \cup {"user"})
  BY FS_Singleton, FS_Union
<1>4. SignInRow = ({"memory"} \cup {"email"}) \cup ({"ip"} \cup {"user"})
  BY DEF SignInRow
<1>5. IsFiniteSet(SignInRow)
  BY <1>3, <1>4, FS_Union
<1>6. Row = SignInRow \cup (Ip \cup Phone)
  BY DEF Row
<1> QED
  BY <1>2, <1>5, <1>6, FS_Union

LEMMA FindExpiredStep ==
  ASSUME IInv, NEW c \in Call, FindExpired(c), UNCHANGED <<challenges, arg>>
  PROVE  IInv'
<1>1. CallTypes /\ CounterTypes
  BY TypeParts DEF IInv
<1>2. NoLocks(c)
  BY DEF FindExpired, IInv, CallOK
<1>3. PICK step \in {"ask", "cleanup"}, rows \in Seq(Rows) :
        Go(c, step, rows) /\ (step = "ask" => rows = <<>>)
  <2>1. ASSUME NEW S \in SUBSET (aged \ locked), NEW rows \in SetToSeqs(S)
        PROVE  rows \in Seq(Rows)
    <3>1. S \subseteq Row /\ S \subseteq Rows
      BY <1>1 DEF CounterTypes, Rows
    <3>2. Cardinality(S) \in Nat
      BY <3>1, FiniteRows, FS_Subset, FS_CardinalityType
    <3>3. rows \in [1..Cardinality(S) -> S]
      BY DEF SetToSeqs
    <3>4. Seq(S) = UNION {[1..n -> S] : n \in Nat}
      BY SeqDef
    <3>5. rows \in Seq(S)
      BY <3>2, <3>3, <3>4, Zenon
    <3> QED
      BY <3>1, <3>5
  <2>2. CASE Go(c, "ask", <<>>)
    <3>1. <<>> \in Seq(Rows)
      OBVIOUS
    <3> QED
      BY <2>2, <3>1, Zenon
  <2>3. CASE \E S \in SUBSET (aged \ locked) \ {{}} : \E rows \in SetToSeqs(S) : Go(c, "cleanup", rows)
    BY <2>1, <2>3
  <2> QED
    BY <2>2, <2>3 DEF FindExpired
<1>4. UNCHANGED <<count, aged, locked, failures, admitted, started, seen, held, advised>>
  BY DEF FindExpired, counters
<1>5. started' \in 0..MaxCalls /\ step \in Step
  BY <1>1, <1>4 DEF CounterTypes, Step, Locking
<1>6. pc'[c] = step /\ todo'[c] = rows
  BY <1>1, <1>3 DEF Go, CallTypes
<1>7. CallOK(c)'
  BY <1>2, <1>3, <1>4, <1>6 DEF CallOK, NoLocks
<1> QED
  BY <1>3, <1>4, <1>5, <1>7, Between

LEMMA CleanedUpStep ==
  ASSUME IInv, NEW c \in Call, CleanedUp(c), UNCHANGED <<challenges, arg>>
  PROVE  IInv'
<1>1. CallTypes /\ CounterTypes /\ ChallengeTypes
  BY TypeParts DEF IInv
<1>2. seen[c] = Unseen /\ advised[c] = {}
  BY DEF CleanedUp, IInv, CallOK
<1>3. /\ pc'[c] = "ask" /\ todo'[c] = <<>> /\ held'[c] = {} /\ OthersRest(c)
      /\ UNCHANGED <<count, locked, failures, admitted, started, seen, advised>>
  BY <1>1 DEF CleanedUp, Go, CallTypes, OthersRest
<1>4. CallOK(c)'
  BY <1>2, <1>3 DEF CallOK, NoLocks
<1>5. HoldsMore(c)
  BY <1>3 DEF HoldsMore
<1>6. TypeOK'
  <2>1. CallTypes'
    BY <1>1 DEF CleanedUp, Go, CallTypes, Step
  <2>2. CounterTypes'
    BY <1>1 DEF CleanedUp, CounterTypes
  <2> QED
    BY <1>1, <2>1, <2>2, TypeParts DEF TypeOK, CallTypes, CounterTypes, ChallengeTypes, challenges
<1> QED
  BY <1>3, <1>4, <1>5, <1>6, CallOnly DEF challenges

LEMMA RequestStep ==
  ASSUME IInv, NEW c \in Call, Request(c), UNCHANGED <<challenges, arg>>
  PROVE  IInv'
<1>1. PICK i \in Ip, p \in Phone : Go(c, "request", <<i, p>>)
  BY DEF Request, LockOrder
<1>2. NoLocks(c) /\ started' \in 0..MaxCalls /\ "request" \in Step
  BY StartType DEF Request, Step
<1>3. <<i, p>> \in Seq(Rows)
  BY DEF Rows, Row
<1>4. UNCHANGED <<count, aged, locked, failures, admitted, seen, held, advised, challenges>>
  BY DEF Request
<1>5. pc'[c] = "request" /\ todo'[c] = <<i, p>>
  BY <1>1 DEF Go, IInv, TypeOK
<1>6. RequestOK(c)'
  BY <1>2, <1>4, <1>5 DEF NoLocks, RequestOK
<1>7. CallOK(c)'
  BY <1>5, <1>6 DEF CallOK
<1> QED
  BY <1>1, <1>2, <1>3, <1>4, <1>7, Between

LEMMA AdviseStep ==
  ASSUME IInv, NEW c \in Call, Advise(c), UNCHANGED <<challenges, arg>>
  PROVE  IInv'
<1> DEFINE k == Head(todo[c])
<1>1. CallTypes /\ CounterTypes /\ ChallengeTypes
  BY TypeParts DEF IInv
<1>2. /\ RequestOK(c) /\ pc[c] = "request" /\ todo[c] # <<>>
      /\ \A d \in Call \ {c} : k \notin advised[d]
      /\ UNCHANGED <<counters, pc, seen, held>>
  BY DEF Advise, IInv, CallOK
<1>3. /\ todo'[c] = Tail(todo[c]) /\ todo' = [todo EXCEPT ![c] = Tail(@)]
      /\ advised'[c] = advised[c] \cup {k} /\ advised' = [advised EXCEPT ![c] = @ \cup {k}]
      /\ OthersRest(c)
  BY <1>1 DEF Advise, CallTypes, OthersRest
<1>4. /\ k \in Ip \cup Phone /\ Tail(todo[c]) \in Seq(Rows) /\ RequestOK(c)'
  <2>1. PICK i \in Ip, p \in Phone :
           \/ todo[c] = <<i, p>> /\ advised[c] = {}
           \/ todo[c] = <<p>> /\ advised[c] = {i}
    BY <1>2 DEF RequestOK
  <2>2. CASE todo[c] = <<i, p>> /\ advised[c] = {}
    <3>1. k = i /\ Tail(todo[c]) = <<p>>
      BY <2>2, ShortLists
    <3> HIDE DEF k
    <3> QED
      BY <1>2, <1>3, <2>2, <3>1 DEF RequestOK, Rows, Row
  <2>3. CASE todo[c] = <<p>> /\ advised[c] = {i}
    <3>1. k = p /\ Tail(todo[c]) = <<>>
      BY <2>3, ShortLists
    <3> HIDE DEF k
    <3> QED
      BY <1>2, <1>3, <2>3, <3>1 DEF RequestOK
  <2> QED
    BY <2>1, <2>2, <2>3
<1>5. TypeOK'
  <2>1. todo' \in [Call -> Seq(Rows)] /\ advised' \in [Call -> SUBSET (Ip \cup Phone)]
    BY <1>1, <1>3, <1>4 DEF CallTypes
  <2>2. CallTypes'
    BY <1>1, <1>2, <2>1 DEF CallTypes
  <2> QED
    BY <1>1, <1>2, <2>2, TypeParts DEF counters, challenges, TypeOK, CallTypes, CounterTypes, ChallengeTypes
<1>6. CallOK(c)'
  BY <1>2, <1>4 DEF CallOK
<1>7. HoldsMore(c)
  BY <1>2, <1>3 DEF HoldsMore
<1> QED
  BY <1>2, <1>3, <1>5, <1>6, <1>7, CallOnly DEF counters, challenges

LEMMA LookAtRequestsStep ==
  ASSUME IInv, NEW c \in Call, LookAtRequests(c), UNCHANGED <<challenges, arg>>
  PROVE  IInv'
<1>1. CallTypes /\ CounterTypes /\ ChallengeTypes
  BY TypeParts DEF IInv
<1>2. RequestOK(c) /\ pc[c] = "request" /\ todo[c] = <<>> /\ UNCHANGED counters
  BY DEF LookAtRequests, IInv, CallOK
<1>3. CASE Return(c)
  <2>1. CallTypes' /\ OthersRest(c) /\ HoldsMore(c) /\ CallOK(c)'
    BY <1>3, Returns
  <2>2. TypeOK'
    BY <1>1, <1>2, <2>1, TypeParts DEF counters, challenges, TypeOK,
       CallTypes, CounterTypes, ChallengeTypes
  <2> QED
    BY <1>2, <2>1, <2>2, CallOnly DEF counters, challenges
<1>4. CASE /\ seen' = [seen EXCEPT ![c] = Restrict(count, advised[c])]
           /\ \E i \in Ip \cap advised[c], p \in Phone \cap advised[c] : Go(c, "admit", <<i, p>>)
           /\ UNCHANGED <<held, advised>>
  <2>1. PICK i \in Ip, p \in Phone : advised[c] = {i, p}
    BY <1>2, ShortLists DEF RequestOK
  <2>2. Go(c, "admit", <<i, p>>)
    <3>1. PICK j \in Ip \cap advised[c], q \in Phone \cap advised[c] : Go(c, "admit", <<j, q>>)
      BY <1>4
    <3>2. j = i /\ q = p
      BY <2>1, <3>1, ThrottleAssumption
    <3> QED
      BY <3>1, <3>2
  <2>3. /\ seen'[c] = [k \in advised[c] |-> count[k]]
        /\ pc'[c] = "admit" /\ todo'[c] = <<i, p>>
        /\ OthersRest(c) /\ DOMAIN seen' = Call
    BY <1>1, <1>4, <2>2 DEF CallTypes, Restrict, OthersRest, Go
  <2>4. /\ DOMAIN seen'[c] = advised[c] /\ \A k \in advised[c] : seen'[c][k] = count[k]
        /\ seen'[c] \in [DOMAIN seen'[c] -> Nat] /\ DOMAIN seen'[c] \subseteq Row
    BY <1>1, <2>1, <2>3 DEF CounterTypes, Row
  <2>5. CallTypes'
    <3>1. <<i, p>> \in Seq(Rows) /\ "admit" \in Step
      BY DEF Rows, Row, Step, Locking
    <3>2. pc' \in [Call -> Step] /\ todo' \in [Call -> Seq(Rows)]
      BY <1>1, <2>2, <3>1 DEF CallTypes, Go
    <3> QED
      BY <1>1, <1>4, <2>3, <2>4, <3>2 DEF CallTypes, OthersRest
  <2>6. AdmitOK(c)'
    BY <1>2, <1>4, <2>1, <2>3, <2>4 DEF RequestOK, AdmitOK, counters
  <2>7. CallOK(c)'
    BY <2>3, <2>6 DEF CallOK
  <2>8. TypeOK'
    BY <1>1, <1>2, <2>5, TypeParts DEF counters, challenges, TypeOK,
       CallTypes, CounterTypes, ChallengeTypes
  <2>9. HoldsMore(c)
    BY <1>4 DEF HoldsMore
  <2> QED
    BY <1>2, <2>3, <2>7, <2>8, <2>9, CallOnly DEF counters, challenges
<1> QED
  BY <1>3, <1>4 DEF LookAtRequests

LEMMA RequestAdmittedStep ==
  ASSUME IInv, NEW c \in Call, RequestAdmitted(c), UNCHANGED <<challenges, arg>>
  PROVE  IInv'
<1> DEFINE value == [k \in held[c] |-> seen[c][k] + 1]
<1>1. CallTypes /\ CounterTypes /\ RequestsAreCounted
  BY TypeParts DEF IInv
<1>2. AdmitOK(c) /\ todo[c] = <<>>
  BY DEF RequestAdmitted, IInv, CallOK
<1>3. held[c] = advised[c] /\ held[c] \subseteq Ip \cup Phone /\ \A k \in held[c] : seen[c][k] = admitted[k]
  <2>1. held[c] = advised[c] /\ held[c] \subseteq Ip \cup Phone
    BY <1>2, ShortLists DEF AdmitOK
  <2> QED
    BY <1>1, <1>2, <2>1 DEF AdmitOK, RequestsAreCounted
<1>4. CallTypes' /\ OthersRest(c) /\ HoldsMore(c) /\ CallOK(c)'
  BY Returns DEF RequestAdmitted
<1>5. /\ value \in [DOMAIN value -> Nat] /\ DOMAIN value = held[c] /\ DOMAIN value \subseteq Row
      /\ \A k \in DOMAIN value : value[k] = admitted[k] + 1
  BY <1>1, <1>3 DEF CounterTypes, Row
<1>6. /\ admitted' \in [Ip \cup Phone -> Nat]
      /\ \A k \in Ip \cup Phone : admitted'[k] = IF k \in DOMAIN value THEN value[k] ELSE admitted[k]
  BY <1>1, <1>5 DEF RequestAdmitted, CounterTypes
<1>7. \A k \in SignInRow : k \notin DOMAIN value
  BY <1>3, ThrottleAssumption
<1>8. WriteRows(value)
  BY DEF RequestAdmitted
<1>9. failures' \in [SignInRow -> Nat] /\ \A k \in SignInRow : failures[k] <= failures'[k]
  BY <1>1 DEF RequestAdmitted, CounterTypes
<1> QED
  <2> HIDE DEF value
  <2>1. UNCHANGED <<started, challenges>>
    BY DEF RequestAdmitted
  <2> QED
    BY <1>3, <1>4, <1>5, <1>6, <1>7, <1>8, <1>9, <2>1, Writes

LEMMA ReadRowStep ==
  ASSUME IInv, NEW c \in Call, ReadRow(c), UNCHANGED <<challenges, arg>>
  PROVE  IInv'
<1> DEFINE k == Head(todo[c])
<1>1. CallTypes /\ CounterTypes /\ ChallengeTypes /\ CausesOK
  BY TypeParts DEF IInv
<1>2. FailureOK(c) /\ pc[c] = "failure" /\ todo[c] # <<>> /\ k \notin DOMAIN seen[c]
  BY DEF ReadRow, IInv, CallOK
<1>3. k \in {"email", "ip", "user"} /\ k \in SignInRow /\ k \in Row
  BY <1>2, ShortLists DEF FailureOK, SignInRow, Row
<1>4. /\ failures' = [failures EXCEPT ![k] = @ + 1]
      /\ failures' \in [SignInRow -> Nat]
      /\ \A j \in SignInRow : failures[j] <= failures'[j]
      /\ failures'[k] = failures[k] + 1
  BY <1>1, <1>3 DEF ReadRow, CounterTypes
<1>5. /\ DOMAIN seen' = Call /\ OthersRest(c)
      /\ DOMAIN seen'[c] = DOMAIN seen[c] \cup {k}
      /\ \A j \in DOMAIN seen[c] : seen'[c][j] = seen[c][j]
      /\ seen'[c][k] = count[k]
  BY <1>1, <1>2 DEF ReadRow, CallTypes, OthersRest
<1>6. seen'[c] \in [DOMAIN seen'[c] -> Nat] /\ DOMAIN seen'[c] \subseteq Row
  <2>1. seen'[c] = [j \in DOMAIN seen[c] \cup {k} |-> IF j \in DOMAIN seen[c] THEN seen[c][j] ELSE count[j]]
    BY <1>1 DEF ReadRow, CallTypes
  <2>2. \A j \in DOMAIN seen[c] \cup {k} : (IF j \in DOMAIN seen[c] THEN seen[c][j] ELSE count[j]) \in Nat
    BY <1>1, <1>3 DEF CallTypes, CounterTypes
  <2> QED
    BY <1>1, <1>3, <1>5, <2>1, <2>2 DEF CallTypes
<1>7. CallTypes'
  BY <1>1, <1>5, <1>6 DEF CallTypes, OthersRest, ReadRow
<1>8. FailureOK(c)'
  <2>1. ASSUME NEW j \in DOMAIN seen'[c] PROVE j \in SignInRow \ {"memory"} /\ seen'[c][j] < failures'[j]
    <3>1. CASE j = k
      BY <1>1, <1>3, <1>4, <1>5, <3>1 DEF CausesOK, CounterTypes
    <3>2. CASE j \in DOMAIN seen[c]
      <4>1. j \in SignInRow \ {"memory"} /\ seen[c][j] < failures[j] /\ seen[c][j] \in Nat
        BY <1>1, <1>2, <3>2 DEF FailureOK, CallTypes
      <4> QED
        BY <1>1, <1>4, <1>5, <3>2, <4>1 DEF CounterTypes
    <3> QED
      BY <1>5, <3>1, <3>2
  <2> QED
    BY <1>2, <1>5, <2>1 DEF FailureOK, ReadRow
<1>9. CallOK(c)'
  BY <1>2, <1>8 DEF IInv, CallOK, ReadRow
<1>10. TypeOK'
  BY <1>1, <1>4, <1>7, TypeParts DEF ReadRow, challenges, TypeOK, CallTypes, CounterTypes, ChallengeTypes
<1>11. CausesOK' /\ RequestsAreCounted' /\ UsesOK' /\ (consumed \cap superseded = {})'
  <2>1. CausesOK'
    BY <1>1, <1>4 DEF CausesOK, ReadRow, CounterTypes, Row
  <2> QED
    BY <2>1 DEF IInv, RequestsAreCounted, UsesOK, ReadRow, challenges
<1>12. IssuedGrows /\ HoldsMore(c) /\ \A h : Open(h) => Open(h)'
  BY DEF IssuedGrows, HoldsMore, Open, ReadRow, challenges
<1> QED
  BY <1>4, <1>5, <1>9, <1>10, <1>11, <1>12, OneCall DEF ReadRow

LEMMA SignInLists ==
  ASSUME NEW s \in SuccessLists \cup {<<"email", "ip", "user">>}
  PROVE  /\ s \in Seq(Rows) /\ Head(s) \in {"email", "ip", "user"}
         /\ s = <<"email", "ip", "user">> => Tail(s) = <<"ip", "user">>
         /\ s = <<"ip", "user">> => Tail(s) = <<"user">>
         /\ s = <<"user">> => Tail(s) = <<>>
         /\ Tail(s) \in SuccessLists \cup {<<>>}
         /\ Head(s) = "user" => Tail(s) = <<>>
<1>1. {"email", "ip", "user"} \subseteq Rows
  BY DEF Rows, Row, SignInRow
<1>2. CASE s = <<"user">>
  <2>1. s \in Seq(Rows) /\ Head(s) = "user" /\ Tail(s) = <<>>
    BY <1>1, <1>2
  <2> QED
    BY <1>2, <2>1
<1>3. CASE s = <<"email", "user">>
  <2>1. s \in Seq(Rows) /\ Head(s) = "email" /\ Tail(s) = <<"user">>
    BY <1>1, <1>3
  <2> QED
    BY <1>3, <2>1 DEF SuccessLists
<1>4. CASE s = <<"ip", "user">>
  <2>1. s \in Seq(Rows) /\ Head(s) = "ip" /\ Tail(s) = <<"user">>
    BY <1>1, <1>4
  <2> QED
    BY <1>4, <2>1 DEF SuccessLists
<1>5. CASE s = <<"email", "ip", "user">>
  <2>1. s \in Seq(Rows) /\ Head(s) = "email" /\ Tail(s) = <<"ip", "user">>
    BY <1>1, <1>5
  <2> QED
    BY <1>5, <2>1 DEF SuccessLists
<1>6. CASE s = <<"ip", "email", "user">>
  <2>1. s \in Seq(Rows) /\ Head(s) = "ip" /\ Tail(s) = <<"email", "user">>
    BY <1>1, <1>6
  <2> QED
    BY <1>6, <2>1 DEF SuccessLists
<1> QED
  BY <1>2, <1>3, <1>4, <1>5, <1>6 DEF SuccessLists

\* The row that was asked for is free: the call has it now, unless it need not have it.
LEMMA TakeShape ==
  ASSUME IInv, NEW c \in Call, Take(c), UNCHANGED arg
  PROVE  /\ pc[c] \in Locking /\ todo[c] # <<>> /\ Head(todo[c]) \in Rows
         /\ pc[c] = "failure" => Head(todo[c]) \in DOMAIN seen[c]
         /\ todo'[c] = Tail(todo[c])
         /\ held'[c] = held[c] \/ held'[c] = held[c] \cup {Head(todo[c])}
         /\ pc[c] \notin {"cleanup", "success"} => held'[c] = held[c] \cup {Head(todo[c])}
         /\ todo' = [todo EXCEPT ![c] = Tail(@)] /\ held' \in [Call -> SUBSET Rows]
         /\ OthersRest(c) /\ HoldsMore(c)
         /\ UNCHANGED <<counters, pc, seen, advised>>
<1> DEFINE k == Head(todo[c])
<1>1. CallTypes
  BY TypeParts DEF IInv
<1>2. /\ pc[c] \in Locking /\ todo[c] # <<>> /\ Wants(c, k) /\ Free(c, k)
      /\ held' = [held EXCEPT ![c] = IF StillWanted(c, k) THEN @ \cup {k} ELSE @]
      /\ todo' = [todo EXCEPT ![c] = Tail(@)]
      /\ UNCHANGED <<counters, pc, seen, advised>>
  BY DEF Take
<1>3. k \in Rows
  BY <1>1, <1>2, HeadTail DEF CallTypes
<1> HIDE DEF k
<1>4. /\ held'[c] = IF StillWanted(c, k) THEN held[c] \cup {k} ELSE held[c]
      /\ held' \in [Call -> SUBSET Rows] /\ todo'[c] = Tail(todo[c])
  BY <1>1, <1>2, <1>3 DEF CallTypes
<1>5. pc[c] \notin {"cleanup", "success"} => StillWanted(c, k)
  BY DEF StillWanted
<1>6. OthersRest(c)
  BY <1>1, <1>2 DEF CallTypes, OthersRest
<1>7. HoldsMore(c)
  BY <1>2, <1>4 DEF HoldsMore
<1> QED
  BY <1>2, <1>3, <1>4, <1>5, <1>6, <1>7 DEF Wants, k

LEMMA TakeStep ==
  ASSUME IInv, NEW c \in Call, Take(c), UNCHANGED <<challenges, arg>>
  PROVE  IInv'
<1> DEFINE k == Head(todo[c])
<1>1. CallTypes /\ CounterTypes /\ ChallengeTypes
  BY TypeParts DEF IInv
<1>2. /\ pc[c] \in Locking /\ todo[c] # <<>>
      /\ pc[c] = "failure" => k \in DOMAIN seen[c]
      /\ todo'[c] = Tail(todo[c])
      /\ held'[c] = held[c] \/ held'[c] = held[c] \cup {k}
      /\ pc[c] \notin {"cleanup", "success"} => held'[c] = held[c] \cup {k}
      /\ todo' = [todo EXCEPT ![c] = Tail(@)] /\ held' \in [Call -> SUBSET Rows]
      /\ OthersRest(c) /\ HoldsMore(c)
      /\ UNCHANGED <<pc, seen, advised>>
  BY TakeShape
<1>3. UNCHANGED <<counters, challenges, arg>>
  BY DEF Take
<1>4. Tail(todo[c]) \in Seq(Rows)
  BY <1>1, <1>2, HeadTail DEF CallTypes
<1>5. TypeOK'
  <2>1. todo' \in [Call -> Seq(Rows)]
    BY <1>1, <1>2, <1>4 DEF CallTypes
  <2>2. CallTypes'
    BY <1>1, <1>2, <1>3, <2>1 DEF CallTypes
  <2> QED
    BY <1>1, <1>3, <2>2, TypeParts DEF counters, challenges, TypeOK, CallTypes, CounterTypes, ChallengeTypes
<1>6. pc[c] \notin {"request", "admit"} => advised'[c] = {}
  BY <1>2 DEF IInv, CallOK
<1>7. CallOK(c)'
  <2>1. CASE pc[c] = "failure"
    <3>1. FailureOK(c) /\ k \in DOMAIN seen[c] /\ held'[c] = held[c] \cup {k}
      BY <1>2, <2>1 DEF IInv, CallOK
    <3>2. \/ k = "email" /\ todo'[c] = <<"ip", "user">> /\ todo[c] = <<"email", "ip", "user">>
          \/ k = "ip" /\ todo'[c] = <<"user">> /\ todo[c] = <<"ip", "user">>
          \/ k = "user" /\ todo'[c] = <<>> /\ todo[c] = <<"user">>
      <4>1. CASE todo[c] = <<"email", "ip", "user">>
        BY <1>2, <4>1, ShortLists
      <4>2. CASE todo[c] = <<"ip", "user">>
        BY <1>2, <4>2, ShortLists
      <4>3. CASE todo[c] = <<"user">>
        BY <1>2, <4>3, ShortLists
      <4> QED
        BY <1>2, <3>1, <4>1, <4>2, <4>3 DEF FailureOK
    <3> HIDE DEF k
    <3>3. /\ todo'[c] \in {<<"email", "ip", "user">>, <<"ip", "user">>, <<"user">>, <<>>}
          /\ "email" \in held'[c] => todo'[c] \in {<<"ip", "user">>, <<"user">>, <<>>}
          /\ "ip" \in held'[c] => todo'[c] \in {<<"user">>, <<>>}
          /\ "user" \in held'[c] => todo'[c] = <<>>
      <4>1. /\ todo[c] # <<>>
            /\ todo[c] = <<"email", "ip", "user">> => todo[c] \notin {<<"ip", "user">>, <<"user">>, <<>>}
            /\ todo[c] = <<"ip", "user">> => todo[c] \notin {<<"user">>, <<>>}
        BY <1>2
      <4> QED
        BY <3>1, <3>2, <4>1 DEF FailureOK
    <3>4. held'[c] \subseteq {"email", "ip", "user"} /\ held'[c] \subseteq DOMAIN seen'[c]
      BY <1>2, <3>1, <3>2 DEF FailureOK
    <3>5. \A j \in DOMAIN seen'[c] : j \in SignInRow \ {"memory"} /\ seen'[c][j] < failures'[j]
      BY <1>2, <1>3, <3>1 DEF FailureOK, counters
    <3>6. FailureOK(c)'
      BY <3>3, <3>4, <3>5 DEF FailureOK
    <3> QED
      BY <1>2, <1>6, <2>1, <3>6 DEF CallOK
  <2>2. CASE pc[c] = "success"
    <3>1. SuccessOK(c)
      BY <2>2 DEF IInv, CallOK
    <3>2. /\ todo'[c] \in SuccessLists \cup {<<>>}
          /\ k \in {"email", "ip", "user"}
      BY <1>2, <3>1, SignInLists DEF SuccessOK
    <3>3. SuccessOK(c)'
      BY <1>2, <3>1, <3>2 DEF SuccessOK
    <3> QED
      BY <1>2, <1>6, <2>2, <3>3 DEF CallOK
  <2>3. CASE pc[c] = "cleanup"
    <3>1. seen[c] = Unseen
      BY <2>3 DEF IInv, CallOK
    <3> QED
      BY <1>2, <1>6, <2>3, <3>1 DEF CallOK
  <2>4. CASE pc[c] = "admit"
    <3>1. AdmitOK(c) /\ held'[c] = held[c] \cup {k}
      BY <1>2, <2>4 DEF IInv, CallOK
    <3>2. PICK i \in Ip, p \in Phone :
            /\ advised[c] = {i, p}
            /\ \/ todo[c] = <<i, p>> /\ held[c] = {}
               \/ todo[c] = <<p>> /\ held[c] = {i}
      BY <1>2, <3>1 DEF AdmitOK
    <3>3. \/ todo'[c] = <<p>> /\ held'[c] = {i}
          \/ todo'[c] = <<>> /\ held'[c] = {i, p}
      <4>1. CASE todo[c] = <<i, p>> /\ held[c] = {}
        <5>1. k = i /\ Tail(todo[c]) = <<p>>
          BY <4>1, ShortLists
        <5> QED
          BY <1>2, <3>1, <4>1, <5>1
      <4>2. CASE todo[c] = <<p>> /\ held[c] = {i}
        <5>1. k = p /\ Tail(todo[c]) = <<>>
          BY <4>2, ShortLists
        <5> QED
          BY <1>2, <3>1, <4>2, <5>1
      <4> QED
        BY <3>2, <4>1, <4>2
    <3>4. AdmitOK(c)'
      BY <1>2, <1>3, <3>1, <3>2, <3>3 DEF AdmitOK, counters
    <3> QED
      BY <1>2, <2>4, <3>4 DEF CallOK
  <2>5. CASE pc[c] = "complete"
    <3>1. CompleteOK(c) /\ held'[c] = held[c] \cup {k}
      BY <1>2, <2>5 DEF IInv, CallOK
    <3>2. \/ /\ todo[c] = <<"user">> /\ held[c] = {arg[c]}
             /\ k = "user" /\ todo'[c] = <<>>
          \/ /\ action[arg[c]][1] = "PASSWORD_RECOVERY"
             /\ \/ /\ todo[c] = <<"user", "session", "token">> /\ held[c] = {arg[c]}
                   /\ k = "user" /\ todo'[c] = <<"session", "token">>
                \/ /\ todo[c] = <<"session", "token">> /\ held[c] = {arg[c], "user"}
                   /\ k = "session" /\ todo'[c] = <<"token">>
                \/ /\ todo[c] = <<"token">> /\ held[c] = {arg[c], "user", "session"}
                   /\ k = "token" /\ todo'[c] = <<>>
      <4>1. CASE todo[c] = <<"user">> /\ held[c] = {arg[c]}
        BY <1>2, <4>1, ShortLists
      <4>2. CASE /\ action[arg[c]][1] = "PASSWORD_RECOVERY"
                 /\ todo[c] = <<"user", "session", "token">> /\ held[c] = {arg[c]}
        BY <1>2, <4>2, ShortLists
      <4>3. CASE /\ action[arg[c]][1] = "PASSWORD_RECOVERY"
                 /\ todo[c] = <<"session", "token">> /\ held[c] = {arg[c], "user"}
        BY <1>2, <4>3, ShortLists
      <4>4. CASE /\ action[arg[c]][1] = "PASSWORD_RECOVERY"
                 /\ todo[c] = <<"token">> /\ held[c] = {arg[c], "user", "session"}
        BY <1>2, <4>4, ShortLists
      <4> QED
        BY <1>2, <3>1, <4>1, <4>2, <4>3, <4>4 DEF CompleteOK
    <3> HIDE DEF k
    <3>3. \/ todo'[c] = <<>> /\ held'[c] = {arg[c], "user"}
          \/ /\ action[arg[c]][1] = "PASSWORD_RECOVERY"
             /\ \/ todo'[c] = <<"session", "token">> /\ held'[c] = {arg[c], "user"}
                \/ todo'[c] = <<"token">> /\ held'[c] = {arg[c], "user", "session"}
                \/ todo'[c] = <<>> /\ held'[c] = {arg[c], "user", "session", "token"}
      BY <3>1, <3>2
    <3>4. /\ ToSet(issued)' = ToSet(issued) /\ Open(arg[c])' = Open(arg[c])
          /\ UNCHANGED <<action, arg, seen>>
      BY <1>2, <1>3 DEF challenges, Open
    <3>5. CompleteOK(c)'
      BY <3>1, <3>3, <3>4 DEF CompleteOK
    <3> QED
      BY <1>2, <1>6, <2>5, <3>5 DEF CallOK
  <2>6. CASE pc[c] = "rotate"
    <3>1. RotateOK(c) /\ held'[c] = held[c] \cup {k}
      BY <1>2, <2>6 DEF IInv, CallOK
    <3>2. \/ todo'[c] = <<"session">> /\ held'[c] = {"token"}
          \/ todo'[c] = <<>> /\ held'[c] = {"token", "session"}
      <4>1. CASE todo[c] = <<"token", "session">> /\ held[c] = {}
        <5>1. k = "token" /\ todo'[c] = <<"session">>
          BY <1>2, <4>1, ShortLists
        <5> QED
          BY <3>1, <4>1, <5>1
      <4>2. CASE todo[c] = <<"session">> /\ held[c] = {"token"}
        <5>1. k = "session" /\ todo'[c] = <<>>
          BY <1>2, <4>2, ShortLists
        <5> QED
          BY <3>1, <4>2, <5>1
      <4> QED
        BY <1>2, <3>1, <4>1, <4>2 DEF RotateOK
    <3>3. RotateOK(c)'
      BY <1>2, <3>1, <3>2 DEF RotateOK
    <3> QED
      BY <1>2, <1>6, <2>6, <3>3 DEF CallOK
  <2> QED
    BY <1>2, <2>1, <2>2, <2>3, <2>4, <2>5, <2>6 DEF Locking
<1> QED
  BY <1>2, <1>3, <1>5, <1>7, CallOnly DEF counters, challenges

LEMMA RecordMemoryStep ==
  ASSUME IInv, NEW c \in Call, RecordMemory(c), UNCHANGED <<challenges, arg>>
  PROVE  IInv'
<1> DEFINE value == [k \in {"memory"} |-> count[k] + 1]
           rows  == <<"email", "ip", "user">>
<1>1. CallTypes /\ CounterTypes /\ CausesOK
  BY TypeParts DEF IInv
<1>2. NoLocks(c) /\ pc[c] = "wrong"
  BY DEF RecordMemory, IInv, CallOK
<1>3. "memory" \in SignInRow /\ "memory" \in Row /\ "memory" \notin Ip \cup Phone
  BY ThrottleAssumption DEF SignInRow, Row
<1>4. /\ failures' = [failures EXCEPT !["memory"] = @ + 1]
      /\ failures' \in [SignInRow -> Nat]
      /\ \A k \in SignInRow : failures[k] <= failures'[k]
      /\ failures'["memory"] = failures["memory"] + 1
  BY <1>1, <1>3 DEF RecordMemory, CounterTypes
<1>5. /\ value \in [DOMAIN value -> Nat] /\ DOMAIN value = {"memory"}
      /\ value["memory"] = count["memory"] + 1
      /\ WriteRows(value)
  BY <1>1, <1>3 DEF RecordMemory, CounterTypes
<1>6. value["memory"] <= failures'["memory"]
  BY <1>1, <1>3, <1>4, <1>5 DEF CausesOK, CounterTypes
<1>7. /\ pc'[c] = "failure" /\ todo'[c] = rows /\ UNCHANGED <<seen, held, advised, arg>>
      /\ OthersRest(c)
  BY <1>1 DEF RecordMemory, Go, CallTypes, OthersRest
<1>8. FailureOK(c)'
  BY <1>2, <1>7 DEF FailureOK, NoLocks, Unseen
<1>9. CallOK(c)' /\ HoldsMore(c)
  BY <1>2, <1>7, <1>8 DEF CallOK, NoLocks, HoldsMore
<1>10. CallTypes'
  <2>1. rows \in Seq(Rows)
    BY SignInLists DEF SuccessLists
  <2> QED
    BY <1>1, <1>7, <2>1 DEF CallTypes, RecordMemory, Go, Step, Locking
<1>11. /\ admitted' \in [Ip \cup Phone -> Nat] /\ UNCHANGED <<started, challenges>>
       /\ \A k \in Ip \cup Phone : admitted'[k] = admitted[k]
  BY <1>1 DEF RecordMemory, CounterTypes
<1> QED
  <2> HIDE DEF value
  <2> QED
    BY <1>3, <1>4, <1>5, <1>6, <1>7, <1>9, <1>10, <1>11, Writes

LEMMA FailureRecordedStep ==
  ASSUME IInv, NEW c \in Call, FailureRecorded(c), UNCHANGED <<challenges, arg>>
  PROVE  IInv'
<1> DEFINE value == [k \in held[c] |-> seen[c][k] + 1]
<1>1. CallTypes /\ CounterTypes
  BY TypeParts DEF IInv
<1>2. FailureOK(c)
  BY DEF FailureRecorded, IInv, CallOK
<1>3. \A k \in held[c] : /\ k \in SignInRow /\ k \in Row /\ k \notin Ip \cup Phone
                         /\ seen[c][k] \in Nat /\ seen[c][k] + 1 <= failures[k]
  BY <1>1, <1>2, ThrottleAssumption DEF FailureOK, CallTypes, CounterTypes, Row
<1>4. /\ value \in [DOMAIN value -> Nat] /\ DOMAIN value = held[c]
      /\ \A k \in DOMAIN value : value[k] = seen[c][k] + 1
      /\ WriteRows(value)
  BY <1>3 DEF FailureRecorded
<1>5. CallTypes' /\ OthersRest(c) /\ HoldsMore(c) /\ CallOK(c)'
  BY Returns DEF FailureRecorded
<1>6. /\ failures' = failures /\ failures' \in [SignInRow -> Nat]
      /\ \A k \in SignInRow : failures[k] <= failures'[k]
      /\ admitted' = admitted /\ admitted' \in [Ip \cup Phone -> Nat]
      /\ UNCHANGED <<started, challenges>>
  BY <1>1 DEF FailureRecorded, CounterTypes
<1> QED
  <2> HIDE DEF value
  <2> QED
    BY <1>3, <1>4, <1>5, <1>6, Writes

LEMMA RecordSuccessStep ==
  ASSUME IInv, NEW c \in Call, RecordSuccess(c), UNCHANGED <<challenges, arg>>
  PROVE  IInv'
<1> DEFINE value == [k \in {"memory"} |-> 0]
<1>1. CallTypes /\ CounterTypes
  BY TypeParts DEF IInv
<1>2. NoLocks(c) /\ pc[c] = "right"
  BY DEF RecordSuccess, IInv, CallOK
<1>3. PICK rows \in SuccessLists : Go(c, "success", rows)
  BY DEF RecordSuccess, Deletions
<1>4. /\ pc'[c] = "success" /\ todo'[c] = rows /\ UNCHANGED <<seen, held, advised, arg>>
      /\ OthersRest(c)
  BY <1>1, <1>3 DEF RecordSuccess, Go, CallTypes, OthersRest
<1>5. CallOK(c)' /\ HoldsMore(c)
  BY <1>2, <1>4 DEF CallOK, HoldsMore, SuccessOK, NoLocks
<1>6. CallTypes'
  <2>1. rows \in Seq(Rows)
    BY <1>3, SignInLists
  <2> QED
    BY <1>1, <1>3, <1>4, <2>1 DEF CallTypes, Go, Step, Locking
<1>7. /\ value \in [DOMAIN value -> Nat] /\ DOMAIN value = {"memory"} /\ value["memory"] = 0
      /\ "memory" \in Row /\ "memory" \notin Ip \cup Phone
      /\ WriteRows(value)
  BY ThrottleAssumption DEF RecordSuccess, Row, SignInRow
<1>8. /\ failures' = [failures EXCEPT !["memory"] = 0] /\ failures' \in [SignInRow -> Nat]
      /\ \A k \in SignInRow : k # "memory" \/ k \notin {"memory"} => failures[k] <= failures'[k]
      /\ failures'["memory"] = 0
      /\ admitted' = admitted /\ admitted' \in [Ip \cup Phone -> Nat]
      /\ UNCHANGED <<started, challenges>>
  BY <1>1 DEF RecordSuccess, CounterTypes, SignInRow
<1> QED
  <2> HIDE DEF value
  <2> QED
    BY <1>4, <1>5, <1>6, <1>7, <1>8, Writes

LEMMA SuccessRecordedStep ==
  ASSUME IInv, NEW c \in Call, SuccessRecorded(c), UNCHANGED <<challenges, arg>>
  PROVE  IInv'
<1> DEFINE value == [k \in held[c] |-> 0]
<1>1. CallTypes /\ CounterTypes
  BY TypeParts DEF IInv
<1>2. SuccessOK(c)
  BY DEF SuccessRecorded, IInv, CallOK
<1>3. \A k \in held[c] : k \in Row /\ k \notin Ip \cup Phone
  BY <1>2, ThrottleAssumption DEF SuccessOK, Row, SignInRow
<1>4. /\ value \in [DOMAIN value -> Nat] /\ DOMAIN value = held[c]
      /\ \A k \in DOMAIN value : value[k] = 0
      /\ WriteRows(value)
  BY DEF SuccessRecorded
<1>5. CallTypes' /\ OthersRest(c) /\ HoldsMore(c) /\ CallOK(c)'
  BY Returns DEF SuccessRecorded
<1>6. /\ failures' = failures /\ failures' \in [SignInRow -> Nat]
      /\ \A k \in SignInRow : failures[k] \in Nat /\ failures[k] <= failures'[k]
      /\ admitted' = admitted /\ admitted' \in [Ip \cup Phone -> Nat]
      /\ UNCHANGED <<started, challenges>>
  BY <1>1 DEF SuccessRecorded, CounterTypes
<1> QED
  <2> HIDE DEF value
  <2> QED
    BY <1>3, <1>4, <1>5, <1>6, Writes

LEMMA TimeStep ==
  ASSUME IInv, NEW k \in Row, Unlock(k) \/ NewWindow(k), UNCHANGED <<challenges, arg>>
  PROVE  IInv'
<1>1. CallTypes /\ CounterTypes /\ ChallengeTypes /\ CausesOK /\ RequestsAreCounted
  BY TypeParts DEF IInv
<1>2. UNCHANGED <<pc, todo, seen, held, advised, arg, started, challenges>> /\ Quiet
  BY DEF Unlock, NewWindow, calls
<1>3. /\ CounterTypes' /\ CausesOK' /\ RequestsAreCounted'
  <2>1. CASE Unlock(k)
    BY <1>1, <2>1 DEF Unlock, CounterTypes, CausesOK, RequestsAreCounted
  <2>2. CASE NewWindow(k)
    <3>1. /\ count' = [count EXCEPT ![k] = 0]
          /\ failures' = [j \in SignInRow |-> IF j = k THEN 0 ELSE failures[j]]
          /\ admitted' = [j \in Ip \cup Phone |-> IF j = k THEN 0 ELSE admitted[j]]
          /\ UNCHANGED <<locked, started>>
      BY <2>2 DEF NewWindow, Forget
    <3>2. CounterTypes'
      BY <1>1, <2>2, <3>1 DEF CounterTypes, NewWindow
    <3>3. CausesOK'
      BY <1>1, <3>1 DEF CausesOK, CounterTypes, Row
    <3>4. RequestsAreCounted'
      BY <1>1, <3>1 DEF RequestsAreCounted, CounterTypes, Row
    <3> QED
      BY <3>2, <3>3, <3>4
  <2> QED
    BY <2>1, <2>2
<1>4. TypeOK'
  BY <1>1, <1>2, <1>3, TypeParts DEF TypeOK, CallTypes, CounterTypes, ChallengeTypes, challenges
<1>5. IssuedGrows /\ \A h : Open(h) => Open(h)'
  BY <1>2 DEF IssuedGrows, Open, challenges
<1>6. ASSUME NEW d \in Call PROVE CallOK(d)'
  <2>1. seen[d] = Unseen
    BY <1>2 DEF Quiet
  <2> QED
    BY <1>2, <1>4, <1>5, <2>1, OthersKept
<1>7. Apart' /\ UsesOK' /\ (consumed \cap superseded = {})'
  BY <1>2 DEF IInv, Apart, UsesOK, challenges
<1> QED
  BY <1>3, <1>4, <1>6, <1>7 DEF IInv

-----------------------------------------------------------------------------
(* The steps of requests for a code and of answers. *)

LEMMA BeginSteps ==
  ASSUME IInv, NEW c \in Call,
         \/ \E p \in Purpose : RequestCode(c, p)
         \/ \E h \in Challenge : Resend(c, h) \/ Answer(c, h)
  PROVE  IInv'
<1>1. /\ NoLocks(c) /\ started' \in 0..MaxCalls
      /\ UNCHANGED <<count, aged, locked, failures, admitted, seen, held, advised, challenges>>
  BY StartType DEF RequestCode, Resend, Answer
<1>2. ChallengeTypes
  BY TypeParts DEF IInv
<1>3. PICK step \in {"rated", "counted", "answered"}, value \in Challenge \cup Action :
        /\ Go(c, step, <<>>) /\ arg' = [arg EXCEPT ![c] = value] /\ step \in Step
        /\ step = "rated" => value \in Action
        /\ step # "rated" => value \in ToSet(issued)
  <2>1. ASSUME NEW p \in Purpose, RequestCode(c, p)
        PROVE  Go(c, "rated", <<>>) /\ arg' = [arg EXCEPT ![c] = <<p, "request">>]
               /\ <<p, "request">> \in Action
    BY <2>1 DEF RequestCode, Begin, Action
  <2>2. ASSUME NEW h \in Challenge, Resend(c, h)
        PROVE  Go(c, "rated", <<>>) /\ arg' = [arg EXCEPT ![c] = <<action[h][1], "resend">>]
               /\ <<action[h][1], "resend">> \in Action
    <3>1. h \in ToSet(issued)
      BY <1>2, <2>2 DEF Resend, ChallengeTypes
    <3>2. action[h] \in Purpose \X {"request", "resend"}
      BY <1>2, <3>1 DEF ChallengeTypes, Action
    <3>3. action[h][1] \in Purpose
      BY <3>2
    <3> QED
      BY <2>2, <3>3 DEF Resend, Begin, Action
  <2>3. ASSUME NEW h \in Challenge, Answer(c, h)
        PROVE  /\ \E step \in {"counted", "answered"} : Go(c, step, <<>>)
               /\ arg' = [arg EXCEPT ![c] = h] /\ h \in ToSet(issued)
    BY <2>3 DEF Answer, Begin, Usable
  <2> QED
    BY <2>1, <2>2, <2>3 DEF Step
<1>4. pc'[c] = step /\ todo'[c] = <<>> /\ arg'[c] = value
  BY <1>3 DEF Go, IInv, TypeOK
<1>5. NoLocks(c)' /\ ToSet(issued') = ToSet(issued)
  BY <1>1, <1>4, NoLocksKept DEF challenges
<1>6. CallOK(c)'
  BY <1>3, <1>4, <1>5 DEF CallOK, NoLocks
<1>7. <<>> \in Seq(Rows)
  OBVIOUS
<1> QED
  BY <1>1, <1>3, <1>6, <1>7, Between

LEMMA FindEarlierStep ==
  ASSUME IInv, NEW c \in Call, FindEarlier(c)
  PROVE  IInv'
<1> DEFINE S == {h \in OfPurpose(arg[c][1]) : Open(h)}
<1>1. CallTypes /\ CounterTypes /\ ChallengeTypes
  BY TypeParts DEF IInv
<1>2. NoLocks(c) /\ arg[c] \in Action /\ pc[c] = "rated"
  BY DEF FindEarlier, IInv, CallOK
<1>3. PICK rows \in InTableOrder(S) : Go(c, "issue", rows)
  BY DEF FindEarlier
<1>4. /\ UNCHANGED <<count, aged, locked, failures, admitted, started, seen, held, advised, challenges, arg>>
      /\ started' \in 0..MaxCalls /\ "issue" \in Step
  BY <1>1 DEF FindEarlier, counters, CounterTypes, Step
<1>5. S \subseteq ToSet(issued) /\ ToSet(issued) \subseteq Challenge
  BY <1>1, Elements DEF OfPurpose, ChallengeTypes
<1>6. rows \in Seq(S)
  <2>1. PICK n \in 0..Len(issued) : rows \in [1..n -> S]
    BY <1>3 DEF InTableOrder
  <2>2. n \in Nat
    BY <1>1, <2>1 DEF ChallengeTypes
  <2> QED
    BY <2>1, <2>2, SeqDef
<1>7. rows \in Seq(ToSet(issued)) /\ rows \in Seq(Rows)
  BY <1>5, <1>6 DEF Rows
<1>8. pc'[c] = "issue" /\ todo'[c] = rows
  BY <1>1, <1>3 DEF Go, CallTypes
<1>9. \A i, j \in DOMAIN rows : i < j => Position(rows[i]) < Position(rows[j])
  BY <1>3 DEF InTableOrder
<1>10. IssueOK(c)'
  <2>1. issued' = issued /\ held'[c] = {} /\ arg'[c] \in Action /\ seen'[c] = Unseen
    BY <1>2, <1>4 DEF NoLocks, challenges
  <2>2. \A h : Position(h)' = Position(h)
    BY <2>1 DEF Position
  <2> QED
    BY <1>7, <1>8, <1>9, <2>1, <2>2 DEF IssueOK, InOrder
<1>11. CallOK(c)'
  BY <1>2, <1>4, <1>8, <1>10 DEF CallOK, NoLocks
<1> QED
  BY <1>3, <1>4, <1>7, <1>11, Between

LEMMA SupersedeStep ==
  ASSUME IInv, NEW c \in Call, Supersede(c)
  PROVE  IInv'
<1> DEFINE h == Head(todo[c])
<1>1. CallTypes /\ CounterTypes /\ ChallengeTypes
  BY TypeParts DEF IInv
<1>2. IssueOK(c) /\ pc[c] = "issue" /\ todo[c] # <<>> /\ Free(c, h)
  BY DEF Supersede, IInv, CallOK
<1>3. UNCHANGED <<counters, pc, seen, advised, challenges, arg>> /\ advised[c] = {}
  BY <1>2 DEF Supersede, IInv, CallOK
<1>4. /\ h = todo[c][1] /\ 1 \in DOMAIN todo[c] /\ h \in ToSet(issued)
      /\ Tail(todo[c]) \in Seq(ToSet(issued))
      /\ \A i \in DOMAIN Tail(todo[c]) :
            i + 1 \in DOMAIN todo[c] /\ Tail(todo[c])[i] = todo[c][i + 1] /\ 1 < i + 1
      /\ DOMAIN Tail(todo[c]) \subseteq Nat
  BY <1>2, HeadTail DEF IssueOK
<1>5. ToSet(issued) \subseteq Rows
  BY <1>1, Elements DEF ChallengeTypes, Rows
<1>6. /\ todo'[c] = Tail(todo[c]) /\ todo' = [todo EXCEPT ![c] = Tail(@)]
      /\ held'[c] = IF Open(h) THEN held[c] \cup {h} ELSE held[c]
      /\ held' = [held EXCEPT ![c] = IF Open(h) THEN @ \cup {h} ELSE @]
  BY <1>1 DEF Supersede, CallTypes
<1>7. OthersRest(c) /\ HoldsMore(c)
  BY <1>2, <1>3, <1>6 DEF OthersRest, HoldsMore
<1>8. CallTypes'
  <2>1. Tail(todo[c]) \in Seq(Rows)
    BY <1>4, <1>5
  <2>2. todo' \in [Call -> Seq(Rows)] /\ held' \in [Call -> SUBSET Rows]
    BY <1>1, <1>4, <1>5, <1>6, <2>1 DEF CallTypes
  <2> QED
    BY <1>1, <1>3, <2>2 DEF CallTypes
<1>9. TypeOK'
  BY <1>1, <1>3, <1>8, TypeParts DEF TypeOK, CallTypes, CounterTypes, ChallengeTypes, counters, challenges
<1>10. InOrder(c)'
  <2>1. \A g : Position(g)' = Position(g)
    BY <1>3 DEF Position, challenges
  <2>2. \A i, j \in DOMAIN todo'[c] : i < j => Position(todo'[c][i]) < Position(todo'[c][j])
    <3> SUFFICES ASSUME NEW i \in DOMAIN todo'[c], NEW j \in DOMAIN todo'[c], i < j
                 PROVE  Position(todo'[c][i]) < Position(todo'[c][j])
      OBVIOUS
    <3>1. /\ i + 1 \in DOMAIN todo[c] /\ j + 1 \in DOMAIN todo[c] /\ i + 1 < j + 1
          /\ todo'[c][i] = todo[c][i + 1] /\ todo'[c][j] = todo[c][j + 1]
      BY <1>4, <1>6
    <3> QED
      BY <1>2, <3>1 DEF IssueOK, InOrder
  <2>3. \A g \in held'[c], i \in DOMAIN todo'[c] : Position(g) < Position(todo'[c][i])
    <3> SUFFICES ASSUME NEW g \in held'[c], NEW i \in DOMAIN todo'[c]
                 PROVE  Position(g) < Position(todo'[c][i])
      OBVIOUS
    <3>1. i + 1 \in DOMAIN todo[c] /\ 1 < i + 1 /\ todo'[c][i] = todo[c][i + 1]
      BY <1>4, <1>6
    <3>2. CASE g \in held[c]
      BY <1>2, <3>1, <3>2 DEF IssueOK, InOrder
    <3>3. CASE g = todo[c][1]
      BY <1>2, <1>4, <3>1, <3>3 DEF IssueOK, InOrder
    <3> QED
      BY <1>4, <1>6, <3>2, <3>3
  <2> QED
    BY <2>1, <2>2, <2>3 DEF InOrder
<1>11. IssueOK(c)'
  BY <1>2, <1>3, <1>4, <1>6, <1>10 DEF IssueOK, Open, challenges
<1>12. CallOK(c)'
  BY <1>2, <1>3, <1>11 DEF CallOK
<1> QED
  BY <1>3, <1>7, <1>9, <1>12, CallOnly DEF counters, challenges

LEMMA IssueStep ==
  ASSUME IInv, NEW c \in Call, Issue(c)
  PROVE  IInv'
<1> DEFINE h == CHOOSE h \in Unissued : TRUE
<1>1. CallTypes /\ CounterTypes /\ ChallengeTypes
  BY TypeParts DEF IInv
<1>2. IssueOK(c)
  BY DEF Issue, IInv, CallOK
<1>3. h \in Unissued
  BY DEF Issue
<1>4. /\ issued' = Append(issued, h)
      /\ action' = [g \in ToSet(issued) \cup {h} |-> IF g = h THEN arg[c] ELSE action[g]]
      /\ superseded' = superseded \cup held[c]
      /\ UNCHANGED <<counters, consumed, expired, resendable, left, verified, uses>>
  BY DEF Issue
<1>5. CallTypes' /\ OthersRest(c) /\ HoldsMore(c) /\ CallOK(c)'
  BY Returns DEF Issue, End
<1>6. h \in Challenge /\ h \notin ToSet(issued)
  BY <1>3 DEF Unissued
<1>7. /\ issued' \in Seq(Challenge) /\ IsInjective(issued')
      /\ ToSet(issued') = ToSet(issued) \cup {h}
  <2> HIDE DEF h
  <2>1. /\ Append(issued, h) \in Seq(Challenge) /\ IsInjective(Append(issued, h))
        /\ ToSet(Append(issued, h)) = ToSet(issued) \cup {h}
    BY <1>1, <1>6, AppendOne DEF ChallengeTypes
  <2> QED
    BY <1>4, <2>1
<1>8. TypeOK'
  <2> HIDE DEF h
  <2>1. ChallengeTypes'
    BY <1>1, <1>2, <1>4, <1>7 DEF ChallengeTypes, IssueOK
  <2>2. CounterTypes'
    BY <1>1, <1>4 DEF CounterTypes, counters
  <2> QED
    BY <1>5, <2>1, <2>2 DEF TypeOK, CallTypes, CounterTypes, ChallengeTypes
<1>9. IssuedGrows
  BY <1>3, <1>4, <1>6 DEF IssuedGrows
<1>10. /\ \A k \in SignInRow : failures[k] <= failures'[k]
       /\ \A k \in (Ip \cup Phone) \ advised[c] : count'[k] = count[k]
  BY <1>1, <1>4 DEF counters, CounterTypes
<1>11. \A g \in Challenge \ held[c] : Open(g) => Open(g)'
  BY <1>4 DEF Open
<1>12. (consumed \cap superseded = {})'
  BY <1>2, <1>4 DEF IInv, IssueOK, Open
<1>13. RequestsAreCounted' /\ CausesOK' /\ UsesOK'
  BY <1>4 DEF IInv, RequestsAreCounted, CausesOK, UsesOK, counters
<1> QED
  BY <1>5, <1>8, <1>9, <1>10, <1>11, <1>12, <1>13, OneCall

LEMMA AgeingStep ==
  ASSUME IInv, NEW h \in Challenge, BecomeResendable(h) \/ Expire(h)
  PROVE  IInv'
<1>1. CallTypes /\ CounterTypes /\ ChallengeTypes
  BY TypeParts DEF IInv
<1>2. UNCHANGED <<throttle, issued, action, consumed, superseded, left, verified, uses, arg>>
  BY DEF BecomeResendable, Expire
<1>3. expired' \cup resendable' \subseteq ToSet(issued)
  BY <1>1 DEF BecomeResendable, Expire, ChallengeTypes
<1>4. TypeOK'
  BY <1>1, <1>2, <1>3 DEF TypeOK, CallTypes, CounterTypes, ChallengeTypes, throttle, counters, calls
<1>5. ASSUME NEW d \in Call PROVE CallOK(d)'
  <2>1. IssuedGrows /\ \A g : Open(g) => Open(g)'
    BY <1>2 DEF IssuedGrows, Open
  <2>2. UNCHANGED <<pc[d], todo[d], seen[d], held[d], advised[d], arg[d], failures, count>>
    BY <1>2 DEF throttle, counters, calls
  <2>3. \A k \in SignInRow : failures[k] <= failures'[k]
    BY <1>1, <2>2 DEF CounterTypes
  <2> QED
    BY <1>4, <2>1, <2>2, <2>3, OthersKept
<1> QED
  BY <1>2, <1>4, <1>5
     DEF IInv, Apart, RequestsAreCounted, CausesOK, UsesOK, throttle, counters, calls

LEMMA CountWrongStep ==
  ASSUME IInv, NEW c \in Call, CountWrong(c)
  PROVE  IInv'
<1>1. CallTypes /\ CounterTypes /\ ChallengeTypes
  BY TypeParts DEF IInv
<1>2. CallTypes' /\ OthersRest(c) /\ HoldsMore(c) /\ CallOK(c)'
  BY Returns DEF CountWrong, End
<1>3. UNCHANGED <<counters, issued, action, consumed, superseded, expired, resendable, verified, uses>>
  BY DEF CountWrong
<1>4. left' \in [Challenge -> 0..MaxAttempts]
  <2>1. arg[c] \in Challenge
    BY <1>1, Elements DEF CountWrong, IInv, CallOK, ChallengeTypes
  <2>2. left[arg[c]] \in 0..MaxAttempts /\ MaxAttempts \in Nat
    BY <1>1, <2>1, ChallengesAssumption DEF ChallengeTypes
  <2>3. (IF Open(arg[c]) /\ left[arg[c]] > 0 THEN left[arg[c]] - 1 ELSE left[arg[c]]) \in 0..MaxAttempts
    BY <2>2
  <2> QED
    BY <1>1, <2>1, <2>3 DEF CountWrong, ChallengeTypes
<1>5. TypeOK'
  BY <1>1, <1>2, <1>3, <1>4 DEF TypeOK, CallTypes, CounterTypes, ChallengeTypes, counters
<1> QED
  BY <1>2, <1>3, <1>5, CallOnly DEF counters

LEMMA ConsumeStep ==
  ASSUME IInv, NEW c \in Call, Consume(c)
  PROVE  IInv'
<1> DEFINE h == arg[c]
<1>1. CallTypes /\ CounterTypes /\ ChallengeTypes
  BY TypeParts DEF IInv
<1>2. UNCHANGED <<counters, challenges>> /\ h \in ToSet(issued) /\ NoLocks(c) /\ Free(c, h)
  BY DEF Consume, IInv, CallOK
<1>3. CASE End(c)
  <2>1. CallTypes' /\ OthersRest(c) /\ HoldsMore(c) /\ CallOK(c)'
    BY <1>3, Returns DEF End
  <2>2. TypeOK'
    BY <1>1, <1>2, <2>1 DEF TypeOK, CallTypes, CounterTypes, ChallengeTypes, counters, challenges
  <2> QED
    BY <1>2, <2>1, <2>2, CallOnly DEF counters, challenges
<1>4. CASE /\ Open(h)
           /\ \E rows \in ToComplete(h) : Go(c, "complete", rows)
           /\ held' = [held EXCEPT ![c] = {h}]
           /\ UNCHANGED <<seen, advised, arg>>
  <2>1. PICK rows \in ToComplete(h) : Go(c, "complete", rows)
    BY <1>4
  <2>2. h \in Rows /\ rows \in Seq(Rows) /\ "complete" \in Step
    <3>1. {"user", "session", "token"} \subseteq Rows
      BY DEF Rows, Row, SignInRow, SessionRow
    <3>2. rows = <<"user">> \/ rows = <<"user", "session", "token">>
      BY <2>1 DEF ToComplete
    <3>3. rows \in Seq(Rows)
      <4>1. CASE rows = <<"user">>
        BY <3>1, <4>1
      <4>2. CASE rows = <<"user", "session", "token">>
        BY <3>1, <4>2
      <4> QED
        BY <3>2, <4>1, <4>2
    <3> QED
      BY <1>1, <1>2, <3>3, Elements DEF ChallengeTypes, Rows, Step, Locking
  <2>3. /\ pc'[c] = "complete" /\ todo'[c] = rows /\ held'[c] = {h}
        /\ OthersRest(c)
    BY <1>1, <1>4, <2>1 DEF Go, CallTypes, OthersRest
  <2>4. CallTypes'
    BY <1>1, <1>4, <2>1, <2>2 DEF Go, CallTypes
  <2>5. TypeOK'
    BY <1>1, <1>2, <2>4 DEF TypeOK, CallTypes, CounterTypes, ChallengeTypes, counters, challenges
  <2>6. CompleteOK(c)'
    BY <1>2, <1>4, <2>1, <2>3 DEF CompleteOK, NoLocks, Open, challenges, ToComplete
  <2>7. CallOK(c)'
    BY <1>2, <1>4, <2>3, <2>6 DEF CallOK, NoLocks
  <2>8. HoldsMore(c)
    BY <1>2, <1>4, <2>3 DEF HoldsMore, NoLocks
  <2> QED
    BY <1>2, <2>3, <2>5, <2>7, <2>8, CallOnly DEF counters, challenges
<1> QED
  BY <1>3, <1>4 DEF Consume

LEMMA CompleteStep ==
  ASSUME IInv, NEW c \in Call, Complete(c)
  PROVE  IInv'
<1> DEFINE h     == arg[c]
           value == [k \in {"user"} |-> 0]
<1>1. CallTypes /\ CounterTypes /\ ChallengeTypes
  BY TypeParts DEF IInv
<1>2. CompleteOK(c) /\ todo[c] = <<>>
  BY DEF Complete, IInv, CallOK
<1>3. h \in ToSet(issued) /\ h \in Challenge /\ h \in held[c] /\ Open(h)
  BY <1>1, <1>2, Elements DEF CompleteOK, ChallengeTypes
<1>4. /\ consumed' = consumed \cup {h}
      /\ uses' = [uses EXCEPT ![h] = IF @ < 2 THEN @ + 1 ELSE @]
      /\ UNCHANGED <<failures, admitted, started, issued, action, superseded, expired, resendable, left>>
  BY DEF Complete
<1>5. CallTypes' /\ OthersRest(c) /\ HoldsMore(c) /\ CallOK(c)'
  BY Returns DEF Complete, End
<1>6. /\ count' \in [Row -> Nat] /\ locked' \subseteq Row /\ aged' \subseteq aged /\ verified' \in BOOLEAN
      /\ \A k \in Row : count'[k] \in {0, count[k]} /\ (k # "user" => count'[k] = count[k])
  <2>1. CASE WriteRows(value) /\ UNCHANGED verified
    <3>1. /\ value \in [DOMAIN value -> Nat] /\ DOMAIN value = {"user"} /\ value["user"] = 0
          /\ DOMAIN value \subseteq Row
      BY DEF Row, SignInRow
    <3> HIDE DEF value
    <3>2. /\ count' \in [Row -> Nat] /\ locked' \subseteq Row /\ aged' \subseteq aged
          /\ \A k \in Row : count'[k] = IF k \in DOMAIN value THEN value[k] ELSE count[k]
      BY <1>1, <2>1, <3>1, Written
    <3> QED
      BY <1>1, <2>1, <3>1, <3>2 DEF ChallengeTypes
  <2>2. CASE verified' = TRUE /\ UNCHANGED <<count, aged, locked>>
    BY <1>1, <2>2 DEF CounterTypes
  <2> QED
    BY <2>1, <2>2 DEF Complete
<1>7. uses[h] = 0 /\ uses' \in [Challenge -> 0..2] /\ UsesOK'
  <2>1. uses[h] = 0
    BY <1>1, <1>3 DEF IInv, UsesOK, Open, ChallengeTypes
  <2>2. uses' = [uses EXCEPT ![h] = 1]
    BY <1>4, <2>1
  <2>3. uses' \in [Challenge -> 0..2]
    <3>1. uses \in [Challenge -> 0..2] /\ 1 \in 0..2
      BY <1>1 DEF ChallengeTypes
    <3> HIDE DEF h
    <3> QED
      BY <2>2, <3>1
  <2>4. UsesOK'
    BY <1>1, <1>3, <1>4, <2>2 DEF IInv, UsesOK, ChallengeTypes
  <2> QED
    BY <2>1, <2>3, <2>4
<1>8. TypeOK'
  <2>1. CounterTypes'
    BY <1>1, <1>4, <1>6 DEF CounterTypes
  <2>2. ChallengeTypes'
    BY <1>1, <1>3, <1>4, <1>6, <1>7 DEF ChallengeTypes
  <2> QED
    BY <1>5, <2>1, <2>2 DEF TypeOK, CallTypes, CounterTypes, ChallengeTypes
<1>9. IssuedGrows /\ \A k \in SignInRow : failures[k] <= failures'[k]
  BY <1>1, <1>4 DEF IssuedGrows, CounterTypes
<1>10. \A k \in Ip \cup Phone : k # "user" /\ count'[k] = count[k]
  BY <1>6, ThrottleAssumption DEF Row, SignInRow
<1>11. \A g \in Challenge \ held[c] : Open(g) => Open(g)'
  BY <1>3, <1>4 DEF Open
<1>12. (consumed \cap superseded = {})'
  BY <1>3, <1>4 DEF IInv, Open
<1>13. RequestsAreCounted'
  BY <1>4, <1>10 DEF IInv, RequestsAreCounted
<1>14. CausesOK'
  BY <1>1, <1>4, <1>6 DEF IInv, CausesOK, CounterTypes, Row
<1> QED
  BY <1>5, <1>7, <1>8, <1>9, <1>10, <1>11, <1>12, <1>13, <1>14, OneCall

LEMMA RotateStep ==
  ASSUME IInv, NEW c \in Call, Rotate(c)
  PROVE  IInv'
<1>1. NoLocks(c) /\ started' \in 0..MaxCalls /\ "rotate" \in Step
  BY StartType DEF Rotate, Step, Locking
<1>2. /\ Go(c, "rotate", <<"token", "session">>) /\ arg' = arg
      /\ UNCHANGED <<count, aged, locked, failures, admitted, seen, held, advised, challenges>>
  BY DEF Rotate
<1>3. <<"token", "session">> \in Seq(Rows)
  BY DEF Rows, SessionRow
<1>4. pc'[c] = "rotate" /\ todo'[c] = <<"token", "session">>
  BY <1>2 DEF Go, IInv, TypeOK
<1>5. CallOK(c)'
  BY <1>1, <1>2, <1>4 DEF CallOK, RotateOK, NoLocks
<1> QED
  BY <1>1, <1>2, <1>3, <1>5, Between

LEMMA RotatedStep ==
  ASSUME IInv, NEW c \in Call, Rotated(c)
  PROVE  IInv'
<1>1. CallTypes /\ CounterTypes /\ ChallengeTypes
  BY TypeParts DEF IInv
<1>2. CallTypes' /\ OthersRest(c) /\ HoldsMore(c) /\ CallOK(c)'
  BY Returns DEF Rotated
<1>3. UNCHANGED <<counters, challenges>>
  BY DEF Rotated
<1>4. TypeOK'
  BY <1>1, <1>2, <1>3 DEF TypeOK, CallTypes, CounterTypes, ChallengeTypes, counters, challenges
<1> QED
  BY <1>2, <1>3, <1>4, CallOnly DEF counters, challenges

LEMMA AbandonStep ==
  ASSUME IInv, NEW c \in Call, Abandon(c)
  PROVE  IInv'
<1>1. CallTypes /\ CounterTypes /\ ChallengeTypes
  BY TypeParts DEF IInv
<1>2. CallTypes' /\ OthersRest(c) /\ HoldsMore(c) /\ CallOK(c)'
  BY Returns DEF Abandon, End
<1>3. UNCHANGED <<counters, challenges>>
  BY DEF Abandon
<1>4. TypeOK'
  BY <1>1, <1>2, <1>3 DEF TypeOK, CallTypes, CounterTypes, ChallengeTypes, counters, challenges
<1> QED
  BY <1>2, <1>3, <1>4, CallOnly DEF counters, challenges

LEMMA RestartStep ==
  ASSUME IInv, Restart
  PROVE  IInv'
<1> DEFINE value == [k \in {"memory"} |-> 0]
<1>1. CallTypes /\ CounterTypes /\ ChallengeTypes
  BY TypeParts DEF IInv
<1>2. /\ pc' = [c \in Call |-> "idle"] /\ todo' = [c \in Call |-> <<>>]
      /\ seen' = [c \in Call |-> Unseen] /\ held' = [c \in Call |-> {}]
      /\ advised' = [c \in Call |-> {}] /\ arg' = [c \in Call |-> Nothing]
      /\ WriteRows(value)
      /\ failures' = [failures EXCEPT !["memory"] = 0]
      /\ UNCHANGED <<admitted, started, challenges>>
  BY DEF Restart
<1>3. /\ value \in [DOMAIN value -> Nat] /\ DOMAIN value = {"memory"} /\ value["memory"] = 0
      /\ DOMAIN value \subseteq Row
  BY DEF Row, SignInRow
<1>4. /\ count' \in [Row -> Nat] /\ locked' \subseteq Row /\ aged' \subseteq aged
      /\ \A k \in Row : count'[k] = IF k = "memory" THEN 0 ELSE count[k]
  <2> HIDE DEF value
  <2> QED
    BY <1>1, <1>2, <1>3, Written
<1>5. CallTypes'
  <2>1. Unseen \in [DOMAIN Unseen -> Nat] /\ DOMAIN Unseen \subseteq Row
    BY DEF Unseen
  <2> QED
    BY <1>2, <2>1 DEF CallTypes, Step
<1>6. CounterTypes' /\ ChallengeTypes'
  BY <1>1, <1>2, <1>4 DEF CounterTypes, ChallengeTypes, challenges
<1>7. \A c \in Call : CallOK(c)'
  BY <1>2 DEF CallOK, NoLocks
<1>8. RequestsAreCounted'
  BY <1>2, <1>4, ThrottleAssumption DEF IInv, RequestsAreCounted, Row, SignInRow
<1>9. CausesOK'
  <2> SUFFICES ASSUME NEW k \in SignInRow PROVE count'[k] <= failures'[k]
    BY DEF CausesOK
  <2>1. /\ k \in Row /\ count[k] <= failures[k] /\ failures[k] \in Nat
        /\ failures'[k] = IF k = "memory" THEN 0 ELSE failures[k]
    BY <1>1, <1>2 DEF IInv, CausesOK, CounterTypes, Row
  <2> QED
    BY <1>4, <2>1
<1>10. Apart' /\ UsesOK' /\ (consumed \cap superseded = {})'
  BY <1>2 DEF IInv, Apart, UsesOK, challenges
<1>11. TypeOK'
  BY <1>5, <1>6 DEF TypeOK, CallTypes, CounterTypes, ChallengeTypes
<1> QED
  BY <1>7, <1>8, <1>9, <1>10, <1>11 DEF IInv

-----------------------------------------------------------------------------
(* The theorems. *)

LEMMA IInvInit ==
  ASSUME Init
  PROVE  IInv
<1>1. CallTypes
  BY DEF Init, ThrottleInit, CallTypes, Unseen, Step
<1>2. CounterTypes
  BY ThrottleAssumption DEF Init, ThrottleInit, CounterTypes
<1>3. ToSet(issued) = {}
  BY DEF Init, ToSet
<1>4. ChallengeTypes
  <2>1. MaxAttempts \in 0..MaxAttempts
    BY ChallengesAssumption
  <2>2. DOMAIN issued = {} /\ issued \in Seq(Challenge)
    BY DEF Init
  <2>3. IsInjective(issued)
    BY <2>2 DEF IsInjective
  <2>4. action \in [ToSet(issued) -> Action] /\ uses \in [Challenge -> 0..2]
    BY <1>3 DEF Init
  <2>5. left \in [Challenge -> 0..MaxAttempts]
    BY <2>1 DEF Init
  <2> QED
    BY <2>2, <2>3, <2>4, <2>5 DEF Init, ChallengeTypes
<1>5. \A c \in Call : CallOK(c)
  BY DEF Init, ThrottleInit, CallOK, NoLocks
<1>6. Apart /\ RequestsAreCounted /\ CausesOK /\ UsesOK /\ consumed \cap superseded = {}
  BY DEF Init, ThrottleInit, Apart, RequestsAreCounted, CausesOK, UsesOK, Row
<1> QED
  BY <1>1, <1>2, <1>4, <1>5, <1>6, TypeParts DEF IInv

LEMMA IInvStep ==
  ASSUME IInv, [Next]_vars
  PROVE  IInv'
<1>1. CASE ThrottleNext /\ UNCHANGED <<challenges, arg>>
  <2>1. ASSUME NEW c \in Call, AskMemory(c) \/ AskRows(c) \/ ReadAccount(c) PROVE IInv'
    BY <1>1, <2>1, SignInSteps
  <2>2. ASSUME NEW c \in Call, RecordMemory(c) PROVE IInv'
    BY <1>1, <2>2, RecordMemoryStep
  <2>3. ASSUME NEW c \in Call, ReadRow(c) PROVE IInv'
    BY <1>1, <2>3, ReadRowStep
  <2>4. ASSUME NEW c \in Call, Take(c) PROVE IInv'
    BY <1>1, <2>4, TakeStep
  <2>5. ASSUME NEW c \in Call, FailureRecorded(c) PROVE IInv'
    BY <1>1, <2>5, FailureRecordedStep
  <2>6. ASSUME NEW c \in Call, RecordSuccess(c) PROVE IInv'
    BY <1>1, <2>6, RecordSuccessStep
  <2>7. ASSUME NEW c \in Call, SuccessRecorded(c) PROVE IInv'
    BY <1>1, <2>7, SuccessRecordedStep
  <2>8. ASSUME NEW c \in Call, Request(c) PROVE IInv'
    BY <1>1, <2>8, RequestStep
  <2>9. ASSUME NEW c \in Call, LookAtRequests(c) PROVE IInv'
    BY <1>1, <2>9, LookAtRequestsStep
  <2>10. ASSUME NEW c \in Call, RequestAdmitted(c) PROVE IInv'
    BY <1>1, <2>10, RequestAdmittedStep
  <2>11. ASSUME NEW k \in Row, Unlock(k) \/ NewWindow(k) PROVE IInv'
    BY <1>1, <2>11, TimeStep
  <2>12. ASSUME NEW c \in Call, FindExpired(c) PROVE IInv'
    BY <1>1, <2>12, FindExpiredStep
  <2>13. ASSUME NEW c \in Call, CleanedUp(c) PROVE IInv'
    BY <1>1, <2>13, CleanedUpStep
  <2>14. ASSUME NEW c \in Call, Advise(c) PROVE IInv'
    BY <1>1, <2>14, AdviseStep
  <2> QED
    BY <1>1, <2>1, <2>2, <2>3, <2>4, <2>5, <2>6, <2>7, <2>8, <2>9, <2>10, <2>11, <2>12, <2>13, <2>14
       DEF ThrottleNext
<1>2. ASSUME NEW c \in Call,
             \/ \E p \in Purpose : RequestCode(c, p)
             \/ \E h \in Challenge : Resend(c, h) \/ Answer(c, h)
      PROVE  IInv'
  BY <1>2, BeginSteps
<1>3. ASSUME NEW c \in Call, FindEarlier(c) PROVE IInv'
  BY <1>3, FindEarlierStep
<1>4. ASSUME NEW c \in Call, Supersede(c) PROVE IInv'
  BY <1>4, SupersedeStep
<1>5. ASSUME NEW c \in Call, Issue(c) PROVE IInv'
  BY <1>5, IssueStep
<1>6. ASSUME NEW c \in Call, CountWrong(c) PROVE IInv'
  BY <1>6, CountWrongStep
<1>7. ASSUME NEW c \in Call, Consume(c) PROVE IInv'
  BY <1>7, ConsumeStep
<1>8. ASSUME NEW c \in Call, Complete(c) PROVE IInv'
  BY <1>8, CompleteStep
<1>9. ASSUME NEW c \in Call, Abandon(c) PROVE IInv'
  BY <1>9, AbandonStep
<1>10. ASSUME NEW h \in Challenge, BecomeResendable(h) \/ Expire(h) PROVE IInv'
  BY <1>10, AgeingStep
<1>11. CASE Restart
  BY <1>11, RestartStep
<1>13. ASSUME NEW c \in Call, Rotate(c) \/ Rotated(c) PROVE IInv'
  BY <1>13, RotateStep, RotatedStep
<1>12. CASE UNCHANGED vars
  <2>1. /\ UNCHANGED <<pc, todo, seen, held, advised, arg, count, aged, locked, failures, admitted, started>>
        /\ UNCHANGED <<issued, action, consumed, superseded, expired, resendable, left, verified, uses>>
    BY <1>12 DEF vars, throttle, counters, calls, challenges
  <2>2. TypeOK'
    BY <2>1 DEF IInv, TypeOK
  <2>3. ASSUME NEW d \in Call PROVE CallOK(d)'
    <3>1. IssuedGrows /\ \A g : Open(g) => Open(g)'
      BY <2>1 DEF IssuedGrows, Open
    <3>2. \A k \in SignInRow : failures[k] <= failures'[k]
      BY <2>1 DEF IInv, TypeOK
    <3> QED
      BY <2>1, <2>2, <3>1, <3>2, OthersKept
  <2> QED
    BY <2>1, <2>2, <2>3 DEF IInv, Apart, RequestsAreCounted, CausesOK, UsesOK
<1> QED
  BY <1>1, <1>2, <1>3, <1>4, <1>5, <1>6, <1>7, <1>8, <1>9, <1>10, <1>11, <1>12, <1>13 DEF Next

\* The inductive invariant holds in every reachable state.
THEOREM IInvHolds == Spec => []IInv
BY IInvInit, IInvStep, PTL DEF Spec

\* Every call is at a statement of its transaction, and the counters, codes and
\* attempts stay in range.
THEOREM TypesHold == Spec => []TypeOK
<1>1. IInv => TypeOK
  BY DEF IInv
<1> QED
  BY <1>1, IInvHolds, PTL

\* No overlapping requests for sign-in codes are lost from the counters: what a call
\* has read under both locks is what it replaces.
THEOREM RequestsCounted == Spec => []RequestsAreCounted
<1>1. IInv => RequestsAreCounted
  BY DEF IInv
<1> QED
  BY <1>1, IInvHolds, PTL

\* A code is used once or superseded: whoever does either has its row and found it
\* open, and it stays open for as long as the row is held.
THEOREM CodesUsedOnce == Spec => []UsedOrSuperseded
<1>1. IInv => UsedOrSuperseded
  BY DEF IInv, UsedOrSuperseded, UsesOK
<1> QED
  BY <1>1, IInvHolds, PTL

LEMMA NewLocks ==
  ASSUME IInv, [Next]_vars, NEW k \in SignInRow, k \in locked' \ locked
  PROVE  count'[k] >= Maximum(k)
<1>1. CounterTypes /\ CallTypes
  BY TypeParts DEF IInv
<1>2. ASSUME NEW c \in Call, RecordMemory(c) PROVE count'[k] >= Maximum(k)
  <2> DEFINE value == [j \in {"memory"} |-> count[j] + 1]
  <2>1. value \in [DOMAIN value -> Nat] /\ DOMAIN value \subseteq Row /\ WriteRows(value)
    BY <1>1, <1>2 DEF RecordMemory, CounterTypes, Row, SignInRow
  <2> HIDE DEF value
  <2> QED
    BY <1>1, <2>1, Written
<1>3. ASSUME NEW c \in Call, FailureRecorded(c) PROVE count'[k] >= Maximum(k)
  <2> DEFINE value == [j \in held[c] |-> seen[c][j] + 1]
  <2>1. FailureOK(c)
    BY <1>3 DEF FailureRecorded, IInv, CallOK
  <2>2. \A j \in held[c] : seen[c][j] \in Nat /\ j \in Row
    BY <1>1, <2>1 DEF FailureOK, CallTypes
  <2>3. value \in [DOMAIN value -> Nat] /\ DOMAIN value \subseteq Row /\ WriteRows(value)
    BY <1>3, <2>2 DEF FailureRecorded
  <2> HIDE DEF value
  <2> QED
    BY <1>1, <2>3, Written
<1>4. ASSUME NEW c \in Call, RequestAdmitted(c) PROVE count'[k] >= Maximum(k)
  <2> DEFINE value == [j \in held[c] |-> seen[c][j] + 1]
  <2>1. AdmitOK(c) /\ todo[c] = <<>>
    BY <1>4 DEF RequestAdmitted, IInv, CallOK
  <2>2. \A j \in held[c] : seen[c][j] \in Nat /\ j \in Row
    BY <1>1, <2>1, ShortLists DEF AdmitOK, CallTypes
  <2>3. value \in [DOMAIN value -> Nat] /\ DOMAIN value \subseteq Row /\ WriteRows(value)
    BY <1>4, <2>2 DEF RequestAdmitted
  <2> HIDE DEF value
  <2> QED
    BY <1>1, <2>3, Written
<1>5. ASSUME NEW rows, rows \subseteq Row, WriteRows([j \in rows |-> 0])
      PROVE  count'[k] >= Maximum(k)
  <2> DEFINE value == [j \in rows |-> 0]
  <2>1. value \in [DOMAIN value -> Nat] /\ DOMAIN value \subseteq Row /\ WriteRows(value)
    BY <1>5
  <2> HIDE DEF value
  <2> QED
    BY <1>1, <2>1, Written
<1>6. {"memory"} \subseteq Row /\ {"user"} \subseteq Row
  BY DEF Row, SignInRow
<1>7. ASSUME NEW c \in Call, SuccessRecorded(c) PROVE held[c] \subseteq Row
  <2>1. SuccessOK(c)
    BY <1>7 DEF SuccessRecorded, IInv, CallOK
  <2> QED
    BY <2>1 DEF SuccessOK, Row, SignInRow
<1>8. ASSUME locked' \subseteq locked PROVE FALSE
  BY <1>8
<1>9. ASSUME NEW c \in Call, Complete(c) PROVE count'[k] >= Maximum(k)
  BY <1>5, <1>6, <1>8, <1>9 DEF Complete
<1>10. CASE ThrottleNext
  <2>1. ASSUME NEW c \in Call, \/ AskMemory(c) \/ FindExpired(c) \/ CleanedUp(c) \/ AskRows(c)
                               \/ ReadAccount(c) \/ ReadRow(c) \/ Take(c)
                               \/ Request(c) \/ Advise(c) \/ LookAtRequests(c)
        PROVE  locked' \subseteq locked
    BY <2>1 DEF AskMemory, FindExpired, CleanedUp, AskRows, ReadAccount, ReadRow, Take, Request,
       Advise, LookAtRequests, counters
  <2>2. ASSUME NEW j \in Row, Unlock(j) \/ NewWindow(j) PROVE locked' \subseteq locked
    BY <2>2 DEF Unlock, NewWindow
  <2>3. ASSUME NEW c \in Call, RecordSuccess(c) \/ SuccessRecorded(c) PROVE count'[k] >= Maximum(k)
    BY <1>5, <1>6, <1>7, <2>3 DEF RecordSuccess, SuccessRecorded
  <2> QED
    BY <1>2, <1>3, <1>4, <1>8, <1>10, <2>1, <2>2, <2>3 DEF ThrottleNext
<1>11. ASSUME NEW c \in Call,
              \/ \E p \in Purpose : RequestCode(c, p)
              \/ FindEarlier(c) \/ Supersede(c) \/ Issue(c)
              \/ \E h \in Challenge : Resend(c, h) \/ Answer(c, h)
              \/ CountWrong(c) \/ Consume(c) \/ Rotate(c) \/ Rotated(c) \/ Abandon(c)
       PROVE  locked' \subseteq locked
  BY <1>11 DEF RequestCode, FindEarlier, Supersede, Issue, Resend, Answer, CountWrong, Consume,
     Rotate, Rotated, Abandon, counters
<1>12. ASSUME NEW h \in Challenge, BecomeResendable(h) \/ Expire(h) PROVE locked' \subseteq locked
  BY <1>12 DEF BecomeResendable, Expire, throttle, counters
<1>13. CASE Restart
  BY <1>5, <1>6, <1>13 DEF Restart
<1>14. CASE UNCHANGED vars
  BY <1>8, <1>14 DEF vars, throttle, counters
<1> QED
  BY <1>8, <1>9, <1>10, <1>11, <1>12, <1>13, <1>14 DEF Next

\* A sign-in row is locked only by as many failures of its window as lock it: what
\* an overlapping transaction writes back never exceeds them.
THEOREM LocksCaused == Spec => LocksHaveCause
<1> DEFINE Cause == \A k \in SignInRow : k \in locked' \ locked => failures'[k] >= Maximum(k)
<1>1. IInv /\ IInv' /\ [Next]_vars => Cause
  <2> SUFFICES ASSUME IInv, IInv', [Next]_vars, NEW k \in SignInRow, k \in locked' \ locked
               PROVE  failures'[k] >= Maximum(k)
    OBVIOUS
  <2>1. count'[k] >= Maximum(k)
    BY NewLocks
  <2>2. count'[k] <= failures'[k]
    BY DEF IInv, CausesOK
  <2>3. count'[k] \in Nat /\ failures'[k] \in Nat
    BY TypeParts DEF IInv, TypeOK, CounterTypes, Row
  <2>4. Maximum(k) \in Nat
    BY ThrottleAssumption DEF Maximum
  <2> QED
    BY <2>1, <2>2, <2>3, <2>4
<1>2. IInv /\ IInv' /\ [Next]_vars => [Cause]_throttle
  BY <1>1
<1> QED
  BY <1>2, IInvHolds, PTL DEF Spec, LocksHaveCause

-----------------------------------------------------------------------------
(* Waiting.  In a set of calls that wait for each other, none of which deletes *)
(* rows of the throttle, and none of which recovers beside a refresh: a call   *)
(* that completes an answer waits for nobody once it has the account, nor does *)
(* a request that has both its keys; failures take their rows in one order;    *)
(* among calls of issue() the one that waits for the latest row would have to  *)
(* wait for a later one.                                                       *)

LEMMA Latest ==
  ASSUME NEW n \in Nat, NEW P, P \subseteq 1..n, P # {}
  PROVE  \E m \in P : \A y \in P : y <= m
<1> DEFINE T == {x \in Nat : n - x \in P}
           R == OpToRel(<, Nat)
<1>1. T \subseteq Nat /\ T # {}
  <2>1. PICK y \in P : TRUE
    OBVIOUS
  <2>2. y \in Nat /\ n - y \in Nat /\ n - (n - y) = y
    BY <2>1
  <2> QED
    BY <2>1, <2>2
<1>2. \E t \in T : \A y \in T : <<y, t>> \notin R
  <2> HIDE DEF T
  <2> QED
    BY <1>1, NatLessThanWellFounded, WFMin, Zenon
<1>3. PICK t \in T : \A y \in T : <<y, t>> \notin R
  BY <1>2
<1>4. \A x, y \in Nat : x < y => <<x, y>> \in R
  BY DEF OpToRel
<1>5. ASSUME NEW y \in P PROVE y <= n - t
  <2>1. y \in Nat /\ n - y \in Nat /\ n - (n - y) = y
    OBVIOUS
  <2>2. n - y \in T
    BY <2>1
  <2>3. <<n - y, t>> \notin R /\ t \in Nat
    BY <1>3, <2>2
  <2>4. ~(n - y < t)
    <3> HIDE DEF R
    <3> QED
      BY <1>4, <2>1, <2>3
  <2>5. t \in Nat
    BY <1>3
  <2> QED
    BY <2>1, <2>4, <2>5
<1>6. n - t \in P
  BY <1>3
<1> QED
  BY <1>5, <1>6

\* A stuck set without a cause.
NoCause(S) ==
  /\ S \subseteq Call
  /\ \A a \in S : \E b \in S : WaitsFor(a, b)
  /\ \A c \in S : pc[c] \notin {"cleanup", "success"}
  /\ \A c, d \in S : ~(Recovers(c) /\ pc[d] = "rotate")

\* The rows and the keys of the throttle, the codes, and the sessions with their tokens
\* are different things.
LEMMA Kinds ==
  ASSUME IInv, NEW h \in ToSet(issued)
  PROVE  h \notin Row /\ h \notin SessionRow /\ SessionRow \cap Row = {}
<1>1. h \in Challenge
  BY Elements DEF IInv, TypeOK
<1> QED
  BY <1>1, ChallengesAssumption

LEMMA Waits ==
  ASSUME IInv, NEW S, NoCause(S), NEW a \in S
  PROVE  /\ a \in Call /\ CallOK(a) /\ todo[a] # <<>>
         /\ pc[a] \in {"failure", "request", "admit", "issue", "complete", "rotate"}
         /\ pc[a] # "request" => \E b \in S \ {a} : Head(todo[a]) \in held[b]
         /\ pc[a] = "request" => \E b \in S \ {a} : Head(todo[a]) \in advised[b]
<1>1. a \in Call /\ CallOK(a) /\ CallTypes
  BY TypeParts DEF IInv, NoCause
<1>2. PICK b \in S : WaitsFor(a, b)
  BY DEF NoCause
<1>3. todo[a] # <<>> /\ b # a
  BY <1>2 DEF WaitsFor, Wants
<1>4. pc[a] \in {"failure", "request", "admit", "issue", "complete", "rotate"}
  BY <1>1, <1>3 DEF NoCause, CallTypes, CallOK, NoLocks, Step, Locking
<1> QED
  BY <1>1, <1>2, <1>3, <1>4 DEF WaitsFor, Wants

\* A call that completes an answer waits for the account.
LEMMA CompleteWaits ==
  ASSUME IInv, NEW S, NoCause(S), NEW a \in S, pc[a] = "complete"
  PROVE  Head(todo[a]) = "user" /\ held[a] = {arg[a]}
<1>1. CompleteOK(a) /\ todo[a] # <<>> /\ a \in Call
  BY Waits DEF CallOK
<1>2. CASE todo[a] = <<"user">> /\ held[a] = {arg[a]}
  BY <1>2, ShortLists
<1>3. CASE todo[a] = <<"user", "session", "token">> /\ held[a] = {arg[a]}
  BY <1>3, ShortLists
<1>4. ASSUME "user" \in held[a], Head(todo[a]) \in SessionRow, action[arg[a]][1] = "PASSWORD_RECOVERY"
      PROVE  FALSE
  <2>1. PICK b \in S \ {a} : Head(todo[a]) \in held[b]
    BY Waits
  <2>2. CallOK(b) /\ b \in Call /\ todo[b] # <<>>
    BY Waits
  <2>3. "user" \notin held[b]
    BY <1>1, <1>4, <2>1, <2>2 DEF IInv, Apart
  <2>4. pc[b] # "rotate"
    BY <1>4, <2>1 DEF NoCause, Recovers
  <2>5. CASE pc[b] = "complete"
    <3>1. CompleteOK(b)
      BY <2>2, <2>5 DEF CallOK
    <3>2. Head(todo[a]) # arg[b] /\ Head(todo[a]) # "user"
      BY <1>4, <3>1, Kinds DEF CompleteOK, SessionRow
    <3> QED
      BY <2>1, <2>2, <2>3, <3>1, <3>2 DEF CompleteOK
  <2>6. CASE pc[b] = "issue"
    <3>1. Head(todo[a]) \in ToSet(issued)
      BY <2>1, <2>2, <2>6 DEF CallOK, IssueOK
    <3> QED
      BY <1>4, <3>1, Kinds
  <2>7. CASE pc[b] \in {"failure", "request", "admit"}
    <3>1. held[b] \subseteq Row
      BY <2>2, <2>7 DEF CallOK, FailureOK, RequestOK, AdmitOK, Row, SignInRow
    <3> QED
      BY <1>4, <2>1, <3>1, ChallengesAssumption
  <2> QED
    BY <2>1, <2>4, <2>5, <2>6, <2>7, Waits
<1>5. CASE /\ action[arg[a]][1] = "PASSWORD_RECOVERY"
           /\ todo[a] = <<"session", "token">> /\ held[a] = {arg[a], "user"}
  <2>1. Head(todo[a]) = "session"
    BY <1>5, ShortLists
  <2> QED
    BY <1>4, <1>5, <2>1 DEF SessionRow
<1>6. CASE /\ action[arg[a]][1] = "PASSWORD_RECOVERY"
           /\ todo[a] = <<"token">> /\ held[a] = {arg[a], "user", "session"}
  <2>1. Head(todo[a]) = "token"
    BY <1>6, ShortLists
  <2> QED
    BY <1>4, <1>6, <2>1 DEF SessionRow
<1> QED
  BY <1>1, <1>2, <1>3, <1>5, <1>6 DEF CompleteOK

\* A failed sign-in waits for a later row than those it has.
LEMMA FailureWaits ==
  ASSUME IInv, NEW S, NoCause(S), NEW a \in S, pc[a] = "failure"
  PROVE  /\ Head(todo[a]) \in {"email", "ip", "user"} /\ "user" \notin held[a]
         /\ "email" \in held[a] => Head(todo[a]) # "email"
         /\ "ip" \in held[a] => Head(todo[a]) = "user"
<1>1. FailureOK(a) /\ todo[a] # <<>>
  BY Waits DEF CallOK
<1>2. /\ todo[a] = <<"email", "ip", "user">> => Head(todo[a]) = "email"
      /\ todo[a] = <<"ip", "user">> => Head(todo[a]) = "ip"
      /\ todo[a] = <<"user">> => Head(todo[a]) = "user"
  BY ShortLists
<1> QED
  BY <1>1, <1>2 DEF FailureOK

\* Nobody in the set has the account, for whoever has it waits for nobody.
LEMMA NobodyHasAccount ==
  ASSUME IInv, NEW S, NoCause(S), NEW b \in S
  PROVE  "user" \notin held[b]
<1>1. "user" \in Row /\ "user" \notin SessionRow /\ "user" \notin Ip \cup Phone /\ CallOK(b)
  BY Waits, ThrottleAssumption, ChallengesAssumption DEF Row, SignInRow
<1>2. CASE pc[b] = "failure"
  BY <1>2, FailureWaits
<1>3. CASE pc[b] = "complete"
  <2>1. held[b] = {arg[b]} /\ arg[b] \in ToSet(issued)
    BY <1>1, <1>3, CompleteWaits DEF CallOK, CompleteOK
  <2> QED
    BY <1>1, <2>1, Kinds
<1>4. CASE pc[b] = "issue"
  BY <1>1, <1>4, Kinds DEF CallOK, IssueOK
<1>5. CASE pc[b] \in {"request", "admit", "rotate"}
  BY <1>1, <1>5 DEF CallOK, RequestOK, AdmitOK, RotateOK, SessionRow
<1> QED
  BY <1>2, <1>3, <1>4, <1>5, Waits

LEMMA NoCompletes ==
  ASSUME IInv, NEW S, NoCause(S), NEW a \in S
  PROVE  pc[a] # "complete"
<1> SUFFICES ASSUME pc[a] = "complete" PROVE FALSE
  OBVIOUS
<1>1. PICK b \in S : "user" \in held[b]
  BY Waits, CompleteWaits
<1> QED
  BY <1>1, NobodyHasAccount

\* Whoever has a row of the sign-ins records a failure.
LEMMA SignInHolder ==
  ASSUME IInv, NEW S, NoCause(S), NEW b \in S, NEW k \in {"email", "ip"}, k \in held[b]
  PROVE  pc[b] = "failure"
<1>1. k \in Row /\ k \notin SessionRow /\ k \notin Ip \cup Phone /\ CallOK(b)
  BY Waits, ThrottleAssumption, ChallengesAssumption DEF Row, SignInRow
<1>2. CASE pc[b] = "issue"
  BY <1>1, <1>2, Kinds DEF CallOK, IssueOK
<1>3. CASE pc[b] \in {"request", "admit", "rotate"}
  BY <1>1, <1>3 DEF CallOK, RequestOK, AdmitOK, RotateOK, SessionRow
<1> QED
  BY <1>2, <1>3, Waits, NoCompletes

LEMMA NoFailures ==
  ASSUME IInv, NEW S, NoCause(S), NEW a \in S
  PROVE  pc[a] # "failure"
<1>1. \A b \in S : pc[b] = "failure" => Head(todo[b]) # "user"
  <2> SUFFICES ASSUME NEW b \in S, pc[b] = "failure", Head(todo[b]) = "user" PROVE FALSE
    OBVIOUS
  <2>1. PICK d \in S : "user" \in held[d]
    BY Waits
  <2> QED
    BY <2>1, NobodyHasAccount
<1>2. \A b \in S : pc[b] = "failure" => Head(todo[b]) # "ip"
  <2> SUFFICES ASSUME NEW b \in S, pc[b] = "failure", Head(todo[b]) = "ip" PROVE FALSE
    OBVIOUS
  <2>1. PICK d \in S : "ip" \in held[d]
    BY Waits
  <2>2. pc[d] = "failure" /\ Head(todo[d]) = "user"
    BY <2>1, SignInHolder, FailureWaits
  <2> QED
    BY <1>1, <2>2
<1>3. \A b \in S : pc[b] = "failure" => Head(todo[b]) # "email"
  <2> SUFFICES ASSUME NEW b \in S, pc[b] = "failure", Head(todo[b]) = "email" PROVE FALSE
    OBVIOUS
  <2>1. PICK d \in S : "email" \in held[d]
    BY Waits
  <2>2. pc[d] = "failure" /\ Head(todo[d]) \in {"ip", "user"}
    BY <2>1, SignInHolder, FailureWaits
  <2> QED
    BY <1>1, <1>2, <2>2
<1> QED
  BY <1>1, <1>2, <1>3, FailureWaits

\* Whoever has a row of the requests for codes has its key too.
LEMMA NoAdmits ==
  ASSUME IInv, NEW S, NoCause(S), NEW a \in S
  PROVE  pc[a] # "admit"
<1> SUFFICES ASSUME pc[a] = "admit" PROVE FALSE
  OBVIOUS
<1>1. AdmitOK(a) /\ todo[a] # <<>> /\ a \in Call
  BY Waits DEF CallOK
<1>2. PICK b \in S \ {a} : Head(todo[a]) \in held[b]
  BY Waits
<1>3. Head(todo[a]) \in advised[a] /\ Head(todo[a]) \in Ip \cup Phone
  <2>1. PICK i \in Ip, p \in Phone :
           advised[a] = {i, p} /\ (todo[a] = <<i, p>> \/ todo[a] = <<p>>)
    BY <1>1 DEF AdmitOK
  <2> QED
    BY <2>1, ShortLists
<1>4. Head(todo[a]) \in Row /\ Head(todo[a]) \notin SessionRow /\ CallOK(b) /\ b \in Call
  BY <1>3, Waits, ChallengesAssumption DEF Row
<1>5. CASE pc[b] = "admit"
  <2>1. held[b] \subseteq advised[b]
    BY <1>4, <1>5 DEF CallOK, AdmitOK
  <2> QED
    BY <1>1, <1>2, <1>3, <1>4, <2>1 DEF IInv, Apart
<1>6. CASE pc[b] = "issue"
  BY <1>2, <1>4, <1>6, Kinds DEF CallOK, IssueOK
<1>7. CASE pc[b] \in {"request", "rotate"}
  BY <1>2, <1>4, <1>7 DEF CallOK, RequestOK, RotateOK, SessionRow
<1> QED
  BY <1>2, <1>5, <1>6, <1>7, Waits, NoCompletes, NoFailures

\* Whoever has the key of a phone has both its keys.
LEMMA NoRequests ==
  ASSUME IInv, NEW S, NoCause(S), NEW a \in S
  PROVE  pc[a] # "request"
<1>1. ASSUME NEW b \in S, pc[b] = "request"
      PROVE  /\ advised[b] \cap Phone = {}
             /\ advised[b] # {} => Head(todo[b]) \in Phone
  <2>1. RequestOK(b) /\ todo[b] # <<>>
    BY <1>1, Waits DEF CallOK
  <2>2. PICK i \in Ip, p \in Phone :
           \/ todo[b] = <<i, p>> /\ advised[b] = {}
           \/ todo[b] = <<p>> /\ advised[b] = {i}
    BY <2>1 DEF RequestOK
  <2> QED
    BY <2>2, ShortLists, ThrottleAssumption
<1>2. ASSUME NEW b \in S, NEW k \in advised[b] PROVE pc[b] = "request"
  BY <1>2, Waits, NoAdmits DEF CallOK
<1> SUFFICES ASSUME pc[a] = "request" PROVE FALSE
  OBVIOUS
<1>3. PICK b \in S : Head(todo[a]) \in advised[b]
  BY Waits
<1>4. pc[b] = "request" /\ Head(todo[b]) \in Phone
  BY <1>1, <1>2, <1>3
<1>5. PICK d \in S : Head(todo[b]) \in advised[d]
  BY <1>4, Waits
<1> QED
  BY <1>1, <1>2, <1>4, <1>5

\* A refresh has the token when it waits for the session.
LEMMA NoRotates ==
  ASSUME IInv, NEW S, NoCause(S), NEW a \in S
  PROVE  pc[a] # "rotate"
<1>1. ASSUME NEW b \in S, pc[b] = "rotate"
      PROVE  /\ Head(todo[b]) \in SessionRow /\ "session" \notin held[b]
             /\ held[b] # {} => Head(todo[b]) = "session"
  <2>1. RotateOK(b) /\ todo[b] # <<>>
    BY <1>1, Waits DEF CallOK
  <2>2. \/ todo[b] = <<"token", "session">> /\ held[b] = {}
        \/ todo[b] = <<"session">> /\ held[b] = {"token"}
    BY <2>1 DEF RotateOK
  <2> QED
    BY <2>2, ShortLists DEF SessionRow
<1>2. ASSUME NEW b \in S, NEW k \in SessionRow, k \in held[b] PROVE pc[b] = "rotate"
  <2>1. pc[b] \in {"issue", "rotate"}
    BY Waits, NoCompletes, NoFailures, NoAdmits, NoRequests
  <2> QED
    BY <1>2, <2>1, Waits, Kinds DEF CallOK, IssueOK
<1> SUFFICES ASSUME pc[a] = "rotate" PROVE FALSE
  OBVIOUS
<1>3. PICK b \in S : Head(todo[a]) \in held[b]
  BY Waits
<1>4. pc[b] = "rotate" /\ Head(todo[b]) = "session"
  BY <1>1, <1>2, <1>3
<1>5. PICK d \in S : "session" \in held[d]
  BY <1>4, Waits
<1>6. pc[d] = "rotate"
  BY <1>2, <1>5 DEF SessionRow
<1> QED
  BY <1>1, <1>5, <1>6

LEMMA IssueWaits ==
  ASSUME IInv, NEW S, NoCause(S), NEW a \in S
  PROVE  /\ pc[a] = "issue"
         /\ \E b \in S : Position(Head(todo[a])) < Position(Head(todo[b]))
<1>1. \A b \in S : pc[b] = "issue"
  BY Waits, NoCompletes, NoFailures, NoAdmits, NoRequests, NoRotates
<1>2. PICK b \in S : Head(todo[a]) \in held[b]
  BY <1>1, Waits
<1>3. IssueOK(b) /\ todo[b] # <<>>
  BY <1>1, Waits DEF CallOK
<1>4. Head(todo[b]) = todo[b][1] /\ 1 \in DOMAIN todo[b]
  BY <1>3, HeadTail DEF IssueOK
<1> QED
  BY <1>1, <1>2, <1>3, <1>4 DEF IssueOK, InOrder

LEMMA HeadPosition ==
  ASSUME IInv, NEW a \in Call, pc[a] = "issue", todo[a] # <<>>
  PROVE  Position(Head(todo[a])) \in 1..Len(issued)
<1>1. ChallengeTypes /\ IssueOK(a)
  BY TypeParts DEF IInv, CallOK
<1>2. Head(todo[a]) \in ToSet(issued)
  BY <1>1, HeadTail DEF IssueOK
<1>3. PICK i \in DOMAIN issued : issued[i] = Head(todo[a])
  BY <1>2 DEF ToSet
<1>4. Position(Head(todo[a])) = i
  BY <1>1, <1>3, PositionIs DEF ChallengeTypes
<1> QED
  BY <1>1, <1>3, <1>4 DEF ChallengeTypes

\* Whenever calls wait for each other, one of them deletes rows of the throttle, or a
\* password is recovered beside a refresh: all other calls take what they lock in
\* orders that agree.
THEOREM DeadlocksCaused == Spec => []DeadlocksHaveCause
<1>1. ASSUME IInv, NEW S, NoCause(S), S # {} PROVE FALSE
  <2> DEFINE P == {i \in 1..Len(issued) : \E a \in S : i = Position(Head(todo[a]))}
  <2>1. \A a \in S : Position(Head(todo[a])) \in 1..Len(issued)
    BY <1>1, IssueWaits, Waits, HeadPosition
  <2>2. P \subseteq 1..Len(issued) /\ P # {}
    BY <1>1, <2>1
  <2>3. Len(issued) \in Nat
    BY <1>1, TypeParts DEF IInv, ChallengeTypes
  <2>4. PICK m \in P : \A y \in P : y <= m
    <3> HIDE DEF P
    <3> QED
      BY <2>2, <2>3, Latest
  <2>5. PICK a \in S : m = Position(Head(todo[a]))
    BY <2>4
  <2>6. PICK b \in S : Position(Head(todo[a])) < Position(Head(todo[b]))
    BY <1>1, IssueWaits
  <2>7. Position(Head(todo[b])) \in P
    BY <2>1
  <2> QED
    BY <2>1, <2>3, <2>4, <2>5, <2>6, <2>7
<1>2. IInv => DeadlocksHaveCause
  <2> SUFFICES ASSUME IInv, NEW S \in SUBSET Call, Stuck(S),
                      \A c \in S : pc[c] \notin {"cleanup", "success"},
                      \A c, d \in S : ~(Recovers(c) /\ pc[d] = "rotate")
               PROVE  FALSE
    BY DEF DeadlocksHaveCause
  <2>1. NoCause(S) /\ S # {}
    BY DEF NoCause, Stuck
  <2> QED
    BY <1>1, <2>1
<1> QED
  BY <1>2, IInvHolds, PTL
=============================================================================
