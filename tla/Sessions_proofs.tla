-------------------------- MODULE Sessions_proofs --------------------------
(***************************************************************************)
(* Proofs about Sessions, for any calls, sessions, tokens and recoveries.  *)
(***************************************************************************)
EXTENDS Sessions, TLAPS

-----------------------------------------------------------------------------
(* The strengthening. *)

\* A token that was issued belongs to a session; what may still be rotated was
\* never seen again.
RowInv ==
  /\ \A t \in Token : token[t] # "none" =>
       holder[t] \in Session /\ session[holder[t]] # "none"
  /\ \A t \in Token : token[t] \in {"none", "live"} => shown[t] = 0
  /\ OneLiveToken
  /\ EndedHasNoLiveToken
  /\ ReuseEndsSession

\* What was read with a version of the password is that password.
PasswordInv ==
  /\ \A s \in Session : /\ born[s] <= version
                        /\ ~undone /\ session[s] # "none" /\ born[s] = version => proven[s] = secret
  /\ \A c \in Call : /\ proof[c][1] <= version
                     /\ ~undone /\ pc[c] = "proven" /\ proof[c][1] = version => proof[c][2] = secret

\* Sign-out or reuse, which revoke the sessions of their list and their tokens.
Ends(c) == pc[c] \in {"find", "revoke", "tokens"} /\ reason[c] # "password_recovery"

\* A rotation under way: the token it consumes stays live until it commits.
RotationOK(c) ==
  /\ pc[c] \in {"consume", "touch"} =>
       old[c] \in Token /\ token[old[c]] # "none" /\ new[c] \in Token
  /\ pc[c] = "touch" => token[old[c]] = "live"
  /\ new[c] \in Token => token[new[c]] = "none"

\* A revocation under way: what it has still to do covers what it must end.
RevocationOK(c) ==
  /\ ended[c] # {} => pc[c] \in {"revoke", "tokens"}
  /\ gone[c] # {} => pc[c] = "tokens"
  /\ \A s \in ended[c] : session[s] = "open"
  /\ \A t \in gone[c] : token[t] # "none"
  /\ Recovers(c) => version < MaxRecoveries
  /\ pc[c] = "revoke" => todo[c] \subseteq Session
  /\ pc[c] = "tokens" => todo[c] \subseteq Token
  /\ Ends(c) => ended[c] \subseteq list[c] /\ \A s \in list[c] : session[s] # "none"
  /\ Ends(c) /\ reason[c] = "refresh_reuse" =>
       old[c] \in Token /\ token[old[c]] \notin {"none", "live"} /\ list[c] = {holder[old[c]]}
  /\ pc[c] = "list" => reason[c] = "password_recovery"
  /\ Ends(c) /\ pc[c] = "revoke" =>
       /\ todo[c] \subseteq list[c]
       /\ \A s \in list[c] : session[s] = "open" => s \in todo[c] \cup ended[c]
  /\ Ends(c) /\ pc[c] = "tokens" =>
       /\ \A s \in list[c] : session[s] = "open" => s \in ended[c]
       /\ \A t \in Token : token[t] = "live" /\ holder[t] \in ended[c] => t \in gone[c] \cup todo[c]

\* Two calls share no lock and no new token.
Apart(c, d) ==
  /\ ended[c] \cap ended[d] = {}
  /\ \A t \in Token : ~(LocksToken(c, t) /\ LocksToken(d, t))
  /\ new[c] \in Token => new[c] # new[d]
  /\ ~(Recovers(c) /\ Recovers(d))

IInv ==
  /\ TypeOK
  /\ RowInv
  /\ PasswordInv
  /\ \A c \in Call : RotationOK(c)
  /\ \A c \in Call : RevocationOK(c)
  /\ \A c, d \in Call : c # d => Apart(c, d)

-----------------------------------------------------------------------------
(* Steps of one call. *)

Version == 0..MaxRecoveries

SharedTypes ==
  /\ version \in Version /\ secret \in Version /\ undone \in BOOLEAN
  /\ session \in [Session -> {"none", "open"} \cup Reason]
  /\ born \in [Session -> Version] /\ proven \in [Session -> Version]
  /\ expired \subseteq Session
  /\ token \in [Token -> {"none", "live", "used", "revoked"}]
  /\ holder \in [Token -> Session \cup {Nothing}]
  /\ shown \in [Token -> 0..2]

LocalTypes ==
  /\ pc \in [Call -> Step]
  /\ proof \in [Call -> Version \X Version]
  /\ old \in [Call -> Token \cup {Nothing}] /\ new \in [Call -> Token \cup {Nothing}]
  /\ reason \in [Call -> Reason]
  /\ list \in [Call -> SUBSET Session]
  /\ todo \in [Call -> SUBSET (Session \cup Token)]
  /\ ended \in [Call -> SUBSET Session]
  /\ gone \in [Call -> SUBSET Token]

LEMMA Types == TypeOK <=> SharedTypes /\ LocalTypes
BY DEF TypeOK, SharedTypes, LocalTypes, Version

\* A call the step leaves alone.
Same(d) ==
  /\ pc'[d] = pc[d] /\ proof'[d] = proof[d] /\ old'[d] = old[d] /\ new'[d] = new[d]
  /\ reason'[d] = reason[d] /\ list'[d] = list[d] /\ todo'[d] = todo[d]
  /\ ended'[d] = ended[d] /\ gone'[d] = gone[d]

\* The step of a call leaves the other calls alone.
Alone(c) == LocalTypes' /\ \A d \in Call \ {c} : Same(d)

LEMMA ReturnFacts ==
  ASSUME LocalTypes, NEW c \in Call, Return(c)
  PROVE  /\ Alone(c)
         /\ pc'[c] = "idle" /\ proof'[c] = <<0, 0>> /\ new'[c] = Nothing
         /\ ended'[c] = {} /\ gone'[c] = {}
<1>1. /\ pc' = [pc EXCEPT ![c] = "idle"]
      /\ proof' = [proof EXCEPT ![c] = <<0, 0>>]
      /\ old' = [old EXCEPT ![c] = Nothing] /\ new' = [new EXCEPT ![c] = Nothing]
      /\ reason' = [reason EXCEPT ![c] = "signed_out"]
      /\ list' = [list EXCEPT ![c] = {}]
      /\ todo' = [todo EXCEPT ![c] = {}]
      /\ ended' = [ended EXCEPT ![c] = {}]
      /\ gone' = [gone EXCEPT ![c] = {}]
  BY DEF Return, Goto
<1>2. <<0, 0>> \in Version \X Version
  BY SessionsAssumption DEF Version
<1>3. "idle" \in Step /\ "signed_out" \in Reason
  BY DEF Step, Reason
<1>4. LocalTypes'
  <2>1. pc' \in [Call -> Step] /\ proof' \in [Call -> Version \X Version]
    BY <1>1, <1>2, <1>3 DEF LocalTypes
  <2>2. old' \in [Call -> Token \cup {Nothing}] /\ new' \in [Call -> Token \cup {Nothing}]
    BY <1>1 DEF LocalTypes
  <2>3. reason' \in [Call -> Reason] /\ list' \in [Call -> SUBSET Session]
    BY <1>1, <1>3 DEF LocalTypes
  <2>4. todo' \in [Call -> SUBSET (Session \cup Token)]
    BY <1>1 DEF LocalTypes
  <2>5. ended' \in [Call -> SUBSET Session] /\ gone' \in [Call -> SUBSET Token]
    BY <1>1 DEF LocalTypes
  <2> QED
    BY <2>1, <2>2, <2>3, <2>4, <2>5 DEF LocalTypes, Version, Step, Reason
<1>5. \A d \in Call \ {c} : Same(d)
  BY <1>1 DEF LocalTypes, Same
<1>6. /\ pc'[c] = "idle" /\ proof'[c] = <<0, 0>> /\ new'[c] = Nothing
      /\ ended'[c] = {} /\ gone'[c] = {}
  BY <1>1 DEF LocalTypes
<1> QED
  BY <1>4, <1>5, <1>6 DEF Alone

\* Two calls that did nothing stay apart.
LEMMA SameApart ==
  ASSUME NEW c \in Call, NEW d \in Call, Apart(c, d), Same(c), Same(d)
  PROVE  Apart(c, d)'
BY DEF Apart, Same, LocksToken, Recovers

LEMMA ApartSymmetric ==
  ASSUME NEW c \in Call, NEW d \in Call, Apart(c, d)
  PROVE  Apart(d, c)
BY DEF Apart, LocksToken, Recovers

\* A call that has returned holds nothing.
LEMMA ReturnOK ==
  ASSUME IInv, NEW c \in Call, Return(c)
  PROVE  /\ Alone(c)
         /\ RotationOK(c)' /\ RevocationOK(c)'
         /\ \A d \in Call \ {c} : Apart(c, d)'
         /\ proof'[c][1] = 0 /\ pc'[c] = "idle"
<1>1. /\ Alone(c)
      /\ pc'[c] = "idle" /\ proof'[c] = <<0, 0>> /\ new'[c] = Nothing
      /\ ended'[c] = {} /\ gone'[c] = {}
  BY ReturnFacts, Types DEF IInv
<1>2. RotationOK(c)'
  BY <1>1, SessionsAssumption DEF RotationOK
<1>3. RevocationOK(c)'
  BY <1>1 DEF RevocationOK, Ends, Recovers
<1>4. \A d \in Call \ {c} : Apart(c, d)'
  BY <1>1, SessionsAssumption DEF Apart, LocksToken, Recovers
<1> QED
  BY <1>1, <1>2, <1>3, <1>4

\* A step that touches only what belongs to one call.
LEMMA LocalStep ==
  ASSUME IInv, UNCHANGED <<user, rows>>,
         NEW c \in Call, Alone(c),
         proof'[c][1] <= version,
         ~undone /\ pc'[c] = "proven" /\ proof'[c][1] = version => proof'[c][2] = secret,
         RotationOK(c)', RevocationOK(c)',
         \A d \in Call \ {c} : Apart(c, d)'
  PROVE  IInv'
<1>1. LocalTypes /\ SharedTypes
  BY Types DEF IInv
<1>2. LocalTypes' /\ \A d \in Call \ {c} : Same(d)
  BY DEF Alone
<1>3. SharedTypes'
  BY <1>1 DEF SharedTypes, user, rows, Version, Reason
<1>4. TypeOK'
  BY <1>2, <1>3, Types DEF TypeOK, SharedTypes, LocalTypes, Version, Step, Reason
<1>5. RowInv'
  BY DEF IInv, RowInv, OneLiveToken, EndedHasNoLiveToken, ReuseEndsSession, user, rows
<1>6. PasswordInv'
  BY <1>2 DEF IInv, PasswordInv, Same, user, rows
<1>7. ASSUME NEW d \in Call, d # c PROVE RotationOK(d)' /\ RevocationOK(d)'
  <2>1. Same(d) /\ RotationOK(d) /\ RevocationOK(d)
    BY <1>2, <1>7 DEF IInv
  <2>2. RotationOK(d)'
    BY <2>1 DEF RotationOK, Same, rows
  <2>3. RevocationOK(d)'
    BY <2>1 DEF RevocationOK, Ends, Recovers, Same, rows, user
  <2> QED
    BY <2>2, <2>3
<1>8. ASSUME NEW d \in Call, NEW f \in Call, d # f PROVE Apart(d, f)'
  <2>1. CASE d = c
    BY <1>8, <2>1
  <2>2. CASE f = c
    <3>1. Apart(c, d)'
      BY <1>8, <2>2
    <3> QED
      BY <2>2, <3>1, ApartSymmetric DEF Apart, LocksToken, Recovers
  <2>3. CASE d # c /\ f # c
    BY <1>2, <1>8, <2>3, SameApart DEF IInv
  <2> QED
    BY <2>1, <2>2, <2>3
<1> QED
  BY <1>4, <1>5, <1>6, <1>7, <1>8 DEF IInv

LEMMA DeadlockStep ==
  ASSUME IInv, NEW c \in Call, Deadlock(c)
  PROVE  IInv'
<1>1. Return(c) /\ UNCHANGED <<user, rows>>
  BY DEF Deadlock
<1>2. 0 <= version
  BY SessionsAssumption DEF IInv, TypeOK
<1> QED
  BY <1>1, <1>2, ReturnOK, LocalStep

\* What a call has while it has locked nothing.
LEMMA Unlocked ==
  ASSUME IInv, NEW c \in Call
  PROVE  /\ pc[c] \notin {"revoke", "tokens"} => ended[c] = {}
         /\ pc[c] # "tokens" => gone[c] = {}
         /\ proof[c][1] <= version
         /\ LocalTypes /\ SharedTypes /\ RotationOK(c) /\ RevocationOK(c)
BY Types DEF IInv, RevocationOK, PasswordInv

LEMMA ReadAccountStep ==
  ASSUME IInv, NEW c \in Call, ReadAccount(c)
  PROVE  IInv'
<1>1. /\ pc[c] = "idle"
      /\ proof' = [proof EXCEPT ![c] = <<version, secret>>]
      /\ pc' = [pc EXCEPT ![c] = "proven"]
      /\ UNCHANGED <<user, rows, old, new, reason, list, todo, ended, gone>>
  BY DEF ReadAccount, Goto
<1>2. LocalTypes /\ SharedTypes /\ RotationOK(c) /\ ended[c] = {} /\ gone[c] = {}
  BY <1>1, Unlocked
<1>3. version \in Nat /\ <<version, secret>> \in Version \X Version
  BY <1>2, SessionsAssumption DEF SharedTypes, Version
<1>4. LocalTypes'
  BY <1>1, <1>2, <1>3 DEF LocalTypes, Step, Reason, Version
<1>5. \A d \in Call \ {c} : Same(d)
  BY <1>1, <1>2 DEF LocalTypes, Same
<1>6. pc'[c] = "proven" /\ proof'[c] = <<version, secret>>
  BY <1>1, <1>2 DEF LocalTypes
<1>7. RotationOK(c)'
  BY <1>1, <1>2, <1>6 DEF RotationOK, rows
<1>8. RevocationOK(c)'
  BY <1>1, <1>2, <1>6 DEF RevocationOK, Ends, Recovers
<1>9. \A d \in Call \ {c} : Apart(c, d)'
  BY <1>1, <1>2, <1>5, <1>6 DEF Apart, LocksToken, Recovers, Same, IInv
<1>10. proof'[c][1] <= version /\ proof'[c][1] = version /\ proof'[c][2] = secret
  BY <1>3, <1>6
<1> QED
  BY <1>1, <1>4, <1>5, <1>7, <1>8, <1>9, <1>10, LocalStep DEF Alone

\* The steps by which a revocation begins: it has a list and holds nothing yet.
LEMMA BeginStep ==
  ASSUME IInv, UNCHANGED <<user, rows>>, NEW c \in Call, Alone(c),
         pc'[c] = "find", reason'[c] # "password_recovery",
         \A s \in list'[c] : session[s] # "none",
         reason'[c] = "refresh_reuse" =>
           old'[c] \in Token /\ token[old'[c]] \notin {"none", "live"} /\ list'[c] = {holder[old'[c]]},
         ended'[c] = {}, gone'[c] = {}, proof'[c] = proof[c], new'[c] = new[c]
  PROVE  IInv'
<1>1. RotationOK(c) /\ proof[c][1] <= version
  BY Unlocked
<1>2. RotationOK(c)'
  BY <1>1 DEF RotationOK, rows
<1>3. RevocationOK(c)'
  BY DEF RevocationOK, Ends, Recovers, rows
<1>4. \A d \in Call \ {c} : Apart(c, d)'
  BY DEF Apart, LocksToken, Recovers, Alone, Same, IInv
<1> QED
  BY <1>1, <1>2, <1>3, <1>4, LocalStep

LEMMA SignOutStep ==
  ASSUME IInv, NEW c \in Call, NEW s \in Session, SignOut(c, s)
  PROVE  IInv'
<1>1. /\ pc[c] = "idle" /\ session[s] # "none"
      /\ list' = [list EXCEPT ![c] = {s}]
      /\ reason' = [reason EXCEPT ![c] = "signed_out"]
      /\ pc' = [pc EXCEPT ![c] = "find"]
      /\ UNCHANGED <<user, rows, proof, old, new, todo, ended, gone>>
  BY DEF SignOut, Goto
<1>2. LocalTypes /\ ended[c] = {} /\ gone[c] = {}
  BY <1>1, Unlocked
<1>3. LocalTypes'
  BY <1>1, <1>2 DEF LocalTypes, Step, Reason, Version
<1>4. \A d \in Call \ {c} : Same(d)
  BY <1>1, <1>2 DEF LocalTypes, Same
<1>5. pc'[c] = "find" /\ list'[c] = {s} /\ reason'[c] = "signed_out"
  BY <1>1, <1>2 DEF LocalTypes
<1> QED
  BY <1>1, <1>2, <1>3, <1>4, <1>5, BeginStep DEF Alone

\* A token that is used or revoked ends its session.
LEMMA ReuseStep ==
  ASSUME IInv, NEW c \in Call, NEW t \in Token,
         pc[c] \in {"idle", "consume"}, token[t] \notin {"none", "live"},
         list' = [list EXCEPT ![c] = {holder[t]}],
         reason' = [reason EXCEPT ![c] = "refresh_reuse"],
         pc' = [pc EXCEPT ![c] = "find"],
         old' = [old EXCEPT ![c] = t],
         UNCHANGED <<user, rows, proof, new, todo, ended, gone>>
  PROVE  IInv'
<1>1. LocalTypes /\ ended[c] = {} /\ gone[c] = {}
  BY Unlocked
<1>2. holder[t] \in Session /\ session[holder[t]] # "none"
  BY DEF IInv, RowInv
<1>3. LocalTypes'
  BY <1>1, <1>2 DEF LocalTypes, Step, Reason, Version
<1>4. \A d \in Call \ {c} : Same(d)
  BY <1>1 DEF LocalTypes, Same
<1>5. /\ pc'[c] = "find" /\ list'[c] = {holder[t]}
      /\ reason'[c] = "refresh_reuse" /\ old'[c] = t
  BY <1>1 DEF LocalTypes
<1> QED
  BY <1>1, <1>2, <1>3, <1>4, <1>5, BeginStep DEF Alone

LEMMA FirstTokenIsFree ==
  ASSUME FreeTokens # {}
  PROVE  FirstToken \in Token /\ token[FirstToken] = "none" /\ \A d \in Call : new[d] # FirstToken
<1>1. FirstToken \in FreeTokens
  BY DEF FirstToken
<1> QED
  BY <1>1 DEF FreeTokens

LEMMA ReadTokenStep ==
  ASSUME IInv, NEW c \in Call, NEW t \in Token, ReadToken(c, t)
  PROVE  IInv'
<1>1. CASE token[t] = "used"
  BY <1>1, ReuseStep DEF ReadToken, Goto
<1>2. CASE token[t] # "used"
  <2>1. PICK n \in Token : /\ n = FirstToken /\ token[n] = "none"
                           /\ \A d \in Call : new[d] # n
    BY <1>2, FirstTokenIsFree DEF ReadToken
  <2>2. /\ pc[c] = "idle" /\ token[t] = "live"
        /\ new' = [new EXCEPT ![c] = n]
        /\ pc' = [pc EXCEPT ![c] = "consume"]
        /\ old' = [old EXCEPT ![c] = t]
        /\ UNCHANGED <<user, rows, proof, list, reason, todo, ended, gone>>
    BY <1>2, <2>1 DEF ReadToken, Goto
  <2>3. LocalTypes /\ ended[c] = {} /\ gone[c] = {} /\ proof[c][1] <= version
    BY <2>2, Unlocked
  <2>4. LocalTypes'
    BY <2>2, <2>3 DEF LocalTypes, Step, Reason, Version
  <2>5. \A d \in Call \ {c} : Same(d)
    BY <2>2, <2>3 DEF LocalTypes, Same
  <2>6. pc'[c] = "consume" /\ new'[c] = n /\ old'[c] = t
    BY <2>2, <2>3 DEF LocalTypes
  <2>7. RotationOK(c)'
    BY <2>1, <2>2, <2>6 DEF RotationOK, rows
  <2>8. RevocationOK(c)'
    BY <2>2, <2>3, <2>6 DEF RevocationOK, Ends, Recovers
  <2>9. \A d \in Call \ {c} : Apart(c, d)'
    BY <2>1, <2>2, <2>3, <2>5, <2>6 DEF Apart, LocksToken, Recovers, Same, IInv
  <2> QED
    BY <2>2, <2>3, <2>4, <2>5, <2>6, <2>7, <2>8, <2>9, LocalStep DEF Alone
<1> QED
  BY <1>1, <1>2

LEMMA ConsumeStep ==
  ASSUME IInv, NEW c \in Call, Consume(c)
  PROVE  IInv'
<1>1. /\ pc[c] = "consume" /\ TokenFree(c, old[c])
      /\ UNCHANGED <<user, rows, proof, old, new, todo, ended, gone>>
  BY DEF Consume
<1>2. LocalTypes /\ RotationOK(c) /\ ended[c] = {} /\ gone[c] = {} /\ proof[c][1] <= version
  BY <1>1, Unlocked
<1>3. PICK t \in Token : t = old[c] /\ token[t] # "none"
  BY <1>1, <1>2 DEF RotationOK
<1>4. CASE token[t] # "live"
  <2>1. /\ list' = [list EXCEPT ![c] = {holder[t]}]
        /\ reason' = [reason EXCEPT ![c] = "refresh_reuse"]
        /\ pc' = [pc EXCEPT ![c] = "find"]
    BY <1>3, <1>4 DEF Consume, Goto
  <2>2. old' = [old EXCEPT ![c] = t]
    BY <1>1, <1>2, <1>3 DEF LocalTypes
  <2> QED
    BY <1>1, <1>3, <1>4, <2>1, <2>2, ReuseStep
<1>5. CASE token[t] = "live"
  <2>1. pc' = [pc EXCEPT ![c] = "touch"] /\ UNCHANGED <<list, reason>>
    BY <1>3, <1>5 DEF Consume, Goto
  <2>2. LocalTypes'
    BY <1>1, <1>2, <2>1 DEF LocalTypes, Step, Reason, Version
  <2>3. \A d \in Call \ {c} : Same(d)
    BY <1>1, <1>2, <2>1 DEF LocalTypes, Same
  <2>4. pc'[c] = "touch"
    BY <1>2, <2>1 DEF LocalTypes
  <2>5. RotationOK(c)'
    BY <1>1, <1>2, <1>3, <1>5, <2>4 DEF RotationOK, rows
  <2>6. RevocationOK(c)'
    BY <1>1, <1>2, <2>4 DEF RevocationOK, Ends, Recovers
  <2>7. ASSUME NEW d \in Call, d # c PROVE Apart(c, d)'
    <3>1. Apart(c, d) /\ Same(d) /\ ~LocksToken(d, t)
      BY <1>1, <1>3, <2>3, <2>7 DEF TokenFree, IInv
    <3>2. \A u \in Token : LocksToken(c, u)' => u = t
      BY <1>1, <1>2, <1>3, <2>4 DEF LocksToken
    <3>3. ~LocksToken(d, t)'
      BY <3>1 DEF LocksToken, Same
    <3> QED
      BY <1>1, <1>2, <2>4, <3>1, <3>2, <3>3 DEF Apart, Recovers, Same
  <2> QED
    BY <1>1, <1>2, <2>2, <2>3, <2>4, <2>5, <2>6, <2>7, LocalStep DEF Alone
<1> QED
  BY <1>4, <1>5

LEMMA RecoverStep ==
  ASSUME IInv, NEW c \in Call, Recover(c)
  PROVE  IInv'
<1>1. /\ pc[c] = "idle" /\ version < MaxRecoveries /\ UserFree(c)
      /\ reason' = [reason EXCEPT ![c] = "password_recovery"]
      /\ pc' = [pc EXCEPT ![c] = "list"]
      /\ UNCHANGED <<user, rows, proof, old, new, list, todo, ended, gone>>
  BY DEF Recover, Goto
<1>2. LocalTypes /\ RotationOK(c) /\ ended[c] = {} /\ gone[c] = {} /\ proof[c][1] <= version
  BY <1>1, Unlocked
<1>3. LocalTypes'
  BY <1>1, <1>2 DEF LocalTypes, Step, Reason, Version
<1>4. \A d \in Call \ {c} : Same(d)
  BY <1>1, <1>2 DEF LocalTypes, Same
<1>5. pc'[c] = "list" /\ reason'[c] = "password_recovery"
  BY <1>1, <1>2 DEF LocalTypes
<1>6. RotationOK(c)'
  BY <1>1, <1>2, <1>5 DEF RotationOK, rows
<1>7. RevocationOK(c)'
  BY <1>1, <1>2, <1>5 DEF RevocationOK, Ends, Recovers, user
<1>8. ASSUME NEW d \in Call, d # c PROVE Apart(c, d)'
  <2>1. Apart(c, d) /\ Same(d) /\ ~Recovers(d)
    BY <1>1, <1>4, <1>8 DEF UserFree, LocksUser, IInv
  <2> QED
    BY <1>1, <1>2, <1>5, <2>1 DEF Apart, LocksToken, Recovers, Same
<1> QED
  BY <1>1, <1>2, <1>3, <1>4, <1>5, <1>6, <1>7, <1>8, LocalStep DEF Alone

LEMMA ListStep ==
  ASSUME IInv, NEW c \in Call, ListSessions(c)
  PROVE  IInv'
<1>1. /\ pc[c] = "list"
      /\ list' = [list EXCEPT ![c] = OpenSessions]
      /\ pc' = [pc EXCEPT ![c] = "find"]
      /\ UNCHANGED <<user, rows, proof, old, new, reason, todo, ended, gone>>
  BY DEF ListSessions, Goto
<1>2. LocalTypes /\ RotationOK(c) /\ RevocationOK(c) /\ ended[c] = {} /\ gone[c] = {} /\ proof[c][1] <= version
  BY <1>1, Unlocked
<1>3. OpenSessions \in SUBSET Session
  BY DEF OpenSessions
<1>4. LocalTypes'
  BY <1>1, <1>2, <1>3 DEF LocalTypes, Step, Reason, Version
<1>5. \A d \in Call \ {c} : Same(d)
  BY <1>1, <1>2 DEF LocalTypes, Same
<1>6. pc'[c] = "find" /\ list'[c] = OpenSessions /\ reason'[c] = reason[c]
  BY <1>1, <1>2 DEF LocalTypes
<1>7. RotationOK(c)'
  BY <1>1, <1>2, <1>6 DEF RotationOK, rows
<1>8. reason[c] = "password_recovery"
  BY <1>1, <1>2 DEF RevocationOK
<1>9. RevocationOK(c)'
  BY <1>1, <1>2, <1>6, <1>8 DEF RevocationOK, Ends, Recovers, user, rows
<1>10. \A d \in Call \ {c} : Apart(c, d)'
  BY <1>1, <1>2, <1>5, <1>6 DEF Apart, LocksToken, Recovers, Same, IInv
<1> QED
  BY <1>1, <1>2, <1>4, <1>5, <1>6, <1>7, <1>9, <1>10, LocalStep DEF Alone

LEMMA FindSessionsStep ==
  ASSUME IInv, NEW c \in Call, FindSessions(c)
  PROVE  IInv'
<1> DEFINE found == IF Recovers(c) THEN OpenSessions ELSE list[c] \cap OpenSessions
<1>1. /\ pc[c] = "find"
      /\ todo' = [todo EXCEPT ![c] = found]
      /\ pc' = [pc EXCEPT ![c] = "revoke"]
      /\ UNCHANGED <<user, rows, proof, old, new, reason, list, ended, gone>>
  BY DEF FindSessions, Goto
<1>2. LocalTypes /\ RotationOK(c) /\ RevocationOK(c) /\ ended[c] = {} /\ gone[c] = {} /\ proof[c][1] <= version
  BY <1>1, Unlocked
<1>3. /\ found \in SUBSET Session
      /\ Ends(c) => found \subseteq list[c] /\ \A s \in list[c] : session[s] = "open" => s \in found
  BY <1>2 DEF OpenSessions, Ends, Recovers, LocalTypes
<1> HIDE DEF found
<1>4. LocalTypes'
  BY <1>1, <1>2, <1>3 DEF LocalTypes, Step, Reason, Version
<1>5. \A d \in Call \ {c} : Same(d)
  BY <1>1, <1>2 DEF LocalTypes, Same
<1>6. pc'[c] = "revoke" /\ todo'[c] = found
  BY <1>1, <1>2 DEF LocalTypes
<1>7. RotationOK(c)'
  BY <1>1, <1>2, <1>6 DEF RotationOK, rows
<1>8. RevocationOK(c)'
  BY <1>1, <1>2, <1>3, <1>6 DEF RevocationOK, Ends, Recovers, user, rows
<1>9. \A d \in Call \ {c} : Apart(c, d)'
  BY <1>1, <1>2, <1>5, <1>6 DEF Apart, LocksToken, Recovers, Same, IInv
<1> QED
  BY <1>1, <1>2, <1>4, <1>5, <1>6, <1>7, <1>8, <1>9, LocalStep DEF Alone

\* The session the call gets is locked by no other call.
LEMMA RevokeSessionStep ==
  ASSUME IInv, NEW c \in Call, NEW s \in Session, RevokeSession(c, s)
  PROVE  IInv'
<1> DEFINE left == todo[c] \ {s}
           mine == IF session[s] = "open" THEN ended[c] \cup {s} ELSE ended[c]
<1>1. /\ pc[c] = "revoke" /\ s \in todo[c] /\ SessionFree(c, s)
      /\ todo' = [todo EXCEPT ![c] = left]
      /\ ended' = [ended EXCEPT ![c] = mine]
      /\ UNCHANGED <<user, rows, pc, proof, old, new, reason, list, gone>>
  BY DEF RevokeSession
<1>2. LocalTypes /\ RotationOK(c) /\ RevocationOK(c) /\ gone[c] = {} /\ proof[c][1] <= version
  BY <1>1, Unlocked
<1>3. /\ left \in SUBSET Session /\ mine \in SUBSET Session
      /\ \A q \in mine : session[q] = "open"
      /\ \A q \in mine : q \in ended[c] \/ q = s
      /\ \A q \in Session : session[q] = "open" /\ q \in todo[c] \cup ended[c] => q \in left \cup mine
      /\ Ends(c) => left \subseteq list[c] /\ mine \subseteq list[c]
  BY <1>1, <1>2 DEF LocalTypes, RevocationOK, Ends
<1> HIDE DEF left, mine
<1>4. LocalTypes'
  BY <1>1, <1>2, <1>3 DEF LocalTypes, Step, Reason, Version
<1>5. \A d \in Call \ {c} : Same(d)
  BY <1>1, <1>2 DEF LocalTypes, Same
<1>6. todo'[c] = left /\ ended'[c] = mine
  BY <1>1, <1>2 DEF LocalTypes
<1>7. RotationOK(c)'
  BY <1>1, <1>2, <1>6 DEF RotationOK, rows
<1>8. RevocationOK(c)'
  BY <1>1, <1>2, <1>3, <1>6 DEF RevocationOK, Ends, Recovers, user, rows, LocalTypes
<1>9. ASSUME NEW d \in Call, d # c PROVE Apart(c, d)'
  <2>1. Apart(c, d) /\ Same(d) /\ s \notin ended[d]
    BY <1>1, <1>5, <1>9 DEF SessionFree, LocksSession, IInv
  <2> QED
    BY <1>1, <1>2, <1>3, <1>6, <2>1 DEF Apart, LocksToken, Recovers, Same
<1> QED
  BY <1>1, <1>2, <1>4, <1>5, <1>6, <1>7, <1>8, <1>9, LocalStep DEF Alone

\* Every live token of the sessions the call ends is still to be revoked.
LEMMA FindTokensStep ==
  ASSUME IInv, NEW c \in Call, FindTokens(c)
  PROVE  IInv'
<1> DEFINE found == IF reason[c] = "signed_out" /\ ended[c] = {} THEN {}
                    ELSE {t \in Token : token[t] = "live" /\ holder[t] \in list[c]}
<1>1. /\ pc[c] = "revoke" /\ todo[c] = {}
      /\ todo' = [todo EXCEPT ![c] = found]
      /\ pc' = [pc EXCEPT ![c] = "tokens"]
      /\ UNCHANGED <<user, rows, proof, old, new, reason, list, ended, gone>>
  BY DEF FindTokens, Goto
<1>2. LocalTypes /\ RotationOK(c) /\ RevocationOK(c) /\ gone[c] = {} /\ proof[c][1] <= version
  BY <1>1, Unlocked
<1>3. /\ found \in SUBSET Token
      /\ Ends(c) => \A t \in Token : token[t] = "live" /\ holder[t] \in ended[c] => t \in found
  BY <1>2 DEF RevocationOK
<1> HIDE DEF found
<1>4. LocalTypes'
  BY <1>1, <1>2, <1>3 DEF LocalTypes, Step, Reason, Version
<1>5. \A d \in Call \ {c} : Same(d)
  BY <1>1, <1>2 DEF LocalTypes, Same
<1>6. pc'[c] = "tokens" /\ todo'[c] = found
  BY <1>1, <1>2 DEF LocalTypes
<1>7. RotationOK(c)'
  BY <1>1, <1>2, <1>6 DEF RotationOK, rows
<1>8. RevocationOK(c)'
  BY <1>1, <1>2, <1>3, <1>6 DEF RevocationOK, Ends, Recovers, user, rows
<1>9. \A d \in Call \ {c} : Apart(c, d)'
  BY <1>1, <1>2, <1>5, <1>6 DEF Apart, LocksToken, Recovers, Same, IInv
<1> QED
  BY <1>1, <1>2, <1>4, <1>5, <1>6, <1>7, <1>8, <1>9, LocalStep DEF Alone

\* The token the call gets is locked by no other call.
LEMMA RevokeTokenStep ==
  ASSUME IInv, NEW c \in Call, NEW t \in Token, RevokeToken(c, t)
  PROVE  IInv'
<1> DEFINE left == todo[c] \ {t}
           mine == IF token[t] = "live" THEN gone[c] \cup {t} ELSE gone[c]
<1>1. /\ pc[c] = "tokens" /\ t \in todo[c] /\ TokenFree(c, t)
      /\ todo' = [todo EXCEPT ![c] = left]
      /\ gone' = [gone EXCEPT ![c] = mine]
      /\ UNCHANGED <<user, rows, pc, proof, old, new, reason, list, ended>>
  BY DEF RevokeToken
<1>2. LocalTypes /\ RotationOK(c) /\ RevocationOK(c) /\ proof[c][1] <= version
  BY <1>1, Unlocked
<1>3. /\ left \in SUBSET Token /\ mine \in SUBSET Token
      /\ \A u \in mine : token[u] # "none"
      /\ \A u \in mine : u \in gone[c] \/ u = t
      /\ \A u \in Token : token[u] = "live" /\ u \in gone[c] \cup todo[c] => u \in mine \cup left
  BY <1>1, <1>2 DEF LocalTypes, RevocationOK
<1> HIDE DEF left, mine
<1>4. LocalTypes'
  BY <1>1, <1>2, <1>3 DEF LocalTypes, Step, Reason, Version
<1>5. \A d \in Call \ {c} : Same(d)
  BY <1>1, <1>2 DEF LocalTypes, Same
<1>6. todo'[c] = left /\ gone'[c] = mine
  BY <1>1, <1>2 DEF LocalTypes
<1>7. RotationOK(c)'
  BY <1>1, <1>2, <1>6 DEF RotationOK, rows
<1>8. RevocationOK(c)'
  BY <1>1, <1>2, <1>3, <1>6 DEF RevocationOK, Ends, Recovers, user, rows
<1>9. ASSUME NEW d \in Call, d # c PROVE Apart(c, d)'
  <2>1. Apart(c, d) /\ Same(d) /\ ~LocksToken(d, t)
    BY <1>1, <1>5, <1>9 DEF TokenFree, IInv
  <2>2. \A u \in Token : LocksToken(c, u)' => LocksToken(c, u) \/ u = t
    BY <1>1, <1>3, <1>6 DEF LocksToken
  <2>3. \A u \in Token : LocksToken(d, u)' <=> LocksToken(d, u)
    BY <2>1 DEF LocksToken, Same
  <2> QED
    BY <1>1, <2>1, <2>2, <2>3 DEF Apart, Recovers, Same
<1> QED
  BY <1>1, <1>2, <1>4, <1>5, <1>6, <1>7, <1>8, <1>9, LocalStep DEF Alone

-----------------------------------------------------------------------------
(* Steps on the shared rows. *)

\* Rows and password of the account change, what belongs to the calls does not.
LEMMA SharedStep ==
  ASSUME IInv, UNCHANGED <<pc, local, version, session, token, holder, shown, born, proven>>,
         SharedTypes', PasswordInv'
  PROVE  IInv'
<1> USE DEF local
<1>1. LocalTypes' /\ TypeOK'
  BY Types DEF IInv, LocalTypes, SharedTypes, TypeOK, Version, Step, Reason
<1>2. RowInv'
  BY DEF IInv, RowInv, OneLiveToken, EndedHasNoLiveToken, ReuseEndsSession
<1>3. \A c \in Call : RotationOK(c)'
  BY DEF IInv, RotationOK
<1>4. \A c \in Call : RevocationOK(c)'
  BY DEF IInv, RevocationOK, Ends, Recovers
<1>5. \A c, d \in Call : c # d => Apart(c, d)'
  BY DEF IInv, Apart, LocksToken, Recovers
<1> QED
  BY <1>1, <1>2, <1>3, <1>4, <1>5 DEF IInv

LEMMA ExpireStep ==
  ASSUME IInv, NEW s \in Session, Expire(s)
  PROVE  IInv'
<1>1. /\ UNCHANGED <<user, session, born, proven, token, holder, shown, pc, local>>
      /\ expired' = expired \cup {s}
  BY DEF Expire
<1>2. SharedTypes'
  BY <1>1, Types DEF IInv, SharedTypes, user, Version, Reason
<1>3. PasswordInv'
  BY <1>1 DEF IInv, PasswordInv, user, local
<1> QED
  BY <1>1, <1>2, <1>3, SharedStep DEF user

LEMMA UpgradeStep ==
  ASSUME IInv, NEW c \in Call, UpgradeHash(c)
  PROVE  IInv'
<1>1. /\ secret' = proof[c][2]
      /\ undone' = (undone \/ secret # proof[c][2])
      /\ UNCHANGED <<version, rows, pc, local>>
  BY DEF UpgradeHash
<1>2. SharedTypes /\ LocalTypes
  BY Types DEF IInv
<1>3. secret' \in Version /\ undone' \in BOOLEAN
  BY <1>1, <1>2 DEF LocalTypes
<1>4. SharedTypes'
  BY <1>1, <1>2, <1>3 DEF SharedTypes, rows, Version, Reason
<1>5. ~undone' => ~undone /\ secret' = secret
  BY <1>1
<1>6. PasswordInv'
  BY <1>1, <1>5 DEF IInv, PasswordInv, rows, local
<1> QED
  BY <1>1, <1>4, <1>6, SharedStep DEF rows

\* A call commits and returns.
LEMMA CommitStep ==
  ASSUME IInv, NEW c \in Call, Return(c), SharedTypes', RowInv', PasswordInv',
         \A d \in Call \ {c} : Same(d) => RotationOK(d)' /\ RevocationOK(d)'
  PROVE  IInv'
<1>1. /\ Alone(c)
      /\ RotationOK(c)' /\ RevocationOK(c)'
      /\ \A d \in Call \ {c} : Apart(c, d)'
  BY ReturnOK
<1>2. LocalTypes' /\ \A d \in Call \ {c} : Same(d)
  BY <1>1 DEF Alone
<1>3. TypeOK'
  BY <1>2, Types DEF TypeOK, SharedTypes, LocalTypes, Version, Step, Reason
<1>4. ASSUME NEW d \in Call, NEW f \in Call, d # f PROVE Apart(d, f)'
  <2>1. CASE d = c
    BY <1>1, <1>4, <2>1
  <2>2. CASE f = c
    <3>1. Apart(c, d)'
      BY <1>1, <1>4, <2>2
    <3> QED
      BY <2>2, <3>1, ApartSymmetric DEF Apart, LocksToken, Recovers
  <2>3. CASE d # c /\ f # c
    BY <1>2, <1>4, <2>3, SameApart DEF IInv
  <2> QED
    BY <2>1, <2>2, <2>3
<1>5. \A d \in Call : RotationOK(d)' /\ RevocationOK(d)'
  BY <1>1, <1>2
<1> QED
  BY <1>3, <1>4, <1>5 DEF IInv

\* The passwords stay in step when a call returns.
LEMMA ReturnPassword ==
  ASSUME IInv, NEW c \in Call, Return(c), UNCHANGED user,
         \A s \in Session : /\ born'[s] <= version
                            /\ ~undone /\ session'[s] # "none" /\ born'[s] = version => proven'[s] = secret
  PROVE  PasswordInv'
<1>1. Alone(c) /\ proof'[c][1] = 0 /\ pc'[c] = "idle"
  BY ReturnOK
<1>2. 0 <= version
  BY SessionsAssumption DEF IInv, TypeOK
<1> QED
  BY <1>1, <1>2 DEF Alone, Same, IInv, PasswordInv, user

\* A session opens with a token of its own and the password that was proven.
LEMMA OpenSessionStep ==
  ASSUME IInv, NEW c \in Call, OpenSession(c)
  PROVE  IInv'
<1>1. PICK s \in Session : s = FirstSession /\ session[s] = "none"
  BY DEF OpenSession, FirstSession, FreeSessions
<1>2. PICK t \in Token : /\ t = FirstToken /\ token[t] = "none"
                         /\ \A d \in Call : new[d] # t
  BY FirstTokenIsFree DEF OpenSession
<1>3. /\ pc[c] = "proven" /\ Return(c)
      /\ session' = [session EXCEPT ![s] = "open"]
      /\ born' = [born EXCEPT ![s] = proof[c][1]]
      /\ proven' = [proven EXCEPT ![s] = proof[c][2]]
      /\ token' = [token EXCEPT ![t] = "live"]
      /\ holder' = [holder EXCEPT ![t] = s]
      /\ UNCHANGED <<user, expired, shown>>
  BY <1>1, <1>2 DEF OpenSession
<1>4. SharedTypes /\ LocalTypes /\ RowInv /\ PasswordInv
  BY Types DEF IInv
<1>5. SharedTypes'
  <2>1. proof[c][1] \in Version /\ proof[c][2] \in Version
    BY <1>4 DEF LocalTypes
  <2>2. session' \in [Session -> {"none", "open"} \cup Reason]
    BY <1>3, <1>4 DEF SharedTypes
  <2>3. born' \in [Session -> Version] /\ proven' \in [Session -> Version]
    BY <1>3, <1>4, <2>1 DEF SharedTypes
  <2>4. token' \in [Token -> {"none", "live", "used", "revoked"}]
    BY <1>3, <1>4 DEF SharedTypes
  <2>5. holder' \in [Token -> Session \cup {Nothing}]
    BY <1>3, <1>4 DEF SharedTypes
  <2> QED
    BY <1>3, <1>4, <2>2, <2>3, <2>4, <2>5 DEF SharedTypes, Version, Reason, user
<1>6. /\ session'[s] = "open" /\ born'[s] = proof[c][1] /\ proven'[s] = proof[c][2]
      /\ token'[t] = "live" /\ holder'[t] = s
      /\ \A q \in Session : q # s => /\ session'[q] = session[q]
                                     /\ born'[q] = born[q] /\ proven'[q] = proven[q]
      /\ \A u \in Token : u # t => token'[u] = token[u] /\ holder'[u] = holder[u]
      /\ shown' = shown
  BY <1>3, <1>4 DEF SharedTypes
<1>7. \A u \in Token : token[u] # "none" =>
        u # t /\ holder[u] \in Session /\ holder[u] # s /\ session'[holder[u]] = session[holder[u]]
  BY <1>1, <1>2, <1>4, <1>6 DEF RowInv
<1>8. RowInv'
  <2>1. \A u \in Token : token'[u] # "none" => holder'[u] \in Session /\ session'[holder'[u]] # "none"
    BY <1>4, <1>6, <1>7 DEF RowInv
  <2>2. \A u \in Token : token'[u] \in {"none", "live"} => shown'[u] = 0
    BY <1>2, <1>4, <1>6 DEF RowInv
  <2>3. OneLiveToken'
    BY <1>4, <1>6, <1>7 DEF RowInv, OneLiveToken
  <2>4. EndedHasNoLiveToken'
    BY <1>4, <1>6, <1>7 DEF RowInv, EndedHasNoLiveToken
  <2>5. ReuseEndsSession'
    <3> SUFFICES ASSUME NEW u \in Token, shown'[u] = 2 PROVE session'[holder'[u]] # "open"
      BY DEF ReuseEndsSession
    <3>1. token[u] # "none" /\ session[holder[u]] # "open"
      BY <1>4, <1>6 DEF RowInv, ReuseEndsSession
    <3> QED
      BY <1>6, <1>7, <3>1
  <2> QED
    BY <2>1, <2>2, <2>3, <2>4, <2>5 DEF RowInv
<1>9. PasswordInv'
  <2>1. proof[c][1] <= version /\ (~undone /\ proof[c][1] = version => proof[c][2] = secret)
    BY <1>3, <1>4 DEF PasswordInv
  <2>2. \A q \in Session : /\ born'[q] <= version
                           /\ ~undone /\ session'[q] # "none" /\ born'[q] = version => proven'[q] = secret
    BY <1>4, <1>6, <2>1 DEF PasswordInv
  <2> QED
    BY <1>3, <2>2, ReturnPassword
<1>10. ASSUME NEW d \in Call \ {c}, Same(d) PROVE RotationOK(d)' /\ RevocationOK(d)'
  <2>1. RotationOK(d) /\ RevocationOK(d) /\ new[d] # t
    BY <1>2 DEF IInv
  <2>2. RotationOK(d)'
    BY <1>2, <1>6, <1>10, <2>1 DEF RotationOK, Same
  <2>3. s \notin ended[d] /\ (Ends(d) => s \notin list[d])
    BY <1>1, <2>1 DEF RevocationOK
  <2>4. ended[d] \subseteq Session /\ list[d] \subseteq Session /\ gone[d] \subseteq Token
    BY <1>4 DEF LocalTypes
  <2>5. RevocationOK(d)'
    BY <1>2, <1>3, <1>6, <1>10, <2>1, <2>3, <2>4 DEF RevocationOK, Ends, Recovers, Same, user
  <2> QED
    BY <2>2, <2>5
<1> QED
  BY <1>3, <1>5, <1>8, <1>9, <1>10, CommitStep

\* The token that was live is used, the new one is live in its place.
LEMMA TouchStep ==
  ASSUME IInv, NEW c \in Call, Touch(c)
  PROVE  IInv'
<1>1. /\ pc[c] = "touch" /\ SessionFree(c, holder[old[c]]) /\ Return(c)
      /\ UNCHANGED <<user, session, born, proven, expired>>
  BY DEF Touch, Rotated
<1>2. RotationOK(c) /\ SharedTypes /\ LocalTypes /\ RowInv /\ PasswordInv
  BY Types DEF IInv
<1>3. PICK o \in Token : o = old[c] /\ token[o] = "live"
  BY <1>1, <1>2 DEF RotationOK
<1>4. PICK n \in Token : n = new[c] /\ token[n] = "none"
  BY <1>1, <1>2 DEF RotationOK
<1>5. /\ token' = [token EXCEPT ![o] = "used", ![n] = "live"]
      /\ holder' = [holder EXCEPT ![n] = holder[o]]
      /\ shown' = [shown EXCEPT ![o] = OneMore(shown[o])]
  BY <1>3, <1>4 DEF Touch, Rotated
<1>6. shown[o] = 0 /\ OneMore(shown[o]) = 1 /\ o # n
  BY <1>2, <1>3, <1>4 DEF RowInv, OneMore
<1>7. /\ token'[o] = "used" /\ token'[n] = "live" /\ holder'[n] = holder[o] /\ shown'[o] = 1
      /\ \A u \in Token : u # o /\ u # n => token'[u] = token[u]
      /\ \A u \in Token : u # n => holder'[u] = holder[u]
      /\ \A u \in Token : u # o => shown'[u] = shown[u]
      /\ session' = session
  BY <1>1, <1>2, <1>5, <1>6 DEF SharedTypes
<1>8. SharedTypes'
  <2>1. token' \in [Token -> {"none", "live", "used", "revoked"}]
    BY <1>2, <1>5 DEF SharedTypes
  <2>2. holder' \in [Token -> Session \cup {Nothing}]
    BY <1>2, <1>5 DEF SharedTypes
  <2>3. shown' \in [Token -> 0..2]
    BY <1>2, <1>5, <1>6 DEF SharedTypes
  <2> QED
    BY <1>1, <1>2, <2>1, <2>2, <2>3 DEF SharedTypes, Version, Reason, user
<1>9. holder[o] \in Session /\ session[holder[o]] # "none"
  BY <1>2, <1>3 DEF RowInv
<1>10. RowInv'
  <2>1. \A u \in Token : token'[u] # "none" => holder'[u] \in Session /\ session'[holder'[u]] # "none"
    BY <1>2, <1>7, <1>9 DEF RowInv
  <2>2. \A u \in Token : token'[u] \in {"none", "live"} => shown'[u] = 0
    BY <1>2, <1>4, <1>6, <1>7 DEF RowInv
  <2>3. OneLiveToken'
    <3>1. \A u \in Token : u # n /\ token'[u] = "live" => token[u] = "live" /\ holder'[u] = holder[u] /\ u # o
      BY <1>7
    <3>2. \A u, v \in Token : token[u] = "live" /\ token[v] = "live" /\ holder[u] = holder[v] => u = v
      BY <1>2 DEF RowInv, OneLiveToken
    <3> QED
      BY <1>3, <1>7, <3>1, <3>2 DEF OneLiveToken
  <2>4. EndedHasNoLiveToken'
    BY <1>2, <1>3, <1>7 DEF RowInv, EndedHasNoLiveToken
  <2>5. ReuseEndsSession'
    BY <1>2, <1>4, <1>6, <1>7 DEF RowInv, ReuseEndsSession
  <2> QED
    BY <2>1, <2>2, <2>3, <2>4, <2>5 DEF RowInv
<1>11. PasswordInv'
  <2>1. \A q \in Session : /\ born'[q] <= version
                           /\ ~undone /\ session'[q] # "none" /\ born'[q] = version => proven'[q] = secret
    BY <1>1, <1>2 DEF PasswordInv
  <2> QED
    BY <1>1, <2>1, ReturnPassword
<1>12. ASSUME NEW d \in Call \ {c}, Same(d) PROVE RotationOK(d)' /\ RevocationOK(d)'
  <2>1. RotationOK(d) /\ RevocationOK(d) /\ Apart(c, d)
    BY DEF IInv
  <2>2. new[d] # n /\ ~LocksToken(d, o) /\ holder[o] \notin ended[d]
    BY <1>1, <1>3, <1>4, <2>1 DEF Apart, LocksToken, SessionFree, LocksSession
  <2>3. RotationOK(d)'
    BY <1>3, <1>4, <1>7, <1>12, <2>1, <2>2 DEF RotationOK, Same, LocksToken
  <2>4. gone[d] \subseteq Token
    BY <1>2 DEF LocalTypes
  <2>5. RevocationOK(d)'
    BY <1>1, <1>3, <1>4, <1>7, <1>12, <2>1, <2>2, <2>4 DEF RevocationOK, Ends, Recovers, Same, user
  <2> QED
    BY <2>3, <2>5
<1> QED
  BY <1>1, <1>8, <1>10, <1>11, <1>12, CommitStep

\* What the call has locked is revoked, which is all that it had to end.
LEMMA CommitRevocationStep ==
  ASSUME IInv, NEW c \in Call, CommitRevocation(c)
  PROVE  IInv'
<1>1. /\ pc[c] = "tokens" /\ todo[c] = {} /\ Return(c)
      /\ session' = [s \in Session |-> IF s \in ended[c] THEN reason[c] ELSE session[s]]
      /\ token' = [t \in Token |-> IF t \in gone[c] THEN "revoked" ELSE token[t]]
      /\ UNCHANGED <<born, proven, expired, holder>>
  BY DEF CommitRevocation
<1>2. RevocationOK(c) /\ SharedTypes /\ LocalTypes /\ RowInv /\ PasswordInv
  BY Types DEF IInv
<1>3. /\ reason[c] \in Reason /\ reason[c] \notin {"none", "open"}
      /\ ended[c] \subseteq Session /\ gone[c] \subseteq Token
  BY <1>2 DEF LocalTypes, Reason
<1>4. /\ \A s \in Session : s \in ended[c] => session[s] = "open" /\ session'[s] = reason[c]
      /\ \A s \in Session : s \notin ended[c] => session'[s] = session[s]
      /\ \A t \in Token : t \in gone[c] => token[t] # "none" /\ token'[t] = "revoked"
      /\ \A t \in Token : t \notin gone[c] => token'[t] = token[t]
      /\ holder' = holder
  BY <1>1, <1>2 DEF RevocationOK
<1>5. /\ \A s \in Session : session'[s] = "none" <=> session[s] = "none"
      /\ \A s \in Session : session'[s] = "open" => session[s] = "open"
      /\ \A t \in Token : token'[t] = "none" <=> token[t] = "none"
      /\ \A t \in Token : token'[t] = "live" => token[t] = "live" /\ t \notin gone[c]
  BY <1>3, <1>4
\* A reuse is noted on a token that is used or revoked and whose session ends.
<1>6. /\ shown' \in [Token -> 0..2]
      /\ \A t \in Token : shown'[t] # shown[t] =>
           token[t] \notin {"none", "live"} /\ session'[holder[t]] # "open"
  <2>1. CASE reason[c] # "refresh_reuse"
    <3>1. shown' = shown
      BY <2>1 DEF CommitRevocation
    <3> QED
      BY <1>2, <3>1 DEF SharedTypes
  <2>2. CASE reason[c] = "refresh_reuse"
    <3>1. Ends(c)
      BY <1>1, <2>2 DEF Ends
    <3>2. PICK o \in Token : /\ o = old[c] /\ token[o] \notin {"none", "live"}
                             /\ list[c] = {holder[o]}
      BY <1>2, <2>2, <3>1 DEF RevocationOK
    <3>3. shown' = [shown EXCEPT ![o] = OneMore(shown[o])]
      BY <2>2, <3>2 DEF CommitRevocation
    <3>4. OneMore(shown[o]) \in 0..2
      BY <1>2 DEF SharedTypes, OneMore
    <3>5. shown' \in [Token -> 0..2] /\ \A t \in Token : t # o => shown'[t] = shown[t]
      BY <1>2, <3>3, <3>4 DEF SharedTypes
    <3>6. holder[o] \in Session
      BY <1>2, <3>2 DEF RowInv
    <3>7. session[holder[o]] = "open" => holder[o] \in ended[c]
      BY <1>1, <1>2, <3>1, <3>2 DEF RevocationOK
    <3>8. session'[holder[o]] # "open"
      BY <1>3, <1>4, <3>6, <3>7
    <3> QED
      BY <3>2, <3>5, <3>8
  <2> QED
    BY <2>1, <2>2
<1>7. /\ version' \in Version /\ secret' \in Version /\ undone' = undone
      /\ \/ UNCHANGED user
         \/ Recovers(c) /\ version' = version + 1
  <2>1. CASE Recovers(c)
    <3>1. version < MaxRecoveries /\ version \in Nat
      BY <1>2, <2>1, SessionsAssumption DEF RevocationOK, SharedTypes, Version
    <3>2. version' = version + 1 /\ secret' = version + 1 /\ undone' = undone
      BY <2>1 DEF CommitRevocation
    <3>3. version + 1 \in Version
      BY <3>1, SessionsAssumption DEF Version
    <3> QED
      BY <2>1, <3>2, <3>3
  <2>2. CASE ~Recovers(c)
    <3>1. UNCHANGED user
      BY <2>2 DEF CommitRevocation
    <3> QED
      BY <1>2, <3>1 DEF SharedTypes, user
  <2> QED
    BY <2>1, <2>2
<1>8. SharedTypes'
  <2>1. session' \in [Session -> {"none", "open"} \cup Reason]
    BY <1>1, <1>2, <1>3 DEF SharedTypes
  <2>2. token' \in [Token -> {"none", "live", "used", "revoked"}]
    BY <1>1, <1>2 DEF SharedTypes
  <2> QED
    BY <1>1, <1>2, <1>6, <1>7, <2>1, <2>2 DEF SharedTypes, Version, Reason
<1>9. RowInv'
  <2>1. \A t \in Token : token'[t] # "none" => holder'[t] \in Session /\ session'[holder'[t]] # "none"
    BY <1>2, <1>4, <1>5 DEF RowInv
  <2>2. \A t \in Token : token'[t] \in {"none", "live"} => shown'[t] = 0
    BY <1>2, <1>5, <1>6 DEF RowInv
  <2>3. OneLiveToken'
    BY <1>2, <1>4, <1>5 DEF RowInv, OneLiveToken
  <2>4. EndedHasNoLiveToken'
    <3> SUFFICES ASSUME NEW t \in Token, token'[t] = "live"
                 PROVE  session'[holder[t]] \notin {"signed_out", "refresh_reuse"}
      BY <1>4 DEF EndedHasNoLiveToken
    <3>1. token[t] = "live" /\ t \notin gone[c] /\ holder[t] \in Session
      BY <1>2, <1>5 DEF RowInv
    <3>2. session[holder[t]] \notin {"signed_out", "refresh_reuse"}
      BY <1>2, <3>1 DEF RowInv, EndedHasNoLiveToken
    <3>3. CASE holder[t] \in ended[c]
      <4>1. ~Ends(c)
        BY <1>1, <1>2, <3>1, <3>3 DEF RevocationOK
      <4>2. reason[c] = "password_recovery"
        BY <1>1, <4>1 DEF Ends
      <4> QED
        BY <1>4, <3>1, <3>3, <4>2
    <3>4. CASE holder[t] \notin ended[c]
      BY <1>4, <3>1, <3>2, <3>4
    <3> QED
      BY <3>3, <3>4
  <2>5. ReuseEndsSession'
    <3> SUFFICES ASSUME NEW t \in Token, shown'[t] = 2 PROVE session'[holder[t]] # "open"
      BY <1>4 DEF ReuseEndsSession
    <3>1. CASE shown'[t] # shown[t]
      BY <1>6, <3>1
    <3>2. CASE shown'[t] = shown[t]
      <4>1. session[holder[t]] # "open" /\ holder[t] \in Session
        BY <1>2, <3>2 DEF RowInv, ReuseEndsSession
      <4> QED
        BY <1>5, <4>1
    <3> QED
      BY <3>1, <3>2
  <2> QED
    BY <2>1, <2>2, <2>3, <2>4, <2>5 DEF RowInv
<1>10. PasswordInv'
  <2>1. CASE UNCHANGED user
    <3>1. \A q \in Session : /\ born'[q] <= version
                             /\ ~undone /\ session'[q] # "none" /\ born'[q] = version => proven'[q] = secret
      BY <1>1, <1>2, <1>5 DEF PasswordInv
    <3> QED
      BY <1>1, <2>1, <3>1, ReturnPassword
  <2>2. CASE Recovers(c) /\ version' = version + 1
    <3>1. /\ version \in Nat
          /\ \A q \in Session : born[q] \in Nat /\ born[q] <= version
          /\ \A d \in Call : proof[d][1] \in Nat /\ proof[d][1] <= version
      BY <1>2, SessionsAssumption DEF PasswordInv, SharedTypes, LocalTypes, Version
    <3>2. \A q \in Session : born'[q] <= version' /\ born'[q] # version'
      BY <1>1, <2>2, <3>1
    <3>3. Alone(c) /\ proof'[c][1] = 0
      BY <1>1, ReturnOK
    <3>4. \A d \in Call : proof'[d][1] <= version' /\ proof'[d][1] # version'
      BY <2>2, <3>1, <3>3 DEF Alone, Same
    <3> QED
      BY <3>2, <3>4 DEF PasswordInv
  <2> QED
    BY <1>7, <2>1, <2>2
<1>11. ASSUME NEW d \in Call \ {c}, Same(d) PROVE RotationOK(d)' /\ RevocationOK(d)'
  <2>1. RotationOK(d) /\ RevocationOK(d) /\ Apart(c, d)
    BY DEF IInv
  <2>2. /\ ended[d] \subseteq Session /\ list[d] \subseteq Session /\ gone[d] \subseteq Token
        /\ new[d] \in Token \cup {Nothing}
    BY <1>2 DEF LocalTypes
  <2>3. pc[d] = "touch" => old[d] \in Token /\ old[d] \notin gone[c]
    BY <2>1 DEF RotationOK, Apart, LocksToken
  <2>4. RotationOK(d)'
    BY <1>4, <1>5, <1>11, <2>1, <2>3 DEF RotationOK, Same
  <2>5. Recovers(d)' => version' < MaxRecoveries
    BY <1>7, <1>11, <2>1 DEF RevocationOK, Apart, Recovers, Same, user
  <2>6. /\ \A s \in ended[d] : session'[s] = "open"
        /\ \A t \in gone[d] : token'[t] # "none"
    BY <1>4, <1>5, <2>1, <2>2 DEF RevocationOK, Apart
  <2>7. \A t \in Token : token[t] \notin {"none", "live"} => token'[t] \notin {"none", "live"}
    BY <1>4, <1>5
  <2>8. RevocationOK(d)'
    BY <1>4, <1>5, <1>11, <2>1, <2>2, <2>5, <2>6, <2>7 DEF RevocationOK, Ends, Same
  <2> QED
    BY <2>4, <2>8
<1> QED
  BY <1>1, <1>8, <1>9, <1>10, <1>11, CommitStep

-----------------------------------------------------------------------------
(* The invariant. *)

LEMMA InitInv == Init => IInv
<1> SUFFICES ASSUME Init PROVE IInv
  OBVIOUS
<1>1. 0 \in Version /\ <<0, 0>> \in Version \X Version
  BY SessionsAssumption DEF Version
<1>2. SharedTypes
  <2>1. version \in Version /\ secret \in Version /\ undone \in BOOLEAN /\ expired \subseteq Session
    BY <1>1 DEF Init
  <2>2. session \in [Session -> {"none", "open"} \cup Reason]
    BY DEF Init
  <2>3. born \in [Session -> Version] /\ proven \in [Session -> Version]
    BY <1>1 DEF Init
  <2>4. token \in [Token -> {"none", "live", "used", "revoked"}]
    BY DEF Init
  <2>5. holder \in [Token -> Session \cup {Nothing}] /\ shown \in [Token -> 0..2]
    BY DEF Init
  <2> QED
    BY <2>1, <2>2, <2>3, <2>4, <2>5 DEF SharedTypes
<1>3. LocalTypes
  BY <1>1 DEF Init, LocalTypes, Step, Reason
<1>4. RowInv
  BY DEF Init, RowInv, OneLiveToken, EndedHasNoLiveToken, ReuseEndsSession
<1>5. PasswordInv
  BY SessionsAssumption DEF Init, PasswordInv
<1>6. \A c \in Call : RotationOK(c)
  BY SessionsAssumption DEF Init, RotationOK
<1>7. \A c \in Call : RevocationOK(c)
  BY DEF Init, RevocationOK, Ends, Recovers
<1>8. \A c, d \in Call : c # d => Apart(c, d)
  BY SessionsAssumption DEF Init, Apart, LocksToken, Recovers
<1> QED
  BY <1>2, <1>3, <1>4, <1>5, <1>6, <1>7, <1>8, Types DEF IInv

LEMMA NextInv == IInv /\ [Next]_vars => IInv'
<1> SUFFICES ASSUME IInv, [Next]_vars PROVE IInv'
  OBVIOUS
<1>1. CASE \E s \in Session : Expire(s)
  BY <1>1, ExpireStep
<1>2. CASE \E c \in Call : ReadAccount(c) \/ UpgradeHash(c) \/ OpenSession(c)
  BY <1>2, ReadAccountStep, UpgradeStep, OpenSessionStep
<1>3. CASE \E c \in Call : (\E t \in Token : ReadToken(c, t)) \/ Consume(c) \/ Touch(c)
  BY <1>3, ReadTokenStep, ConsumeStep, TouchStep
<1>4. CASE \E c \in Call : \/ \E s \in Session : SignOut(c, s)
                           \/ Recover(c) \/ ListSessions(c) \/ FindSessions(c)
  BY <1>4, SignOutStep, RecoverStep, ListStep, FindSessionsStep
<1>5. CASE \E c \in Call : \/ \E s \in Session : RevokeSession(c, s)
                           \/ FindTokens(c)
                           \/ \E t \in Token : RevokeToken(c, t)
  BY <1>5, RevokeSessionStep, FindTokensStep, RevokeTokenStep
<1>6. CASE \E c \in Call : CommitRevocation(c) \/ Deadlock(c)
  BY <1>6, CommitRevocationStep, DeadlockStep
<1>7. CASE UNCHANGED vars
  <2>1. UNCHANGED <<user, rows, pc, local>>
    BY <1>7 DEF vars
  <2>2. SharedTypes'
    BY <2>1, Types DEF IInv, SharedTypes, user, rows, Version, Reason
  <2>3. PasswordInv'
    BY <2>1 DEF IInv, PasswordInv, user, rows, local
  <2> QED
    BY <2>1, <2>2, <2>3, SharedStep DEF user, rows
<1> QED
  BY <1>1, <1>2, <1>3, <1>4, <1>5, <1>6, <1>7 DEF Next

LEMMA Invariance == Spec => []IInv
BY InitInv, NextInv, PTL DEF Spec

-----------------------------------------------------------------------------

\* Rows and calls keep their types, whatever waits for whatever.
THEOREM TypeCorrect == Spec => []TypeOK
<1>1. IInv => TypeOK
  BY DEF IInv
<1> QED
  BY <1>1, Invariance, PTL

\* However many refreshes of a session overlap, one token of it can be used
\* (refresh()).
THEOREM OneLiveTokenCorrect == Spec => []OneLiveToken
<1>1. IInv => OneLiveToken
  BY DEF IInv, RowInv
<1> QED
  BY <1>1, Invariance, PTL

\* A refresh under way leaves no live token in a session that sign-out or reuse
\* has ended (signOut(), revokeSession()).
THEOREM EndedCorrect == Spec => []EndedHasNoLiveToken
<1>1. IInv => EndedHasNoLiveToken
  BY DEF IInv, RowInv
<1> QED
  BY <1>1, Invariance, PTL

\* A token that two refreshes have used belongs to a session that is not open
\* (refresh(), revokeSession()).
THEOREM ReuseCorrect == Spec => []ReuseEndsSession
<1>1. IInv => ReuseEndsSession
  BY DEF IInv, RowInv
<1> QED
  BY <1>1, Invariance, PTL

\* A session that authenticates was opened with the present password, unless a
\* hash upgrade put an earlier one back (create(), completePasswordRecovery()).
THEOREM PasswordCorrect == Spec => []SessionFollowsPassword
<1>1. IInv => SessionFollowsPassword
  BY DEF IInv, PasswordInv, SessionFollowsPassword, Valid
<1> QED
  BY <1>1, Invariance, PTL
=============================================================================
