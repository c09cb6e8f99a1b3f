------------------------------ MODULE Sessions ------------------------------
(***************************************************************************)
(* The sessions of one KCCA account: sign-in, rotation of refresh tokens,  *)
(* sign-out and password recovery (apps/api/src/auth/session.service.ts,   *)
(* auth.service.ts, account-security/account-security.service.ts).         *)
(*                                                                         *)
(* The transactions run READ COMMITTED.  Each statement is an action: it   *)
(* sees what is committed when it runs and what its own transaction wrote, *)
(* waits for rows another transaction has changed, and looks at them again *)
(* when it gets them.  What a transaction wrote is kept with the call      *)
(* until it commits.  The database ends a call of a cycle of waits.        *)
(***************************************************************************)
EXTENDS Naturals, FiniteSets

CONSTANTS
  Call,           \* concurrent calls
  Session,        \* rows of authentication_sessions
  Token,          \* rows of refresh_tokens
  Nothing,        \* no token, session or call
  MaxRecoveries   \* bound: password recoveries

ASSUME SessionsAssumption ==
  /\ Nothing \notin Session \cup Token
  /\ MaxRecoveries \in Nat

VARIABLES
  version,   \* users.password_version
  secret,    \* users.password_hash: the password it verifies, by the version it was set with
  undone,    \* a hash upgrade has replaced the password of a recovery (history)
  session,   \* "none", "open" or the revocation reason
  born,      \* authentication_sessions.password_version
  proven,    \* the password the session was opened with (history)
  expired,   \* sessions past absolute_expires_at
  token,     \* "none", "live", "used" (also when revoked later) or "revoked"
  holder,    \* refresh_tokens.session_id
  shown,     \* refreshes that rotated the token or found it used (history), up to 2
  pc,        \* the next statement of the call
  proof,     \* the password version and the password a sign-in has read
  old,       \* the token a refresh was given
  new,       \* the token it has inserted
  reason,    \* the revocation reason the call writes
  list,      \* the sessions whose tokens the call revokes
  todo,      \* rows its running update has still to lock
  ended,     \* sessions it has revoked, not committed
  gone       \* tokens it has revoked, not committed

user   == <<version, secret, undone>>
rows   == <<session, born, proven, expired, token, holder, shown>>
local  == <<proof, old, new, reason, list, todo, ended, gone>>
vars   == <<user, rows, pc, local>>

Reason == {"signed_out", "refresh_reuse", "password_recovery"}
Step   == {"idle", "proven", "consume", "touch", "list", "find", "revoke", "read", "tokens"}

TypeOK ==
  /\ version \in 0..MaxRecoveries /\ secret \in 0..MaxRecoveries /\ undone \in BOOLEAN
  /\ session \in [Session -> {"none", "open"} \cup Reason]
  /\ born \in [Session -> 0..MaxRecoveries] /\ proven \in [Session -> 0..MaxRecoveries]
  /\ expired \subseteq Session
  /\ token \in [Token -> {"none", "live", "used", "revoked"}]
  /\ holder \in [Token -> Session \cup {Nothing}]
  /\ shown \in [Token -> 0..2]
  /\ pc \in [Call -> Step]
  /\ proof \in [Call -> (0..MaxRecoveries) \X (0..MaxRecoveries)]
  /\ old \in [Call -> Token \cup {Nothing}] /\ new \in [Call -> Token \cup {Nothing}]
  /\ reason \in [Call -> Reason]
  /\ list \in [Call -> SUBSET Session]
  /\ todo \in [Call -> SUBSET (Session \cup Token)]
  /\ ended \in [Call -> SUBSET Session]
  /\ gone \in [Call -> SUBSET Token]

Init ==
  /\ version = 0 /\ secret = 0 /\ undone = FALSE
  /\ session = [s \in Session |-> "none"]
  /\ born = [s \in Session |-> 0] /\ proven = [s \in Session |-> 0]
  /\ expired = {}
  /\ token = [t \in Token |-> "none"]
  /\ holder = [t \in Token |-> Nothing]
  /\ shown = [t \in Token |-> 0]
  /\ pc = [c \in Call |-> "idle"]
  /\ proof = [c \in Call |-> <<0, 0>>]
  /\ old = [c \in Call |-> Nothing] /\ new = [c \in Call |-> Nothing]
  /\ reason = [c \in Call |-> "signed_out"]
  /\ list = [c \in Call |-> {}]
  /\ todo = [c \in Call |-> {}]
  /\ ended = [c \in Call |-> {}]
  /\ gone = [c \in Call |-> {}]

-----------------------------------------------------------------------------
(* Rows and their locks. *)

Recovers(c) == pc[c] \notin {"idle", "proven", "consume", "touch"} /\ reason[c] = "password_recovery"

\* The call that has changed the row and has not committed, if any.
LocksUser(d)       == Recovers(d)
LocksSession(d, s) == s \in ended[d]
LocksToken(d, t)   == (pc[d] = "touch" /\ old[d] = t) \/ t \in gone[d]

SessionFree(c, s) == \A d \in Call \ {c} : ~LocksSession(d, s)
TokenFree(c, t)   == \A d \in Call \ {c} : ~LocksToken(d, t)
UserFree(c)       == \A d \in Call \ {c} : ~LocksUser(d)

\* Rows not inserted yet.
FreeSessions == {s \in Session : session[s] = "none"}
FreeTokens   == {t \in Token : token[t] = "none" /\ \A c \in Call : new[c] # t}
FirstSession == CHOOSE s \in FreeSessions : TRUE
FirstToken   == CHOOSE t \in FreeTokens : TRUE

\* The history of a token counts to two.
OneMore(n) == IF n < 2 THEN n + 1 ELSE n

Goto(c, to) == pc' = [pc EXCEPT ![c] = to]

\* The call has returned; its transaction is committed or rolled back.
Return(c) ==
  /\ Goto(c, "idle")
  /\ proof' = [proof EXCEPT ![c] = <<0, 0>>]
  /\ old' = [old EXCEPT ![c] = Nothing]
  /\ new' = [new EXCEPT ![c] = Nothing]
  /\ reason' = [reason EXCEPT ![c] = "signed_out"]
  /\ list' = [list EXCEPT ![c] = {}]
  /\ todo' = [todo EXCEPT ![c] = {}]
  /\ ended' = [ended EXCEPT ![c] = {}]
  /\ gone' = [gone EXCEPT ![c] = {}]

\* What authenticateAccess() and refresh() ask of a session.
Valid(s) == session[s] = "open" /\ s \notin expired /\ born[s] = version

Expire(s) ==
  /\ session[s] = "open"
  /\ s \notin expired
  /\ expired' = expired \cup {s}
  /\ UNCHANGED <<user, session, born, proven, token, holder, shown, pc, local>>

-----------------------------------------------------------------------------
(* signIn() and create(). *)

ReadAccount(c) ==
  /\ pc[c] = "idle"
  /\ FreeSessions # {} /\ FreeTokens # {}
  /\ proof' = [proof EXCEPT ![c] = <<version, secret>>]
  /\ Goto(c, "proven")
  /\ UNCHANGED <<user, rows, old, new, reason, list, todo, ended, gone>>

\* The parameters of the stored hash are old, which any release may make them:
\* a new hash of the password that was typed replaces it.
UpgradeHash(c) ==
  /\ pc[c] = "proven"
  /\ UserFree(c)
  /\ secret' = proof[c][2]
  /\ undone' = (undone \/ secret # proof[c][2])
  /\ UNCHANGED <<version, rows, pc, local>>

\* Broken: the version is read again when the session is created.
OpenSessionLate(c) ==
  /\ pc[c] = "proven"
  /\ FreeSessions # {} /\ FreeTokens # {}
  /\ session' = [session EXCEPT ![FirstSession] = "open"]
  /\ born' = [born EXCEPT ![FirstSession] = version]
  /\ proven' = [proven EXCEPT ![FirstSession] = proof[c][2]]
  /\ token' = [token EXCEPT ![FirstToken] = "live"]
  /\ holder' = [holder EXCEPT ![FirstToken] = FirstSession]
  /\ Return(c)
  /\ UNCHANGED <<user, expired, shown>>

OpenSession(c) ==
  /\ pc[c] = "proven"
  /\ FreeSessions # {} /\ FreeTokens # {}
  /\ session' = [session EXCEPT ![FirstSession] = "open"]
  /\ born' = [born EXCEPT ![FirstSession] = proof[c][1]]
  /\ proven' = [proven EXCEPT ![FirstSession] = proof[c][2]]
  /\ token' = [token EXCEPT ![FirstToken] = "live"]
  /\ holder' = [holder EXCEPT ![FirstToken] = FirstSession]
  /\ Return(c)
  /\ UNCHANGED <<user, expired, shown>>

-----------------------------------------------------------------------------
(* refresh(). *)

\* The token and its session are read.  A used token means that it was copied.
ReadToken(c, t) ==
  /\ pc[c] = "idle"
  /\ \/ /\ token[t] = "used"
        /\ list' = [list EXCEPT ![c] = {holder[t]}]
        /\ reason' = [reason EXCEPT ![c] = "refresh_reuse"]
        /\ Goto(c, "find")
        /\ UNCHANGED new
     \/ /\ token[t] = "live"
        /\ Valid(holder[t])
        /\ FreeTokens # {}
        /\ new' = [new EXCEPT ![c] = FirstToken]
        /\ Goto(c, "consume")
        /\ UNCHANGED <<list, reason>>
  /\ old' = [old EXCEPT ![c] = t]
  /\ UNCHANGED <<user, rows, proof, todo, ended, gone>>

\* Broken: the token is updated by id.
ConsumeAnyway(c) ==
  /\ pc[c] = "consume"
  /\ TokenFree(c, old[c])
  /\ Goto(c, "touch")
  /\ UNCHANGED <<user, rows, local>>

\* updateMany() where the token is neither used nor revoked.
Consume(c) ==
  /\ pc[c] = "consume"
  /\ TokenFree(c, old[c])
  /\ IF token[old[c]] = "live"
     THEN Goto(c, "touch") /\ UNCHANGED <<list, reason>>
     ELSE /\ Goto(c, "find")
          /\ list' = [list EXCEPT ![c] = {holder[old[c]]}]
          /\ reason' = [reason EXCEPT ![c] = "refresh_reuse"]
  /\ UNCHANGED <<user, rows, proof, old, new, todo, ended, gone>>

Rotated(c) ==
  /\ token' = [token EXCEPT ![old[c]] = "used", ![new[c]] = "live"]
  /\ holder' = [holder EXCEPT ![new[c]] = holder[old[c]]]
  /\ shown' = [shown EXCEPT ![old[c]] = OneMore(@)]
  /\ Return(c)
  /\ UNCHANGED <<user, session, born, proven, expired>>

\* Broken: last_used_at is not written.
CommitRotation(c) == pc[c] = "touch" /\ Rotated(c)

\* last_used_at is written, which takes the row of the session; then the commit.
Touch(c) ==
  /\ pc[c] = "touch"
  /\ SessionFree(c, holder[old[c]])
  /\ Rotated(c)

-----------------------------------------------------------------------------
(* Revocation: signOut(), revokeSession() and completePasswordRecovery(). *)

SignOut(c, s) ==
  /\ pc[c] = "idle"
  /\ session[s] # "none"
  /\ list' = [list EXCEPT ![c] = {s}]
  /\ reason' = [reason EXCEPT ![c] = "signed_out"]
  /\ Goto(c, "find")
  /\ UNCHANGED <<user, rows, proof, old, new, todo, ended, gone>>

\* Broken: two recoveries of the account run side by side.
RecoverBeside(c) ==
  /\ pc[c] = "idle"
  /\ version < MaxRecoveries
  /\ reason' = [reason EXCEPT ![c] = "password_recovery"]
  /\ Goto(c, "list")
  /\ UNCHANGED <<user, rows, proof, old, new, list, todo, ended, gone>>

\* The challenge is consumed and the new password written, under the row lock
\* of the user; both are visible with the commit.
Recover(c) ==
  /\ pc[c] = "idle"
  /\ version < MaxRecoveries
  /\ UserFree(c)
  /\ reason' = [reason EXCEPT ![c] = "password_recovery"]
  /\ Goto(c, "list")
  /\ UNCHANGED <<user, rows, proof, old, new, list, todo, ended, gone>>

OpenSessions == {s \in Session : session[s] = "open"}

\* findMany(): the sessions whose tokens will be revoked.
ListSessions(c) ==
  /\ pc[c] = "list"
  /\ list' = [list EXCEPT ![c] = OpenSessions]
  /\ Goto(c, "find")
  /\ UNCHANGED <<user, rows, proof, old, new, reason, todo, ended, gone>>

\* updateMany() of the sessions where revoked_at is null begins.
FindSessions(c) ==
  /\ pc[c] = "find"
  /\ todo' = [todo EXCEPT ![c] = IF Recovers(c) THEN OpenSessions ELSE list[c] \cap OpenSessions]
  /\ Goto(c, "revoke")
  /\ UNCHANGED <<user, rows, proof, old, new, reason, list, ended, gone>>

\* One row of that update; it may have been revoked while this one waited.
RevokeSession(c, s) ==
  /\ pc[c] = "revoke"
  /\ s \in todo[c]
  /\ SessionFree(c, s)
  /\ todo' = [todo EXCEPT ![c] = @ \ {s}]
  /\ ended' = [ended EXCEPT ![c] = IF session[s] = "open" THEN @ \cup {s} ELSE @]
  /\ UNCHANGED <<user, rows, pc, proof, old, new, reason, list, gone>>

\* updateMany() of the tokens begins.  signOut() leaves it out if it found no
\* session to revoke, a recovery if it had listed none.
FindTokens(c) ==
  /\ pc[c] = "revoke"
  /\ todo[c] = {}
  /\ todo' = [todo EXCEPT ![c] =
               IF reason[c] = "signed_out" /\ ended[c] = {} THEN {}
               ELSE {t \in Token : token[t] = "live" /\ holder[t] \in list[c]}]
  /\ Goto(c, "tokens")
  /\ UNCHANGED <<user, rows, proof, old, new, reason, list, ended, gone>>

RevokeToken(c, t) ==
  /\ pc[c] = "tokens"
  /\ t \in todo[c]
  /\ TokenFree(c, t)
  /\ todo' = [todo EXCEPT ![c] = @ \ {t}]
  /\ gone' = [gone EXCEPT ![c] = IF token[t] = "live" THEN @ \cup {t} ELSE @]
  /\ UNCHANGED <<user, rows, pc, proof, old, new, reason, list, ended>>

CommitRevocation(c) ==
  /\ pc[c] = "tokens"
  /\ todo[c] = {}
  /\ session' = [s \in Session |-> IF s \in ended[c] THEN reason[c] ELSE session[s]]
  /\ token' = [t \in Token |-> IF t \in gone[c] THEN "revoked" ELSE token[t]]
  /\ IF Recovers(c) THEN version' = version + 1 /\ secret' = version + 1 /\ UNCHANGED undone ELSE UNCHANGED user
  /\ shown' = IF reason[c] = "refresh_reuse" THEN [shown EXCEPT ![old[c]] = OneMore(@)] ELSE shown
  /\ Return(c)
  /\ UNCHANGED <<born, proven, expired, holder>>

-----------------------------------------------------------------------------
(* Waits. *)

\* The next statement of c needs a row that d has changed.
WaitsFor(c, d) ==
  /\ d # c
  /\ \/ pc[c] = "consume" /\ LocksToken(d, old[c])
     \/ pc[c] = "touch" /\ LocksSession(d, holder[old[c]])
     \/ pc[c] = "revoke" /\ \E s \in todo[c] : LocksSession(d, s)
     \/ pc[c] = "tokens" /\ \E t \in todo[c] : LocksToken(d, t)

\* The deadlock detector rolls one of them back; its caller gets an error.
Deadlock(c) ==
  /\ \E W \in SUBSET Call : c \in W /\ \A d \in W : \E e \in W : WaitsFor(d, e)
  /\ Return(c)
  /\ UNCHANGED <<user, rows>>

Next ==
  \/ \E s \in Session : Expire(s)
  \/ \E c \in Call :
       \/ ReadAccount(c) \/ UpgradeHash(c) \/ OpenSession(c)
       \/ \E t \in Token : ReadToken(c, t)
       \/ Consume(c) \/ Touch(c)
       \/ \E s \in Session : SignOut(c, s)
       \/ Recover(c) \/ ListSessions(c) \/ FindSessions(c)
       \/ \E s \in Session : RevokeSession(c, s)
       \/ FindTokens(c)
       \/ \E t \in Token : RevokeToken(c, t)
       \/ CommitRevocation(c)
       \/ Deadlock(c)

Spec == Init /\ [][Next]_vars

-----------------------------------------------------------------------------

\* A session has at most one refresh token that can be used: two refreshes with
\* the same token do not both rotate it (162-166).
OneLiveToken ==
  \A t, u \in Token : token[t] = "live" /\ token[u] = "live" /\ holder[t] = holder[u] => t = u

\* Once sign-out or detected reuse has ended a session, no refresh that was under
\* way has left a live token behind (200-213, 235-249).
EndedHasNoLiveToken ==
  \A t \in Token : token[t] = "live" =>
    session[holder[t]] \notin {"signed_out", "refresh_reuse"}

\* "rotates once and revokes the session when the consumed token is reused"
\* (test/session.service.spec.ts:10), also when the two refreshes overlap: after
\* both have ended the session is not open.
ReuseEndsSession == \A t \in Token : shown[t] = 2 => session[holder[t]] # "open"

\* A session that authenticates was opened with the password the account has:
\* a sign-in that overlaps a recovery gains nothing (89-153), as long as no hash
\* upgrade has put an earlier password back.
SessionFollowsPassword == ~undone => \A s \in Session : Valid(s) => proven[s] = secret
=============================================================================
