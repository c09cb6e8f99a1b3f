---------------------------- MODULE Idempotency ----------------------------
(***************************************************************************)
(* idempotent() of apps/api/src/workflows/workflow.service.ts: the wrapper *)
(* of every workflow operation, for one actor and one operation, under     *)
(* concurrent and repeated calls.                                          *)
(*                                                                         *)
(* The work of a call runs in a SERIALIZABLE transaction together with the *)
(* lookup and the insert of its idempotency record.  What the database     *)
(* answers to a transaction that met another one is left open where it is: *)
(* a serialization failure, or a unique conflict of whichever index the    *)
(* insert hit first.  Besides the records the work may insert a row that   *)
(* is unique on its own, such as the collection report of a request.       *)
(* Names are the wrapper's own: ServiceRequest_proofs extends both modules.*)
(***************************************************************************)
EXTENDS Naturals

CONSTANTS
  Attempt,    \* calls of the operation, first ones and repetitions
  Key,        \* idempotency keys
  Payload,    \* fingerprints of payloads
  None,       \* no record
  Checked,    \* keys of work that looks for the unique row before it inserts it
  Unchecked,  \* keys of work that inserts the unique row without looking
  MaxAborts   \* bound: serialization failures without a visible cause

ASSUME IdempotencyAssumption ==
  /\ None \notin Payload
  /\ None \notin Key
  /\ Checked \subseteq Key
  /\ Unchecked \subseteq Key \ Checked
  /\ MaxAborts \in Nat

VARIABLES
  record,   \* idempotency_records: the fingerprint stored with a key
  taker,    \* the key whose work inserted the unique row
  effects,  \* how often the work of a key was committed (history)
  progress, \* how far the call is
  key,      \* the key the call came with
  payload,  \* its fingerprint
  tries,    \* transactions the call has begun
  seen,     \* the records its transaction sees
  found,    \* the unique row its transaction sees
  answer,   \* what the caller is told
  aborts    \* serialization failures without a visible cause, so far

database == <<record, taker, effects>>
caller   == <<key, payload>>
wrapperVars == <<database, caller, progress, tries, seen, found, answer, aborts>>

Stage  == {"idle", "start", "open", "recover", "over"}
Answer == {"none", "done", "reused", "refused", "failed"}

WrapperTypeOK ==
  /\ record \in [Key -> Payload \cup {None}]
  /\ taker \in Key \cup {None}
  /\ effects \in [Key -> Nat]
  /\ progress \in [Attempt -> Stage]
  /\ key \in [Attempt -> Key]
  /\ payload \in [Attempt -> Payload]
  /\ tries \in [Attempt -> 0..2]
  /\ seen \in [Attempt -> [Key -> Payload \cup {None}]]
  /\ found \in [Attempt -> Key \cup {None}]
  /\ answer \in [Attempt -> Answer]
  /\ aborts \in 0..MaxAborts

WrapperInit ==
  /\ record = [k \in Key |-> None]
  /\ taker = None
  /\ effects = [k \in Key |-> 0]
  /\ progress = [c \in Attempt |-> "idle"]
  /\ key \in [Attempt -> Key]
  /\ payload \in [Attempt -> Payload]
  /\ tries = [c \in Attempt |-> 0]
  /\ seen = [c \in Attempt |-> [k \in Key |-> None]]
  /\ found = [c \in Attempt |-> None]
  /\ answer = [c \in Attempt |-> "none"]
  /\ aborts = 0

-----------------------------------------------------------------------------

Go(c, from, to) == progress[c] = from /\ progress' = [progress EXCEPT ![c] = to]

Reply(c, a) == answer' = [answer EXCEPT ![c] = a]

Arrive(c) ==
  /\ Go(c, "idle", "start")
  /\ UNCHANGED <<database, caller, tries, seen, found, answer, aborts>>

\* execute(): the transaction takes its snapshot.
Begin(c) ==
  /\ Go(c, "start", "open")
  /\ tries' = [tries EXCEPT ![c] = @ + 1]
  /\ seen' = [seen EXCEPT ![c] = record]
  /\ found' = [found EXCEPT ![c] = taker]
  /\ UNCHANGED <<database, caller, answer, aborts>>

\* The transaction sees a record of the key and answers from it.
Repeat(c) ==
  /\ seen[c][key[c]] # None
  /\ Go(c, "open", "over")
  /\ Reply(c, IF seen[c][key[c]] = payload[c] THEN "done" ELSE "reused")
  /\ UNCHANGED <<database, caller, tries, seen, found, aborts>>

Works(c) == progress[c] = "open" /\ seen[c][key[c]] = None

\* Broken: the work reads what is committed now, not its snapshot.
RefusesLate(c) == key[c] \in Checked /\ taker # None
Refuses(c) == key[c] \in Checked /\ found[c] # None

\* The work finds that the operation is no longer possible.
Decline(c) ==
  /\ Works(c)
  /\ Refuses(c)
  /\ Go(c, "open", "over")
  /\ Reply(c, "refused")
  /\ UNCHANGED <<database, caller, tries, seen, found, aborts>>

Taking(c) == key[c] \in Checked \cup Unchecked

\* Broken: the record is not unique.
ClashesOnRowOnly(c) == Taking(c) /\ taker # None

\* What this transaction is about to insert is there, committed by another.
Clashes(c) == record[key[c]] # None \/ (Taking(c) /\ taker # None)

\* The work and the record of the key are committed together.  The answer may
\* be lost on its way, or the operation fail to read the request afterwards.
Commit(c) ==
  /\ Works(c)
  /\ ~Refuses(c)
  /\ ~Clashes(c)
  /\ record' = [record EXCEPT ![key[c]] = payload[c]]
  /\ taker' = IF Taking(c) THEN key[c] ELSE taker
  /\ effects' = [effects EXCEPT ![key[c]] = @ + 1]
  /\ Go(c, "open", "over")
  /\ Reply(c, "done") \/ Reply(c, "failed")
  /\ UNCHANGED <<caller, tries, seen, found, aborts>>

\* P2002: the insert of the row or of the record is refused.
UniqueConflict(c) ==
  /\ Works(c)
  /\ ~Refuses(c)
  /\ Clashes(c)
  /\ Go(c, "open", "recover")
  /\ UNCHANGED <<database, caller, tries, seen, found, answer, aborts>>

\* Another transaction has committed since the snapshot what this one read.
Overtaken(c) == record[key[c]] # seen[c][key[c]] \/ (Taking(c) /\ taker # found[c])

\* P2034: executed once more, then reported.
SerializationFailure(c) ==
  /\ Works(c)
  /\ IF Overtaken(c) THEN UNCHANGED aborts
                     ELSE aborts < MaxAborts /\ aborts' = aborts + 1
  /\ IF tries[c] < 2
     THEN Go(c, "open", "start") /\ UNCHANGED answer
     ELSE Go(c, "open", "over") /\ Reply(c, "failed")
  /\ UNCHANGED <<database, caller, tries, seen, found>>

\* Broken: a unique conflict always means that the call was a repetition.
RecoverBlindly(c) ==
  /\ Go(c, "recover", "over")
  /\ Reply(c, "done")
  /\ UNCHANGED <<database, caller, tries, seen, found, aborts>>

\* After a unique conflict the record of the key is read without a transaction.
Recover(c) ==
  /\ Go(c, "recover", "over")
  /\ Reply(c, IF record[key[c]] = payload[c] THEN "done" ELSE "reused")
  /\ UNCHANGED <<database, caller, tries, seen, found, aborts>>

Run(c) == \/ Begin(c) \/ Repeat(c) \/ Decline(c) \/ Commit(c)
          \/ UniqueConflict(c) \/ SerializationFailure(c) \/ Recover(c)

Over == (\A c \in Attempt : progress[c] = "over") /\ UNCHANGED wrapperVars

WrapperNext == (\E c \in Attempt : Arrive(c) \/ Run(c)) \/ Over

WrapperSpec == WrapperInit /\ [][WrapperNext]_wrapperVars

-----------------------------------------------------------------------------

\* However often a call is repeated and whoever it meets, its work is committed
\* at most once per key, with its record, and the contested row is inserted by
\* one key (2176-2214).
OncePerKey ==
  /\ \A k \in Key : effects[k] = IF record[k] = None THEN 0 ELSE 1
  /\ \A k \in Checked \cup Unchecked : record[k] # None => taker = k

\* A caller that is told its operation is done had exactly the data it sent
\* recorded, even when another call's conflict led to the answer (2227-2240).
DoneIsRecorded == \A c \in Attempt : answer[c] = "done" => record[key[c]] = payload[c]

\* A caller that is refused has had no effect: its own earlier attempt is never
\* the reason for the refusal (2182-2199).
RefusedHadNoEffect == \A c \in Attempt : answer[c] = "refused" => effects[key[c]] = 0

\* What a snapshot shows has been committed, a refused call's row is another's.
SnapshotInv ==
  /\ \A k \in Key : record[k] = None => taker # k
  /\ \A c \in Attempt : progress[c] \in {"open", "recover"} =>
       /\ \A k \in Key : seen[c][k] # None => record[k] = seen[c][k]
       /\ found[c] # None => taker = found[c]
       /\ \A k \in Checked \cup Unchecked : seen[c][k] = None => found[c] # k
  /\ \A c \in Attempt : answer[c] = "refused" => taker \notin {None, key[c]} /\ Taking(c)
=============================================================================
