--------------------------- MODULE EventLifecycle ---------------------------
(***************************************************************************)
(* What the outbox promises to the code that writes to it, without         *)
(* workers, claims, leases, attempts or crashes: at-least-once delivery    *)
(* with a dead-letter end.  An event is open from the moment it is         *)
(* written; its message may be handed to a gateway any number of times;    *)
(* it is delivered only after it was handed over.                          *)
(***************************************************************************)
CONSTANTS
  Event,      \* the events
  Reminder,   \* the events that may be queued again in any state
  InApp       \* the events handed over by the very step that delivers them

VARIABLES
  fate,       \* "unwritten", "open", "delivered", "dead" or "purged"
  handed      \* events whose message was handed over

lifeVars == <<fate, handed>>

Gone == {"unwritten", "purged"}
Done == {"delivered", "dead"}

Init ==
  /\ fate = [e \in Event |-> "unwritten"]
  /\ handed = {}

\* Events are written, or reminders queued again.
Write(S) ==
  /\ S # {}
  /\ \A e \in S : fate[e] \in Gone \/ e \in Reminder
  /\ fate' = [e \in Event |-> IF e \in S THEN "open" ELSE fate[e]]
  /\ handed' = handed \ {e \in S : fate[e] \in Gone}

\* A message may reach a gateway late, even after the event is settled.
HandOver(e) ==
  /\ e \notin InApp
  /\ handed' = handed \cup {e}
  /\ UNCHANGED fate

Complete(e) ==
  /\ fate[e] = "open"
  /\ IF e \in InApp THEN handed' = handed \cup {e}
                    ELSE e \in handed /\ UNCHANGED handed
  /\ fate' = [fate EXCEPT ![e] = "delivered"]

GiveUp(e) ==
  /\ fate[e] = "open"
  /\ fate' = [fate EXCEPT ![e] = "dead"]
  /\ UNCHANGED handed

Purge(S) ==
  /\ \A e \in S : fate[e] \in Done
  /\ fate' = [e \in Event |-> IF e \in S THEN "purged" ELSE fate[e]]
  /\ UNCHANGED handed

Next ==
  \/ \E S \in SUBSET Event : Write(S) \/ Purge(S)
  \/ \E e \in Event : HandOver(e) \/ Complete(e) \/ GiveUp(e)

Spec == Init /\ [][Next]_lifeVars
=============================================================================
