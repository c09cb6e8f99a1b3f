-------------------------- MODULE RequestLifecycle --------------------------
(***************************************************************************)
(* What the workflow promises about one service request, without           *)
(* assignments, journeys, notifications or accounts: one provider holds    *)
(* it from its acceptance on, its waste goes to the disposal site that was *)
(* chosen before the provider departed, and a request that is withdrawn    *)
(* while it is open is never served.                                       *)
(***************************************************************************)
CONSTANTS Provider, Site, Nobody, NoSite

VARIABLES
  stage,   \* how far the request is
  holder,  \* the provider who has taken it
  target   \* the disposal site

requestVars == <<stage, holder, target>>

Init == stage = "none" /\ holder = Nobody /\ target = NoSite

Advance(from, to) == stage = from /\ stage' = to

Ask      == Advance("none", "open") /\ UNCHANGED <<holder, target>>
Withdraw == Advance("open", "withdrawn") /\ UNCHANGED <<holder, target>>
Take(p)  == Advance("open", "taken") /\ holder' = p /\ UNCHANGED target

\* The holder serves the request: travels, empties, departs and disposes.
Serve ==
  /\ \/ Advance("taken", "underway")
     \/ Advance("underway", "reported")
     \/ Advance("reported", "emptied")
     \/ Advance("reported", "unserved")
     \/ target # NoSite /\ Advance("emptied", "disposing")
     \/ Advance("disposing", "closed")
  /\ UNCHANGED <<holder, target>>

\* Staff choose the site until the provider departs for it.
Retarget(s) ==
  /\ stage \notin {"none", "disposing", "closed"}
  /\ target' = s
  /\ UNCHANGED <<stage, holder>>

Next ==
  \/ Ask
  \/ Withdraw
  \/ \E p \in Provider : Take(p)
  \/ Serve
  \/ \E s \in Site : Retarget(s)

Spec == Init /\ [][Next]_requestVars
=============================================================================
