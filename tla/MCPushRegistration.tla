------------------------- MODULE MCPushRegistration -------------------------
(***************************************************************************)
(* PushRegistration for the model checker: one phone on which two accounts *)
(* sign in, one after the other.                                           *)
(***************************************************************************)
EXTENDS PushRegistration

CONSTANTS alice, bob, c1, c2

MCUser   == {alice, bob}
MCCall   == {c1, c2}
MCUserOf == <<alice, bob>>
=============================================================================
