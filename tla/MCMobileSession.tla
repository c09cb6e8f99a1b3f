-------------------------- MODULE MCMobileSession --------------------------
(***************************************************************************)
(* MobileSession for the model checker: two sessions of one server, two    *)
(* flows at a time, one renewal of each session, and two events: sign-in   *)
(* attempts, pauses and kills together.                                    *)
(***************************************************************************)
EXTENDS MobileSession

CONSTANTS s1, s2, f1, f2

MCSession == {s1, s2}
MCFlow    == {f1, f2}
=============================================================================
