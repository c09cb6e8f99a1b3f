------------------------- MODULE MCJourneyTracking -------------------------
(***************************************************************************)
(* JourneyTracking for the model checker: one journey that may be started  *)
(* again, with a queue of two that overflows (MCJourneyTracking.cfg), and  *)
(* a position that is sent while another is queued (MCJourneyOrder.cfg).   *)
(***************************************************************************)
EXTENDS JourneyTracking

CONSTANTS j1, j2, f1, f2

MCJourney == {j1, j2}
MCFlow    == {f1, f2}
=============================================================================
