--------------------------- MODULE MCIdempotency ---------------------------
(***************************************************************************)
(* TLC instances of Idempotency.                                           *)
(***************************************************************************)
EXTENDS Idempotency, TLC

CONSTANTS c1, c2, c3,        \* calls
          plain, first, second,  \* keys: one of plain work, two that compete
          a, b               \* payloads
=============================================================================
