----------------------------- MODULE MCSessions -----------------------------
(***************************************************************************)
(* TLC instances of Sessions.                                              *)
(***************************************************************************)
EXTENDS Sessions, TLC

CONSTANTS c1, c2  \* concurrent calls

CallSymmetry == Permutations(Call)
=============================================================================
