------------------------ MODULE MCAccountChallenges ------------------------
(***************************************************************************)
(* AccountChallenges for the model checker: two calls at a time, up to     *)
(* three codes, one phone and one network address that request sign-ins.   *)
(***************************************************************************)
EXTENDS AccountChallenges, TLC

CONSTANTS c1, c2, h1, h2, h3, ip1, p1

Symmetry == Permutations({c1, c2})
=============================================================================
