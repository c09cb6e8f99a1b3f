----------------------------- MODULE MCRequest -----------------------------
(***************************************************************************)
(* TLC instances of ServiceRequest.                                        *)
(***************************************************************************)
EXTENDS ServiceRequest, TLC

CONSTANTS p1, p2,    \* providers
          s1, s2,    \* disposal sites
          c1, c2     \* concurrent submissions of positions

Symmetric == Permutations({p1, p2}) \cup Permutations({s1, s2}) \cup Permutations({c1, c2})
=============================================================================
