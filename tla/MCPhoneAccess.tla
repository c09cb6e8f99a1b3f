--------------------------- MODULE MCPhoneAccess ---------------------------
(***************************************************************************)
(* TLC instances of PhoneAccess.                                           *)
(***************************************************************************)
EXTENDS PhoneAccess

CONSTANTS k1, k2,     \* concurrent calls
          h1, h2, h3  \* challenges

CallSymmetry == Permutations({k1, k2})
=============================================================================
