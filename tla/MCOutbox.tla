------------------------------ MODULE MCOutbox ------------------------------
(***************************************************************************)
(* TLC instances of OutboxDelivery.                                        *)
(***************************************************************************)
EXTENDS OutboxDelivery, TLC

CONSTANTS w1, w2,    \* workers
          note,      \* an in-app event
          code,      \* an account challenge, which content() looks at again
          push,      \* the push event of an assignment
          remind     \* a reminder

WorkerSymmetry == Permutations({w1, w2})
=============================================================================
