--------------------------- MODULE MCIdempotency ----------------------------
(***************************************************************************)
(* Small instances of the idempotency middleware for TLC.                  *)
(***************************************************************************)
EXTENDS Idempotency, TLC

CONSTANTS r1, r2, r3

Symmetric ==
    Permutations(Requests \ Unreliable) \cup Permutations(Users)
        \cup Permutations(Routes) \cup Permutations(Bodies)
=============================================================================
