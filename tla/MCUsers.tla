------------------------------ MODULE MCUsers -------------------------------
(***************************************************************************)
(* Small instances of registration, activation and access for TLC.         *)
(***************************************************************************)
EXTENDS Access, TLC

CONSTANTS r1, r2, r3, r4

Symmetric ==
    Permutations(Requests \ Unreliable) \cup Permutations(Unreliable)
        \cup Permutations(Emails)
=============================================================================
