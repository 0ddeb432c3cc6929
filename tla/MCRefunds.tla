----------------------------- MODULE MCRefunds ------------------------------
(***************************************************************************)
(* Small instances of payments and refunds for TLC.                        *)
(***************************************************************************)
EXTENDS RefundsJournal, TLC

CONSTANTS alice, shop, r1, r2, r3, r4, w1, w2

MCOpening == [a \in Accounts |-> IF a = alice THEN 200 ELSE 0]

RichShop == [a \in Accounts |-> IF a \in {alice, shop} THEN 200 ELSE 0]

Symmetric == Permutations(Handlers) \cup Permutations(Workers)
=============================================================================
