------------------------------ MODULE MCWallets ------------------------------
(***************************************************************************)
(* Small instances of the wallet service for TLC.                          *)
(***************************************************************************)
EXTENDS WalletsJournal, TLC

CONSTANTS alice, bob, shop, r1, r2, r3

MCOpening == [a \in Accounts |-> IF a \in Customers THEN 1 ELSE 0]

(***************************************************************************)
(* A client may write a reference that looks like a top-up's.              *)
(***************************************************************************)
LookalikeRefs == {Reference("topup", r) : r \in Requests}

(***************************************************************************)
(* A client may write "-0.01".                                             *)
(***************************************************************************)
SignedAmounts == {1, -1}

Symmetric == Permutations(Requests)
=============================================================================
