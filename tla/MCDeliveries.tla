---------------------------- MODULE MCDeliveries -----------------------------
(***************************************************************************)
(* A small instance of clients, deliveries and the gateway for TLC.        *)
(***************************************************************************)
EXTENDS Deliveries

CONSTANTS alice, bob, shop, r1, r2, d1, d2, x, y

MCOpening == [a \in Accounts |-> IF a \in Customers THEN 1 ELSE 0]

OwnRefs == {Reference("none", t) : t \in Texts}

MCOutcomes ==
    {e \in Event : <<e.prefix, e.ref, e.status>> \in
        {<<"topup", r1, "succeeded">>, <<"withdrawal", r1, "failed">>,
         <<"withdrawal", r2, "succeeded">>}}
=============================================================================
