-------------------------------- MODULE Audit --------------------------------
(***************************************************************************)
(* The vocabulary in which the two tables of the ledger are audited        *)
(* against each other: sums over the rows of transactions.                 *)
(***************************************************************************)
EXTENDS Ledger, FiniteSetsExt

Total(ts) == MapThenSumSet(LAMBDA t : t.amount, ts)

From(a, ts) == {t \in ts : t.source = a}
To(a, ts) == {t \in ts : t.destination = a}
=============================================================================
