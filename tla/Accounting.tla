----------------------------- MODULE Accounting -----------------------------
(***************************************************************************)
(* The rows of the ledger's two tables and the identifiers that name them. *)
(* A UUID is the request that generated it.  A monetary amount is a number *)
(* of centimes: a big.Int of either sign in the services, an int64 in the  *)
(* tables.  A transaction reference is a prefix, a UUID or other text      *)
(* after it, and the "_refund" suffixes at its end.                        *)
(***************************************************************************)
EXTENDS Integers, Sequences, FiniteSets

CONSTANTS
    Customers,   \* balances of the customers ("customer_ledger_id")
    Merchants,   \* balances of the merchants ("merchant_ledger_id")
    World,       \* the "@World" balance, the outside of the system
    Revenue,     \* the "@Revenue" balance, the platform's fees
    Amounts,     \* the amounts a client may ask for, of either sign
    HalfWord,    \* 2^63: an int64 is below it and not below its opposite
    Opening,     \* the balance every account starts from
    Requests,    \* calls of the API, each executed once
    Texts,       \* what a client may write where the services write a UUID
    ClientRefs,  \* the references clients choose for their transfers
    None         \* no parent transaction (uuid.Nil)

Accounts == Customers \cup Merchants \cup {World, Revenue}

\* "none" stands for the references that begin with none of the others.
Prefixes == {"topup", "withdrawal", "payment", "revenue", "none"}

References == [prefix: Prefixes, id: Requests \cup Texts, refunds: Nat]

Reference(prefix, id) == [prefix |-> prefix, id |-> id, refunds |-> 0]

Statuses == {"inflight", "applied", "void"}

(***************************************************************************)
(* big.Int.Int64, through which every amount enters the tables: the low 64 *)
(* bits, in two's complement.                                              *)
(***************************************************************************)
Int64s == -HalfWord..HalfWord-1

Int64(n) == ((n + HalfWord) % (2 * HalfWord)) - HalfWord

ASSUME AmountsAssumption == Amounts \subseteq Int
ASSUME WordAssumption == HalfWord \in Nat \ {0}
ASSUME OpeningAssumption == Opening \in [Accounts -> Int64s]
ASSUME ClientRefsAssumption == ClientRefs \subseteq References
ASSUME AccountsAssumption ==
    /\ Customers \cap Merchants = {}
    /\ World \notin Customers \cup Merchants
    /\ Revenue \notin Customers \cup Merchants \cup {World}
ASSUME NoneAssumption == None \notin References

-----------------------------------------------------------------------------
(***************************************************************************)
(* A row of table balances.  version counts the updates of the row.        *)
(***************************************************************************)
Row == [balance: Int64s, credit: Int64s, debit: Int64s, version: Nat]

OpeningRow(a) ==
    [balance |-> Opening[a], credit |-> 0, debit |-> 0, version |-> 0]

(***************************************************************************)
(* A row of table transactions.  A settlement names the payment request it *)
(* settles as its parent.                                                  *)
(***************************************************************************)
Transaction ==
    [reference: References, parent: References \cup {None}, amount: Int64s,
     source: Accounts, destination: Accounts, status: Statuses]

Transfers(reference, source, destination, amount, status) ==
    [reference |-> reference, parent |-> None, amount |-> Int64(amount),
     source |-> source, destination |-> destination, status |-> status]

SettlementOf(parent, reference, status) ==
    [parent EXCEPT !.reference = reference,
                   !.parent = parent.reference,
                   !.status = status]
=============================================================================
