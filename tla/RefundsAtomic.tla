--------------------------- MODULE RefundsAtomic ----------------------------
(***************************************************************************)
(* What payments and refunds promise: a payment moves the amount to the    *)
(* merchant and the platform at once, a refund request is pending until it *)
(* is refunded in one step or refused, and both are final.                 *)
(***************************************************************************)
EXTENDS Accounting, Centimes

VARIABLES
    money,     \* centimes of each account, an int64
    journal,   \* the transactions recorded
    offers,    \* checkout sessions
    asked      \* refund requests and their answers

vars == <<money, journal, offers, asked>>

Init ==
    /\ money = Opening
    /\ journal = {}
    /\ offers = {}
    /\ asked = {}

Journalled(reference) == \E t \in journal : t.reference = reference

Offer(merchant, m) ==
    /\ offers' = offers \cup {[merchant |-> merchant, amount |-> Int64(m)]}
    /\ UNCHANGED <<money, journal, asked>>

(***************************************************************************)
(* The customer pays the offered amount: 1.5% of it goes to the platform.  *)
(***************************************************************************)
Pay(r, a, offer) ==
    /\ offer \in offers
    /\ money[a] >= offer.amount
    /\ ~ Journalled(Reference("payment", r)) /\ ~ Journalled(Reference("revenue", r))
    /\ money' = [money EXCEPT ![a] = Int64(@ - offer.amount),
                              ![offer.merchant] = Int64(@ + MerchantNet(offer.amount)),
                              ![Revenue] = Int64(@ + CalculateFeeCeil(offer.amount))]
    /\ journal' = journal \cup
           {Transfers(Reference("payment", r), a, offer.merchant,
                      MerchantNet(offer.amount), "applied"),
            [Transfers(Reference("revenue", r), a, Revenue,
                       CalculateFeeCeil(offer.amount), "applied")
                EXCEPT !.parent = Reference("payment", r)]}
    /\ UNCHANGED <<offers, asked>>

(***************************************************************************)
(* Refund requests: one pending request at a time for a transaction.       *)
(***************************************************************************)
Ask(r, t) ==
    /\ t \in journal /\ t.reference.prefix = "payment"
    /\ \A q \in asked : q.id # r
    /\ \A q \in asked : q.reference = t.reference => q.status # "pending"
    /\ asked' = asked \cup {[id |-> r, reference |-> t.reference, status |-> "pending"]}
    /\ UNCHANGED <<money, journal, offers>>

Answer(q, status) ==
    /\ q.status = "pending"
    /\ asked' = (asked \ {q}) \cup {[q EXCEPT !.status = status]}
    /\ UNCHANGED offers

(***************************************************************************)
(* The money goes back the way it came, once.                              *)
(***************************************************************************)
Refund(q, t) ==
    LET reference == [t.reference EXCEPT !.refunds = @ + 1]
    IN  /\ Answer(q, "completed")
        /\ t.reference = q.reference
        /\ ~ Journalled(reference)
        /\ money[t.destination] >= t.amount
        /\ money' = [money EXCEPT ![t.destination] = Int64(@ - t.amount),
                                  ![t.source] = Int64(@ + t.amount)]
        /\ journal' = journal \cup
               {[reference |-> reference, parent |-> t.reference, amount |-> t.amount,
                 source |-> t.destination, destination |-> t.source,
                 status |-> "applied"]}

Refuse(q) == Answer(q, "failed") /\ UNCHANGED <<money, journal>>

Next ==
    \/ \E merchant \in Merchants, m \in Amounts : Offer(merchant, m)
    \/ \E r \in Requests, a \in Customers, offer \in offers : Pay(r, a, offer)
    \/ \E r \in Requests, t \in journal : Ask(r, t)
    \/ \E q \in asked, t \in journal : Refund(q, t)
    \/ \E q \in asked : Refuse(q)

Spec == Init /\ [][Next]_vars
=============================================================================
