------------------------------ MODULE Payments ------------------------------
(***************************************************************************)
(* The payment service (internal/payments): merchants open checkout        *)
(* sessions, customers pay them and ask for refunds.  The refund worker of *)
(* Refunds runs on the same tables; this module holds the handlers.        *)
(***************************************************************************)
EXTENDS Ledger, Centimes

VARIABLES
    call,            \* the parameters and local variables of each request
    checkouts,       \* table checkout_sessions
    refundRequests,  \* table refund_requests
    clock            \* the created_at of the next refund request

vars == <<ledgerVars, call, checkouts, refundRequests, clock>>

(***************************************************************************)
(* A checkout session is read for its merchant and amount only, which is   *)
(* an int64 by then.  It has no status and is not changed by a payment.    *)
(***************************************************************************)
Checkout == [merchant: Merchants, amount: Int64s]

RefundRequest ==
    [id: Requests, reference: References, createdAt: Nat,
     status: {"pending", "completed", "failed"}]

PendingRequests == {q \in refundRequests : q.status = "pending"}

NoCall == [op |-> "none"]

PayCall == [op: {"pay"}, account: Customers, session: Checkout, source: Row]

PayeeCall ==
    [op: {"pay"}, account: Customers, session: Checkout, source: Row, merchant: Row]

RequestCall == [op: {"request"}, reference: References, createdAt: Nat]

Enter(r, phase, c) ==
    /\ pc' = [pc EXCEPT ![r] = phase]
    /\ call' = [call EXCEPT ![r] = c]

Leave(r) == call' = [call EXCEPT ![r] = NoCall]

Return(r) == Rollback(r) /\ Leave(r) /\ UNCHANGED <<checkouts, refundRequests, clock>>

-----------------------------------------------------------------------------
(***************************************************************************)
(* CreateCheckoutSession: one INSERT outside any transaction.  The amount  *)
(* is not compared with anything.                                          *)
(***************************************************************************)
\* Variant: the amount as the client wrote it.
SessionAsWritten(merchant, m) ==
    /\ checkouts' = checkouts \cup {[merchant |-> merchant, amount |-> m]}
    /\ UNCHANGED <<ledgerVars, call, refundRequests, clock>>

CreateCheckoutSession(merchant, m) ==
    /\ checkouts' = checkouts \cup {[merchant |-> merchant, amount |-> Int64(m)]}
    /\ UNCHANGED <<ledgerVars, call, refundRequests, clock>>

(***************************************************************************)
(* Pay: the customer's balance is read and checked, then the merchant's    *)
(* and the platform's are read and the payment planned.                    *)
(***************************************************************************)
\* Variant: the balance is not compared.
AnyBalance(row, m) == TRUE

Sufficient(row, m) == row.balance >= m

Pay(r, a, session) ==
    /\ pc[r] = "idle"
    /\ session \in checkouts
    /\ Sufficient(balances[a], session.amount)
    /\ Enter(r, "sourceRead", [op |-> "pay", account |-> a, session |-> session,
                               source |-> balances[a]])
    /\ UNCHANGED <<balances, transactions, plan, step, checkouts, refundRequests, clock>>

MerchantRead(r) ==
    /\ pc[r] = "sourceRead"
    /\ LET c == call[r]
       IN Enter(r, "merchantRead",
                [op |-> "pay", account |-> c.account, session |-> c.session,
                 source |-> c.source, merchant |-> balances[c.session.merchant]])
    /\ UNCHANGED <<balances, transactions, plan, step, checkouts, refundRequests, clock>>

\* Variant: the transaction records the amount before the fee.
GrossPayment(r, c) ==
    Transfers(Reference("payment", r), c.account, c.session.merchant,
              c.session.amount, "applied")

Payment(r, c) ==
    Transfers(Reference("payment", r), c.account, c.session.merchant,
              MerchantNet(c.session.amount), "applied")

PlatformFee(r, c) ==
    [Transfers(Reference("revenue", r), c.account, Revenue,
               CalculateFeeCeil(c.session.amount), "applied")
        EXCEPT !.parent = Reference("payment", r)]

\* Variant: the merchant receives the whole amount, the fee is not taken off.
PayPlanWithoutNet(r, c, revenue) ==
    << Insert(Payment(r, c)),
       Insert(PlatformFee(r, c)),
       Update(c.account, c.source, [c.source EXCEPT !.balance = Int64(@ - c.session.amount)]),
       Update(c.session.merchant, c.merchant,
              [c.merchant EXCEPT !.balance = Int64(@ + c.session.amount)]),
       Update(Revenue, revenue,
              [revenue EXCEPT !.balance = Int64(@ + CalculateFeeCeil(c.session.amount))]) >>

PayPlan(r, c, revenue) ==
    << Insert(Payment(r, c)),
       Insert(PlatformFee(r, c)),
       Update(c.account, c.source, [c.source EXCEPT !.balance = Int64(@ - c.session.amount)]),
       Update(c.session.merchant, c.merchant,
              [c.merchant EXCEPT !.balance = Int64(@ + MerchantNet(c.session.amount))]),
       Update(Revenue, revenue,
              [revenue EXCEPT !.balance = Int64(@ + CalculateFeeCeil(c.session.amount))]) >>

RevenueRead(r) ==
    /\ pc[r] = "merchantRead"
    /\ Begin(r, PayPlan(r, call[r], balances[Revenue]))
    /\ UNCHANGED <<call, checkouts, refundRequests, clock>>

-----------------------------------------------------------------------------
(***************************************************************************)
(* RequestRefund: the transaction is looked up by its reference, then a    *)
(* pending request for it inserted.  The "_refund" at the end of a         *)
(* reference does not change the prefix isPayment looks at.                *)
(***************************************************************************)
IsPayment(reference) == reference.prefix = "payment"

ByReference(reference) == {t \in transactions : t.reference = reference}

RequestRefund(r, reference) ==
    /\ pc[r] = "idle"
    /\ IsPayment(reference)
    /\ \E t \in ByReference(reference) : t.status = "applied"
    /\ Enter(r, "requesting",
             [op |-> "request", reference |-> reference, createdAt |-> clock])
    /\ clock' = clock + 1
    /\ UNCHANGED <<balances, transactions, plan, step, checkouts, refundRequests>>

(***************************************************************************)
(* uq_refund_active_per_transaction: at most one pending request for a     *)
(* transaction.  The INSERT waits while a worker's open transaction has    *)
(* claimed such a request.  It is the only write of its transaction, so    *)
(* the step that executes it also commits.                                 *)
(***************************************************************************)
Claims(o, q) ==
    /\ pc[o] \in {"claimed", "checking", "writing"}
    /\ call[o].op = "refund"
    /\ call[o].request = q

ActiveFor(reference) == {q \in PendingRequests : q.reference = reference}

RequestFree(reference) ==
    \A q \in ActiveFor(reference), o \in Requests : ~ Claims(o, q)

\* Variant: the index does not look at the status "pending".
NoActiveIndex(reference) == TRUE

NoneActive(reference) == ActiveFor(reference) = {}

CreateRequest(r) ==
    /\ pc[r] = "requesting"
    /\ RequestFree(call[r].reference)
    /\ NoneActive(call[r].reference)
    /\ refundRequests' = refundRequests \cup
           {[id |-> r, reference |-> call[r].reference,
             createdAt |-> call[r].createdAt, status |-> "pending"]}
    /\ pc' = [pc EXCEPT ![r] = "done"]
    /\ Leave(r)
    /\ UNCHANGED <<balances, transactions, plan, step, checkouts, clock>>

DuplicateRequest(r) ==
    /\ pc[r] = "requesting"
    /\ RequestFree(call[r].reference)
    /\ ~ NoneActive(call[r].reference)
    /\ Return(r)
=============================================================================
