--------------------------- MODULE RefundsJournal ---------------------------
(***************************************************************************)
(* The tables of payments and refunds audited against each other.          *)
(***************************************************************************)
EXTENDS Refunds, Audit

(***************************************************************************)
(* JournalExplainsBalances: double entry.  At every moment each account    *)
(* holds its opening balance, plus what the transactions brought, minus    *)
(* what they took: payments, fees and refunds appear with all their        *)
(* updates or not at all, and no centime of a fee is lost or made, up to   *)
(* the low 64 bits that a balance keeps of the sum.                        *)
(***************************************************************************)
JournalExplainsBalances ==
    \A a \in Accounts :
        balances[a].balance =
            Int64(Opening[a] + Total(To(a, transactions)) - Total(From(a, transactions)))

(***************************************************************************)
(* NothingRefundedTwice: a transaction is sent back once, though it may be *)
(* asked for again, its refund be tried again after a rollback, and two    *)
(* workers refund at the same time.                                        *)
(***************************************************************************)
Refunded == {t \in transactions : t.reference.refunds > 0}

NothingRefundedTwice == \A s, t \in Refunded : s.parent = t.parent => s = t

(***************************************************************************)
(* RefundsMatchRequests: a request is completed exactly when its refund    *)
(* has been recorded.                                                      *)
(***************************************************************************)
Completed == {q \in refundRequests : q.status = "completed"}

RefundsMatchRequests ==
    /\ Cardinality(Completed) = Cardinality(Refunded)
    /\ NothingRefundedTwice
    /\ \A q \in Completed : \E t \in Refunded : t.parent = q.reference

(***************************************************************************)
(* RefundsAreAnswered: however many workers there are, a request completes *)
(* only with its refund, of several requests for one transaction only one, *)
(* and a transaction that was sent back does not leave all its requests    *)
(* unanswered.                                                             *)
(***************************************************************************)
AnsweredRequests == {q \in refundRequests : q.status \in {"completed", "failed"}}

RefundsAreAnswered ==
    /\ \A q \in Completed : \E t \in Refunded : t.parent = q.reference
    /\ \A p, q \in Completed : p.reference = q.reference => p = q
    /\ \A t \in Refunded : \E q \in AnsweredRequests : q.reference = t.parent

(***************************************************************************)
(* MerchantsCanRefund: while a merchant has been paid only what is not     *)
(* negative, and no more in all than an int64 holds, what it was paid and  *)
(* has not refunded is in its balance, so that "merchant has insufficient  *)
(* balance for refund" (worker.go:17) never meets the first request for a  *)
(* payment.                                                                *)
(***************************************************************************)
RefundedReferences == {t.parent : t \in Refunded}

OrdinaryIncome(a) ==
    /\ Opening[a] >= 0
    /\ \A t \in To(a, transactions) : t.amount >= 0
    /\ Opening[a] + Total(To(a, transactions)) < HalfWord

MerchantsCanRefund ==
    \A a \in Merchants : OrdinaryIncome(a) =>
        balances[a].balance >=
            Total({t \in To(a, transactions) : t.reference \notin RefundedReferences})

(***************************************************************************)
(* FailedIsNotRefunded: "merchant has insufficient balance for refund"     *)
(* (worker.go:17) is what a failed request tells its customer, so a        *)
(* recorded refund has a request that is completed.                        *)
(***************************************************************************)
FailedIsNotRefunded ==
    \A t \in Refunded : \E q \in Completed : q.reference = t.parent

(***************************************************************************)
(* HistoryAddsUp: what GET /wallet/transactions lists adds up to what GET  *)
(* /wallet answers.                                                        *)
(***************************************************************************)
HistoryAddsUp ==
    \A a \in Customers :
        balances[a].balance =
            Opening[a] + Total(To(a, History(a))) - Total(From(a, History(a)))
=============================================================================
