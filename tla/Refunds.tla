------------------------------ MODULE Refunds -------------------------------
(***************************************************************************)
(* The refund worker (internal/refunds, cmd/worker) together with the      *)
(* payment service whose requests it processes.  A worker claims the       *)
(* oldest pending request that no other worker holds, refunds it and marks *)
(* it completed in one database transaction, and tries again after an      *)
(* error.                                                                  *)
(***************************************************************************)
EXTENDS Payments

CONSTANTS
    Workers,     \* the workers among the requests: they never end
    Unreliable   \* requests and workers whose statements or process may fail

ASSUME WorkersAssumption == Workers \subseteq Requests

Handlers == Requests \ Workers

ClaimCall == [op: {"refund"}, request: RefundRequest]

CheckCall ==
    [op: {"refund"}, request: RefundRequest, payment: Transaction, payer: Row]

Call == {NoCall} \cup PayCall \cup PayeeCall \cup RequestCall \cup ClaimCall \cup CheckCall

Init ==
    /\ LedgerInit
    /\ call = [r \in Requests |-> NoCall]
    /\ checkouts = {}
    /\ refundRequests = {}
    /\ clock = 0

-----------------------------------------------------------------------------
(***************************************************************************)
(* ClaimPending: ORDER BY created_at FOR UPDATE SKIP LOCKED LIMIT 1.  The  *)
(* status "processing" it writes is seen by nobody: at the commit it has   *)
(* become "completed", at a rollback "pending" again.                      *)
(***************************************************************************)
\* Variant: the row lock is not looked at.
AnyClaimable(q) == TRUE

Claimable(q) == \A o \in Workers : ~ Claims(o, q)

Oldest(qs) == {q \in qs : \A p \in qs : q.createdAt <= p.createdAt}

ClaimPending(w) ==
    /\ pc[w] = "idle"
    /\ \E q \in Oldest({p \in PendingRequests : Claimable(p)}) :
          Enter(w, "claimed", [op |-> "refund", request |-> q])
    /\ UNCHANGED <<balances, transactions, plan, step, checkouts, refundRequests, clock>>

(***************************************************************************)
(* refund: the transaction and the balance that received it are read, then *)
(* the balance that sent it; only then the first is checked.               *)
(***************************************************************************)
RefundRead(w) ==
    /\ pc[w] = "claimed"
    /\ \E t \in ByReference(call[w].request.reference) :
          Enter(w, "checking",
                [op |-> "refund", request |-> call[w].request, payment |-> t,
                 payer |-> balances[t.destination]])
    /\ UNCHANGED <<balances, transactions, plan, step, checkouts, refundRequests, clock>>

\* Variant: a reference of its own for every refund.
RefundOfRequest(q) == [prefix |-> "payment", id |-> q.id, refunds |-> 1]

RefundReference(q) == [q.reference EXCEPT !.refunds = @ + 1]

\* Variant: source and destination are not swapped.
RefundOfSameWay(q, t) ==
    [t EXCEPT !.reference = RefundReference(q), !.parent = t.reference]

RefundOf(q, t) ==
    [t EXCEPT !.reference = RefundReference(q), !.parent = t.reference,
              !.source = t.destination, !.destination = t.source, !.status = "applied"]

RefundPlan(c, receiver) ==
    << Update(c.payment.destination, c.payer,
              [c.payer EXCEPT !.balance = Int64(@ - c.payment.amount)]),
       Update(c.payment.source, receiver,
              [receiver EXCEPT !.balance = Int64(@ + c.payment.amount)]),
       Insert(RefundOf(c.request, c.payment)) >>

RefundPlanned(w) ==
    /\ pc[w] = "checking"
    /\ Sufficient(call[w].payer, call[w].payment.amount)
    /\ Begin(w, RefundPlan(call[w], balances[call[w].payment.source]))
    /\ UNCHANGED <<call, checkouts, refundRequests, clock>>

(***************************************************************************)
(* ErrMerchantInsufficientBalance: the transaction is rolled back, which   *)
(* gives the claim up, and the request is marked failed by a statement of  *)
(* its own.  It waits for a worker that has claimed the request since, and *)
(* does not look at the status it overwrites.                              *)
(***************************************************************************)
RefundInsufficient(w) ==
    /\ pc[w] = "checking"
    /\ ~ Sufficient(call[w].payer, call[w].payment.amount)
    /\ pc' = [pc EXCEPT ![w] = "insufficient"]
    /\ UNCHANGED <<balances, transactions, plan, step, call, checkouts, refundRequests, clock>>

WithStatus(q, status) ==
    {IF p.id = q.id THEN [p EXCEPT !.status = status] ELSE p : p \in refundRequests}

MarkFailed(w) ==
    /\ pc[w] = "insufficient"
    /\ \A q \in refundRequests : q.id = call[w].request.id => Claimable(q)
    /\ refundRequests' = WithStatus(call[w].request, "failed")
    /\ pc' = [pc EXCEPT ![w] = "failed"]
    /\ Leave(w)
    /\ UNCHANGED <<balances, transactions, plan, step, checkouts, clock>>

(***************************************************************************)
(* MarkCompleted is the last statement of the refund's transaction, on the *)
(* row claimed by its first.                                               *)
(***************************************************************************)
\* Variant: the claim is committed as it is.
LeftProcessing(q) == WithStatus(q, "processing")

MarkCompleted(q) == WithStatus(q, "completed")

Finish(r) ==
    /\ Commit(r)
    /\ Leave(r)
    /\ refundRequests' = IF call[r].op = "refund"
                         THEN MarkCompleted(call[r].request) ELSE refundRequests
    /\ UNCHANGED <<checkouts, clock>>

(***************************************************************************)
(* processAvailable and the ticker: the worker starts over.                *)
(***************************************************************************)
Ended == {"done", "failed"}

\* Variant: an error ends the worker.
RetryAfterSuccess(w) ==
    /\ pc[w] = "done"
    /\ pc' = [pc EXCEPT ![w] = "idle"]
    /\ UNCHANGED <<balances, transactions, plan, step, call, checkouts, refundRequests, clock>>

Retry(w) ==
    /\ pc[w] \in Ended
    /\ pc' = [pc EXCEPT ![w] = "idle"]
    /\ UNCHANGED <<balances, transactions, plan, step, call, checkouts, refundRequests, clock>>

-----------------------------------------------------------------------------
Statements(r) ==
    \/ (UpdateBalance(r) \/ Record(r))
         /\ UNCHANGED <<call, checkouts, refundRequests, clock>>
    \/ (OptimisticLock(r) \/ DuplicateReference(r))
         /\ Leave(r) /\ UNCHANGED <<checkouts, refundRequests, clock>>

(***************************************************************************)
(* A statement error, a lost connection, a shutdown or a crash rolls the   *)
(* open transaction back.  A statement that waits for a lock ends with the *)
(* deadline of its context or as the victim of the deadlock detector,      *)
(* whichever is first; MarkFailed, which has no deadline, locks one row    *)
(* and waits for a worker that waits for none.                             *)
(***************************************************************************)
InProgress(r) == pc[r] \notin {"idle"} \cup Ended

Fail(r) == r \in Unreliable /\ InProgress(r) /\ Return(r)

Blocked(r) ==
    \/ Waiting(r)
    \/ pc[r] = "requesting" /\ ~ RequestFree(call[r].reference)

\* Variant: the statements' contexts have no deadline.
TimeoutNever(r) == FALSE

Timeout(r) == Blocked(r) /\ Return(r)

Start(r) ==
    \/ \E a \in Customers, session \in checkouts : Pay(r, a, session)
    \/ \E reference \in ReferencesOf(transactions) : RequestRefund(r, reference)

HandlerStep(r) ==
    \/ MerchantRead(r) \/ RevenueRead(r)
    \/ CreateRequest(r) \/ DuplicateRequest(r)

WorkerStep(w) ==
    \/ ClaimPending(w) \/ RefundRead(w)
    \/ RefundPlanned(w) \/ RefundInsufficient(w) \/ MarkFailed(w)
    \/ Retry(w)

Step(r) ==
    \/ r \in Handlers /\ HandlerStep(r)
    \/ r \in Workers /\ WorkerStep(r)
    \/ Statements(r)
    \/ Finish(r)

Terminating ==
    /\ \A r \in Requests : pc[r] \in {"idle"} \cup Ended
    /\ UNCHANGED vars

Next ==
    \/ \E merchant \in Merchants, m \in Amounts : CreateCheckoutSession(merchant, m)
    \/ \E r \in Handlers : Start(r)
    \/ \E r \in Requests : Step(r) \/ Fail(r) \/ Timeout(r)
    \/ Terminating

Spec == Init /\ [][Next]_vars

(***************************************************************************)
(* A row lock that is released goes to the statement that waits for it,    *)
(* not to one that comes later: strong fairness of the statements.         *)
(***************************************************************************)
FairSpec ==
    /\ Spec
    /\ \A r \in Requests :
          WF_vars(Step(r)) /\ SF_vars(Statements(r)) /\ WF_vars(Timeout(r))

-----------------------------------------------------------------------------
(***************************************************************************)
(* The type invariant of the payment tables and of the calls on them.      *)
(***************************************************************************)
Phases == {"idle", "sourceRead", "merchantRead", "requesting",
           "claimed", "checking", "insufficient", "writing"} \cup Ended

TypeOK ==
    /\ LedgerTypeOK
    /\ pc \in [Requests -> Phases]
    /\ call \in [Requests -> Call]
    /\ checkouts \subseteq Checkout
    /\ refundRequests \subseteq RefundRequest
    /\ clock \in Nat

(***************************************************************************)
(* PayersCanPay: "check sufficient balance" (payments/service.go:101) and  *)
(* the worker's check of the merchant are made on rows read earlier, and   *)
(* true of the balance that the payment or refund commits on; unless its   *)
(* amount is negative, its payer is not left with less than nothing.       *)
(***************************************************************************)
Payer(c) == IF c.op = "pay" THEN c.account ELSE c.payment.destination
Price(c) == IF c.op = "pay" THEN c.session.amount ELSE c.payment.amount

PayersCanPayStep ==
    \A r \in Requests : Commits(r) =>
        LET a == Payer(call[r])
            m == Price(call[r])
        IN  /\ balances[a].balance >= m
            /\ m >= 0 => balances'[a].balance >= 0

PayersCanPay == [][PayersCanPayStep]_vars

(***************************************************************************)
(* ClaimsAreExclusive: SKIP LOCKED gives a pending request to one worker   *)
(* at a time, and nobody decides it until that worker's transaction ends,  *)
(* not even a worker that is late with its MarkFailed.                     *)
(***************************************************************************)
ClaimsAreExclusive ==
    \A w \in Workers : pc[w] \in {"claimed", "checking", "writing"} =>
        /\ call[w].request \in PendingRequests
        /\ \A o \in Workers \ {w} : ~ Claims(o, call[w].request)

(***************************************************************************)
(* OneActiveRequest: a transaction has at most one pending request.        *)
(***************************************************************************)
OneActiveRequest ==
    \A p, q \in PendingRequests : p.reference = q.reference => p = q

(***************************************************************************)
(* ImplementsAtomic: payments, requests and refunds take effect in one     *)
(* step each, and a request that was answered stays answered.              *)
(***************************************************************************)
Atomic == INSTANCE RefundsAtomic WITH
    money   <- [a \in Accounts |-> balances[a].balance],
    journal <- transactions,
    offers  <- checkouts,
    asked   <- {[id |-> q.id, reference |-> q.reference, status |-> q.status] :
                   q \in refundRequests}

ImplementsAtomic == Atomic!Spec

(***************************************************************************)
(* HandlersTerminate: every payment and every request for a refund is      *)
(* answered, although payments lock customer before merchant, refunds      *)
(* merchant before customer, and a request may wait for the claim on an    *)
(* earlier one.                                                            *)
(***************************************************************************)
HandlersTerminate ==
    \A r \in Handlers : pc[r] # "idle" ~> pc[r] \in Ended

(***************************************************************************)
(* RefundsDecided: "Worker processes refund requests persisted by the API" *)
(* (worker.go:19): every pending request is completed or failed some day.  *)
(***************************************************************************)
IsPending(r) == \E q \in PendingRequests : q.id = r

RefundsDecided == \A r \in Handlers : IsPending(r) ~> ~ IsPending(r)

(***************************************************************************)
(* RefundsDecidedUnlessStuck: only a pending request for a transaction     *)
(* that is already refunded can keep the others from being decided.        *)
(***************************************************************************)
Stuck ==
    \E q \in PendingRequests : RefundReference(q) \in ReferencesOf(transactions)

RefundsDecidedUnlessStuck ==
    \A r \in Handlers : IsPending(r) ~> ~ IsPending(r) \/ Stuck

(***************************************************************************)
(* OnlyPaymentsAreRefunded: "for now only payment transactions are         *)
(* refundable." (payments/service.go:190): what is asked for is a payment  *)
(* of a customer to a merchant, not a refund.                              *)
(***************************************************************************)
OnlyPaymentsAreRefunded ==
    \A q \in refundRequests, t \in transactions :
        t.reference = q.reference => t.source \in Customers /\ t.destination \in Merchants
=============================================================================
