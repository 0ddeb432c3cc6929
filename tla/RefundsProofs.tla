--------------------------- MODULE RefundsProofs ----------------------------
(***************************************************************************)
(* Payments and refunds: types, the discipline of the refund queue, that   *)
(* payers have what they pay and the audit of the tables, for every number *)
(* of handlers, workers, accounts and amounts; with one worker, what       *)
(* requests promise and the refinement of RefundsAtomic.                   *)
(***************************************************************************)
EXTENDS RefundsJournal, LedgerProofs

(***************************************************************************)
(* What each phase has established about the local variables.              *)
(***************************************************************************)
CallsFollowPhases ==
    \A r \in Requests :
        /\ pc[r] = "sourceRead" => /\ call[r] \in PayCall
                                  /\ Sufficient(call[r].source, call[r].session.amount)
        /\ pc[r] = "merchantRead" => /\ call[r] \in PayeeCall
                                    /\ Sufficient(call[r].source, call[r].session.amount)
        /\ pc[r] = "requesting" => call[r] \in RequestCall
        /\ pc[r] = "claimed" => call[r] \in ClaimCall
        /\ pc[r] \in {"checking", "insufficient"} => call[r] \in CheckCall
        /\ pc[r] # "writing" => step[r] = 0

(***************************************************************************)
(* Only workers refund, and a worker does nothing else.                    *)
(***************************************************************************)
WorkersRefund ==
    \A r \in Requests :
        /\ call[r].op = "refund" => r \in Workers
        /\ r \in Workers /\ InProgress(r) => call[r].op = "refund"

(***************************************************************************)
(* The rows a request has read before its statements are planned.          *)
(***************************************************************************)
CallReadsAreOld ==
    \A r \in Requests :
        /\ pc[r] \in {"sourceRead", "merchantRead"} =>
               UpToDate(call[r].source, call[r].account)
        /\ pc[r] = "merchantRead" =>
               UpToDate(call[r].merchant, call[r].session.merchant)
        /\ pc[r] = "checking" =>
               UpToDate(call[r].payer, call[r].payment.destination)

(***************************************************************************)
(* A refund request is the one of its handler, which has ended.            *)
(***************************************************************************)
RequestsAreDone ==
    /\ \A p, q \in refundRequests : p.id = q.id => p = q
    /\ \A q \in refundRequests : q.id \in Handlers /\ pc[q.id] = "done"

CallInv == CallsFollowPhases /\ WorkersRefund /\ CallReadsAreOld
QueueInv == RequestsAreDone /\ ClaimsAreExclusive /\ OneActiveRequest

IInv == TypeOK /\ CallInv /\ LedgerInv /\ QueueInv

-----------------------------------------------------------------------------
(***************************************************************************)
(* The fee on an int64 lies between nothing and the payment, on either     *)
(* side of zero, so that it and what remains are int64s.                   *)
(***************************************************************************)
LEMMA FeeBounds ==
    ASSUME NEW m \in Int64s
    PROVE  /\ CalculateFeeCeil(m) \in Int64s /\ MerchantNet(m) \in Int64s
           /\ m = MerchantNet(m) + CalculateFeeCeil(m)
<1> DEFINE n == 15 * m + 999
           fee == n \div 1000
<1>1. n \in Int /\ m \in Int
  BY DEF Int64s
<1>2. fee \in Int /\ 1000 * fee <= n /\ n < 1000 * fee + 1000
  <2> HIDE DEF n
  <2> QED
    BY <1>1
<1>3. CalculateFeeCeil(m) = fee
  BY DEF CalculateFeeCeil
<1>4. 1000 * fee <= 15 * m + 999 /\ 15 * m + 999 < 1000 * fee + 1000
  BY <1>2
<1> HIDE DEF n, fee
<1>5. /\ m >= 0 => 0 <= fee /\ fee <= m
      /\ m < 0 => m <= fee /\ fee <= 0
  BY <1>1, <1>2, <1>4
<1>6. fee \in Int64s /\ m - fee \in Int64s /\ m = (m - fee) + fee
  BY <1>1, <1>2, <1>5, WordAssumption DEF Int64s
<1> QED
  BY <1>3, <1>6 DEF MerchantNet

LEMMA RowEffects ==
    ASSUME NEW row \in Row, NEW m \in Int
    PROVE  /\ [row EXCEPT !.balance = Int64(@ - m)] \in Row
           /\ [row EXCEPT !.balance = Int64(@ + m)] \in Row
<1>1. row.balance \in Int
  BY DEF Row, Int64s
<1>2. Int64(row.balance - m) \in Int64s /\ Int64(row.balance + m) \in Int64s
  BY <1>1, Int64Type
<1> QED
  BY <1>2 DEF Row

LEMMA RowsAndCalls ==
    ASSUME TypeOK
    PROVE  /\ \A a \in Accounts : /\ balances[a] \in Row /\ balances[a].version \in Nat
                                  /\ balances[a].balance \in Int64s
                                  /\ balances[a].balance \in Int
           /\ \A r \in Requests : call[r] \in Call /\ pc[r] \in Phases
BY DEF TypeOK, LedgerTypeOK, Row, Int64s

LEMMA InitEstablishesIInv == Init => IInv
<1> SUFFICES ASSUME Init PROVE IInv
  OBVIOUS
<1>1. /\ balances = [a \in Accounts |-> OpeningRow(a)] /\ transactions = {}
      /\ pc = [r \in Requests |-> "idle"] /\ plan = [r \in Requests |-> << >>]
      /\ step = [r \in Requests |-> 0] /\ call = [r \in Requests |-> NoCall]
      /\ checkouts = {} /\ refundRequests = {} /\ clock = 0
  BY DEF Init, LedgerInit
<1>2. \A a \in Accounts : OpeningRow(a) \in Row
  BY OpeningAssumption, WordAssumption DEF OpeningRow, Row, Int64s
<1>3. \A r \in Requests : Planned(r) = {} /\ Executed(r) = {}
  BY <1>1 DEF Planned, Executed
<1>4. LedgerTypeOK
  BY <1>1, <1>2 DEF LedgerTypeOK
<1>5. TypeOK
  BY <1>1, <1>4 DEF TypeOK, Phases, Ended, Call, NoCall
<1>6. LedgerInv
  BY <1>1, <1>3, <1>4 DEF LedgerInv, StepsAreInPlan, ReadsAreOld, Updates,
                          ExecutedReadsAreCurrent, LocksAreExclusive, Locked
<1>7. CallInv
  BY <1>1 DEF CallInv, CallsFollowPhases, WorkersRefund, CallReadsAreOld, NoCall, InProgress
<1>8. QueueInv
  BY <1>1, WorkersAssumption
     DEF QueueInv, RequestsAreDone, ClaimsAreExclusive, OneActiveRequest, PendingRequests
<1> QED
  BY <1>5, <1>6, <1>7, <1>8 DEF IInv

-----------------------------------------------------------------------------
(***************************************************************************)
(* The queue: a step that gives no worker a claim it did not have keeps    *)
(* it, if it answers nothing or a request that nobody claims any more.     *)
(***************************************************************************)
ClaimPhases == {"claimed", "checking", "writing"}

NoNewClaims ==
    /\ \A w \in Workers : pc'[w] \in ClaimPhases =>
          /\ pc[w] \in ClaimPhases
          /\ call'[w].op = call[w].op /\ call'[w].request = call[w].request
    /\ \A h \in Handlers : pc[h] = "done" => pc'[h] = "done"

LEMMA ClaimsStayExclusive ==
    ASSUME ClaimsAreExclusive, NoNewClaims,
           \A w \in Workers : pc'[w] \in ClaimPhases /\ call[w].request \in PendingRequests
              => call[w].request \in PendingRequests'
    PROVE  ClaimsAreExclusive'
<1> SUFFICES ASSUME NEW w \in Workers, pc'[w] \in ClaimPhases
             PROVE  /\ call'[w].request \in PendingRequests'
                    /\ \A o \in Workers \ {w} : ~ Claims(o, call[w].request)'
  BY DEF ClaimsAreExclusive, ClaimPhases
<1>1. /\ call[w].request \in PendingRequests /\ call'[w].request = call[w].request
      /\ \A o \in Workers \ {w} : ~ Claims(o, call[w].request)
  BY DEF ClaimsAreExclusive, NoNewClaims, ClaimPhases
<1>2. ASSUME NEW o \in Workers \ {w}, Claims(o, call[w].request)'
      PROVE  FALSE
  BY <1>1, <1>2 DEF Claims, NoNewClaims, ClaimPhases
<1> QED
  BY <1>1, <1>2

LEMMA QueueUnchanged ==
    ASSUME QueueInv, NoNewClaims, refundRequests' = refundRequests
    PROVE  QueueInv'
<1>1. PendingRequests' = PendingRequests
  BY DEF PendingRequests
<1>2. ClaimsAreExclusive'
  BY <1>1, ClaimsStayExclusive DEF QueueInv
<1>3. RequestsAreDone' /\ OneActiveRequest'
  BY <1>1 DEF QueueInv, RequestsAreDone, OneActiveRequest, NoNewClaims
<1> QED
  BY <1>2, <1>3 DEF QueueInv

LEMMA QueueAnswered ==
    ASSUME TypeOK, QueueInv, NoNewClaims, NEW q, NEW status \in {"completed", "failed"},
           refundRequests' = WithStatus(q, status),
           \A w \in Workers : pc'[w] \in ClaimPhases => call[w].request.id # q.id
    PROVE  QueueInv' /\ refundRequests' \subseteq RefundRequest
<1>1. \A p \in refundRequests : p \in RefundRequest
  BY DEF TypeOK
<1>2. \A p \in refundRequests' : \E o \in refundRequests :
          /\ p \in RefundRequest /\ p.id = o.id /\ p.reference = o.reference
          /\ p = IF o.id = q.id THEN [o EXCEPT !.status = status] ELSE o
          /\ o.id # q.id => p = o
          /\ o.id = q.id => p.status = status
  BY <1>1 DEF WithStatus, RefundRequest
<1>3. PendingRequests' \subseteq PendingRequests
  BY <1>2 DEF PendingRequests
<1>4. \A p \in PendingRequests : p.id # q.id => p \in PendingRequests'
  BY DEF PendingRequests, WithStatus
<1>5. ClaimsAreExclusive'
  BY <1>4, ClaimsStayExclusive DEF QueueInv
<1>6. OneActiveRequest'
  BY <1>3 DEF QueueInv, OneActiveRequest
<1>7. RequestsAreDone'
  <2>1. ASSUME NEW p \in refundRequests', NEW o \in refundRequests', p.id = o.id
        PROVE  p = o
    BY <1>2, <2>1 DEF QueueInv, RequestsAreDone
  <2>2. ASSUME NEW p \in refundRequests'
        PROVE  p.id \in Handlers /\ pc'[p.id] = "done"
    BY <1>2, <2>2 DEF QueueInv, RequestsAreDone, NoNewClaims
  <2> QED
    BY <2>1, <2>2 DEF RequestsAreDone
<1> QED
  BY <1>2, <1>5, <1>6, <1>7 DEF QueueInv

-----------------------------------------------------------------------------
(***************************************************************************)
(* A request that has read a row or claimed a request: Pay, MerchantRead,  *)
(* RequestRefund, ClaimPending, RefundRead.                                *)
(***************************************************************************)
LEMMA EnterKeepsIInv ==
    ASSUME IInv, NEW r \in Requests, pc[r] \notin {"writing", "done"},
           NEW phase \in Phases, NEW c \in Call, Enter(r, phase, c),
           UNCHANGED <<balances, transactions, plan, step, checkouts, refundRequests>>,
           clock' \in Nat,
           phase \in {"sourceRead", "merchantRead", "requesting", "claimed", "checking"},
           c.op = "refund" <=> r \in Workers,
           phase \in {"sourceRead", "merchantRead"} =>
               /\ Sufficient(c.source, c.session.amount)
               /\ UpToDate(c.source, c.account),
           phase = "sourceRead" => c \in PayCall,
           phase = "merchantRead" =>
               c \in PayeeCall /\ UpToDate(c.merchant, c.session.merchant),
           phase = "requesting" => c \in RequestCall,
           phase = "claimed" => c \in ClaimCall,
           phase = "checking" =>
               c \in CheckCall /\ UpToDate(c.payer, c.payment.destination),
           QueueInv'
    PROVE  IInv'
<1>1. /\ pc'[r] = phase /\ call'[r] = c
      /\ \A o \in Requests \ {r} : pc'[o] = pc[o] /\ call'[o] = call[o]
      /\ pc' = [pc EXCEPT ![r] = phase] /\ call' = [call EXCEPT ![r] = c]
  BY DEF Enter, IInv, TypeOK
<1>2. LedgerInv'
  BY LedgerUnchanged DEF IInv
<1>3. TypeOK'
  BY <1>1, <1>2 DEF IInv, TypeOK, LedgerInv
<1>4. step[r] = 0
  BY DEF IInv, CallInv, CallsFollowPhases
<1>5. CallsFollowPhases'
  BY <1>1, <1>4 DEF IInv, CallInv, CallsFollowPhases, Sufficient
<1>6. WorkersRefund'
  BY <1>1 DEF IInv, CallInv, WorkersRefund, InProgress
<1>7. CallReadsAreOld'
  BY <1>1 DEF IInv, CallInv, CallReadsAreOld, UpToDate
<1> QED
  BY <1>2, <1>3, <1>5, <1>6, <1>7 DEF IInv, CallInv

(***************************************************************************)
(* The claim is new only in ClaimPending.                                  *)
(***************************************************************************)
LEMMA HandlersClaimNothing ==
    ASSUME IInv, NEW r \in Handlers, pc[r] # "done", NEW phase, NEW c,
           Enter(r, phase, c), refundRequests' = refundRequests
    PROVE  QueueInv'
<1>1. NoNewClaims
  BY WorkersAssumption DEF Enter, NoNewClaims, Handlers, IInv, TypeOK
<1> QED
  BY <1>1, QueueUnchanged DEF IInv

LEMMA PayKeepsIInv ==
    ASSUME IInv, NEW r \in Handlers, NEW a \in Customers, NEW session \in Checkout,
           Pay(r, a, session)
    PROVE  IInv'
<1> DEFINE c == [op |-> "pay", account |-> a, session |-> session, source |-> balances[a]]
<1>1. r \in Requests /\ r \notin Workers /\ balances[a] \in Row /\ UpToDate(balances[a], a)
  BY RowsAndCalls, CustomersAreAccounts, CurrentRowIsUpToDate DEF IInv, Handlers
<1>2. c \in PayCall /\ c \in Call /\ c.op # "refund"
  BY <1>1 DEF PayCall, Call
<1>3. Enter(r, "sourceRead", c) /\ pc[r] = "idle" /\ Sufficient(c.source, c.session.amount)
  BY DEF Pay
<1>4. QueueInv'
  BY <1>1, <1>3, HandlersClaimNothing DEF Pay
<1>5. clock' \in Nat
  BY DEF Pay, IInv, TypeOK
<1> QED
  BY <1>1, <1>2, <1>3, <1>4, <1>5, EnterKeepsIInv DEF Pay, Phases

LEMMA MerchantReadKeepsIInv ==
    ASSUME IInv, NEW r \in Handlers, MerchantRead(r)
    PROVE  IInv'
<1> DEFINE d == call[r]
           to == d.session.merchant
           c == [op |-> "pay", account |-> d.account, session |-> d.session,
                 source |-> d.source, merchant |-> balances[to]]
<1>1. r \in Requests /\ r \notin Workers /\ pc[r] = "sourceRead" /\ Enter(r, "merchantRead", c)
  BY DEF MerchantRead, Handlers
<1>2. /\ d \in PayCall /\ Sufficient(d.source, d.session.amount)
      /\ UpToDate(d.source, d.account)
  BY <1>1 DEF IInv, CallInv, CallsFollowPhases, CallReadsAreOld
<1>3. to \in Accounts
  BY <1>2, CustomersAreAccounts DEF PayCall, Checkout
<1>4. balances[to] \in Row /\ UpToDate(balances[to], to)
  BY <1>3, RowsAndCalls, CurrentRowIsUpToDate DEF IInv
<1>5. c \in PayeeCall /\ c \in Call /\ c.op # "refund"
  BY <1>2, <1>4 DEF PayCall, PayeeCall, Call
<1>6. QueueInv'
  BY <1>1, HandlersClaimNothing DEF MerchantRead
<1>7. clock' \in Nat
  BY DEF MerchantRead, IInv, TypeOK
<1> QED
  BY <1>1, <1>2, <1>4, <1>5, <1>6, <1>7, EnterKeepsIInv DEF MerchantRead, Phases

LEMMA RequestRefundKeepsIInv ==
    ASSUME IInv, NEW r \in Handlers, NEW reference \in ReferencesOf(transactions),
           RequestRefund(r, reference)
    PROVE  IInv'
<1> DEFINE c == [op |-> "request", reference |-> reference, createdAt |-> clock]
<1>1. r \in Requests /\ r \notin Workers /\ pc[r] = "idle" /\ Enter(r, "requesting", c)
  BY DEF RequestRefund, Handlers
<1>2. reference \in References
  BY DEF ReferencesOf, IInv, TypeOK, LedgerTypeOK, Transaction
<1>3. c \in RequestCall /\ c \in Call /\ c.op # "refund"
  BY <1>2 DEF RequestCall, Call, IInv, TypeOK
<1>4. QueueInv'
  BY <1>1, HandlersClaimNothing DEF RequestRefund
<1>5. clock' \in Nat
  BY DEF RequestRefund, IInv, TypeOK
<1> QED
  BY <1>1, <1>3, <1>4, <1>5, EnterKeepsIInv DEF RequestRefund, Phases

(***************************************************************************)
(* SKIP LOCKED: what a worker claims, no other has claimed.                *)
(***************************************************************************)
LEMMA ClaimPendingKeepsIInv ==
    ASSUME IInv, NEW w \in Workers, ClaimPending(w)
    PROVE  IInv'
<1>1. PICK q \in PendingRequests :
          Claimable(q) /\ Enter(w, "claimed", [op |-> "refund", request |-> q])
  BY DEF ClaimPending, Oldest
<1> DEFINE c == [op |-> "refund", request |-> q]
<1>2. w \in Requests /\ pc[w] = "idle" /\ w \notin Handlers
  BY WorkersAssumption DEF ClaimPending, Handlers
<1>3. q \in RefundRequest /\ c \in ClaimCall /\ c \in Call
  BY DEF PendingRequests, IInv, TypeOK, ClaimCall, Call
<1>4. /\ pc'[w] = "claimed" /\ call'[w] = c
      /\ \A o \in Requests \ {w} : pc'[o] = pc[o] /\ call'[o] = call[o]
      /\ refundRequests' = refundRequests /\ PendingRequests' = PendingRequests
  BY <1>1, <1>2 DEF Enter, IInv, TypeOK, ClaimPending, PendingRequests
<1>5. \A o \in Workers \ {w} : o \in Requests /\ pc'[o] = pc[o] /\ call'[o] = call[o]
  BY <1>4, WorkersAssumption
<1>6. ClaimsAreExclusive'
  <2> SUFFICES ASSUME NEW o \in Workers, pc'[o] \in ClaimPhases
               PROVE  /\ call'[o].request \in PendingRequests'
                      /\ \A v \in Workers \ {o} : ~ Claims(v, call[o].request)'
    BY DEF ClaimsAreExclusive, ClaimPhases
  <2>1. CASE o = w
    BY <1>1, <1>4, <1>5, <2>1 DEF Claimable, Claims
  <2>2. CASE o # w
    <3>1. /\ pc[o] \in ClaimPhases /\ call[o].request \in PendingRequests
          /\ \A v \in Workers \ {o} : ~ Claims(v, call[o].request)
      BY <1>5, <2>2 DEF IInv, QueueInv, ClaimsAreExclusive, ClaimPhases
    <3>2. call[o].op = "refund"
      BY <1>5, <2>2, <3>1 DEF IInv, CallInv, WorkersRefund, InProgress, ClaimPhases, Ended
    <3>3. call[o].request # q
      BY <1>1, <2>2, <3>1, <3>2 DEF Claimable, Claims, ClaimPhases
    <3> QED
      BY <1>4, <1>5, <2>2, <3>1, <3>3 DEF Claims
  <2> QED
    BY <2>1, <2>2
<1>7. QueueInv'
  BY <1>2, <1>4, <1>6 DEF IInv, QueueInv, RequestsAreDone, OneActiveRequest, Handlers
<1>8. clock' \in Nat
  BY DEF ClaimPending, IInv, TypeOK
<1> QED
  BY <1>1, <1>2, <1>3, <1>7, <1>8, EnterKeepsIInv DEF ClaimPending, Phases

LEMMA RefundReadKeepsIInv ==
    ASSUME IInv, NEW w \in Workers, RefundRead(w)
    PROVE  IInv'
<1>1. PICK t \in transactions :
          Enter(w, "checking", [op |-> "refund", request |-> call[w].request,
                                payment |-> t, payer |-> balances[t.destination]])
  BY DEF RefundRead, ByReference
<1> DEFINE c == [op |-> "refund", request |-> call[w].request,
                 payment |-> t, payer |-> balances[t.destination]]
<1>2. w \in Requests /\ w \notin Handlers /\ pc[w] = "claimed" /\ call[w] \in ClaimCall
  BY WorkersAssumption DEF RefundRead, Handlers, IInv, CallInv, CallsFollowPhases
<1>3. t \in Transaction /\ t.destination \in Accounts
  BY DEF IInv, TypeOK, LedgerTypeOK, Transaction
<1>4. balances[t.destination] \in Row /\ UpToDate(balances[t.destination], t.destination)
  BY <1>3, RowsAndCalls, CurrentRowIsUpToDate DEF IInv
<1>5. c \in CheckCall /\ c \in Call
  BY <1>2, <1>3, <1>4 DEF ClaimCall, CheckCall, Call
<1>6. NoNewClaims
  <2>1. /\ pc'[w] = "checking" /\ call'[w] = c
        /\ \A o \in Requests \ {w} : pc'[o] = pc[o] /\ call'[o] = call[o]
    BY <1>1, <1>2 DEF Enter, IInv, TypeOK
  <2> QED
    BY <1>2, <2>1, WorkersAssumption DEF NoNewClaims, ClaimPhases, ClaimCall, Handlers
<1>7. QueueInv'
  BY <1>6, QueueUnchanged DEF RefundRead, IInv
<1>8. clock' \in Nat
  BY DEF RefundRead, IInv, TypeOK
<1> QED
  BY <1>1, <1>2, <1>4, <1>5, <1>7, <1>8, EnterKeepsIInv DEF RefundRead, Phases

-----------------------------------------------------------------------------
(***************************************************************************)
(* A transaction that has read and checked all it needs.                   *)
(***************************************************************************)
LEMMA BeginKeepsIInv ==
    ASSUME IInv, NEW r \in Requests, pc[r] \in {"merchantRead", "checking"},
           NEW statements \in Seq(Statement), Begin(r, statements),
           UNCHANGED <<call, checkouts, refundRequests, clock>>,
           \A i \in 1..Len(statements) : statements[i].table = "balances" =>
               UpToDate(statements[i].read, statements[i].account)
    PROVE  IInv'
<1>1. /\ balances' = balances /\ transactions' = transactions /\ step' = step
      /\ plan' = [plan EXCEPT ![r] = statements]
      /\ pc' = [pc EXCEPT ![r] = "writing"]
  BY DEF Begin
<1>2. /\ plan'[r] = statements /\ pc'[r] = "writing"
      /\ \A o \in Requests \ {r} : plan'[o] = plan[o] /\ pc'[o] = pc[o]
  BY <1>1 DEF IInv, TypeOK, LedgerTypeOK
<1>3. step[r] = 0
  BY DEF IInv, CallInv, CallsFollowPhases
<1>4. LedgerInv'
  BY <1>3, BeginPreservesLedger DEF IInv
<1>5. TypeOK'
  BY <1>1, <1>4 DEF IInv, TypeOK, LedgerInv, Phases
<1>6. CallsFollowPhases'
  BY <1>1, <1>2 DEF IInv, CallInv, CallsFollowPhases, Sufficient
<1>7. WorkersRefund' /\ CallReadsAreOld'
  BY <1>1, <1>2 DEF IInv, CallInv, WorkersRefund, InProgress, Ended, CallReadsAreOld, UpToDate
<1>8. NoNewClaims
  <2>1. r \in Workers => pc[r] = "checking"
    <3>1. pc[r] = "merchantRead" => call[r] \in PayeeCall
      BY DEF IInv, CallInv, CallsFollowPhases
    <3>2. r \in Workers => call[r].op = "refund"
      BY DEF IInv, CallInv, WorkersRefund, InProgress, Ended
    <3> QED
      BY <3>1, <3>2 DEF PayeeCall
  <2> QED
    BY <1>2, <2>1, WorkersAssumption DEF NoNewClaims, ClaimPhases, Handlers
<1> QED
  BY <1>4, <1>5, <1>6, <1>7, <1>8, QueueUnchanged DEF IInv, CallInv

LEMMA RevenueReadKeepsIInv ==
    ASSUME IInv, NEW r \in Handlers, RevenueRead(r)
    PROVE  IInv'
<1> DEFINE c == call[r]
           m == c.session.amount
           to == c.session.merchant
           revenue == balances[Revenue]
           debited == [c.source EXCEPT !.balance = Int64(@ - m)]
           credited == [c.merchant EXCEPT !.balance = Int64(@ + MerchantNet(m))]
           charged == [revenue EXCEPT !.balance = Int64(@ + CalculateFeeCeil(m))]
           p == << Insert(Payment(r, c)), Insert(PlatformFee(r, c)),
                   Update(c.account, c.source, debited),
                   Update(to, c.merchant, credited),
                   Update(Revenue, revenue, charged) >>
<1>1. /\ r \in Requests /\ pc[r] = "merchantRead" /\ Begin(r, p)
      /\ UNCHANGED <<call, checkouts, refundRequests, clock>>
  BY DEF RevenueRead, PayPlan, Handlers
<1>2. /\ c \in PayeeCall
      /\ UpToDate(c.source, c.account) /\ UpToDate(c.merchant, to)
  BY <1>1 DEF IInv, CallInv, CallsFollowPhases, CallReadsAreOld
<1>3. /\ c.account \in Accounts /\ to \in Accounts /\ m \in Int64s
      /\ c.source \in Row /\ c.merchant \in Row
  BY <1>2, CustomersAreAccounts DEF PayeeCall, Checkout
<1>4. revenue \in Row /\ UpToDate(revenue, Revenue) /\ Revenue \in Accounts
  BY RowsAndCalls, CustomersAreAccounts, CurrentRowIsUpToDate DEF IInv
<1>5. CalculateFeeCeil(m) \in Int /\ MerchantNet(m) \in Int /\ m \in Int
  BY <1>3, FeeBounds DEF Int64s
<1>6. /\ debited \in Row /\ credited \in Row /\ charged \in Row
  BY <1>3, <1>4, <1>5, RowEffects
<1>7. Payment(r, c) \in Transaction /\ PlatformFee(r, c) \in Transaction
  <2>1. /\ Reference("payment", r) \in References /\ Reference("revenue", r) \in References
        /\ "applied" \in Statuses
    BY <1>1, TransactionTypes DEF Prefixes, Statuses
  <2>2. Payment(r, c) \in Transaction
    BY <1>3, <1>5, <2>1, TransactionTypes DEF Payment
  <2> DEFINE t == Transfers(Reference("revenue", r), c.account, Revenue,
                            CalculateFeeCeil(m), "applied")
  <2>3. t \in Transaction
    BY <1>3, <1>4, <1>5, <2>1, TransactionTypes
  <2>4. PlatformFee(r, c) = [t EXCEPT !.parent = Reference("payment", r)]
    BY DEF PlatformFee
  <2> HIDE DEF t
  <2>5. PlatformFee(r, c) \in Transaction
    BY <2>1, <2>3, <2>4 DEF Transaction
  <2> QED
    BY <2>2, <2>5
<1> HIDE DEF c, m, to, revenue, debited, credited, charged
<1>8. /\ p \in Seq(Statement) /\ Len(p) = 5
      /\ p[1].table = "transactions" /\ p[2].table = "transactions"
      /\ p[3].account = c.account /\ p[3].read = c.source /\ p[3].row = debited
      /\ p[4].account = to /\ p[4].read = c.merchant /\ p[4].row = credited
      /\ p[5].account = Revenue /\ p[5].read = revenue /\ p[5].row = charged
  BY <1>3, <1>4, <1>6, <1>7, StatementTypes
<1> HIDE DEF p
<1>9. \A i \in 1..Len(p) : p[i].table = "balances" =>
          UpToDate(p[i].read, p[i].account)
  <2> SUFFICES ASSUME NEW i \in 1..Len(p), p[i].table = "balances"
               PROVE  UpToDate(p[i].read, p[i].account)
    OBVIOUS
  <2>1. i = 3 \/ i = 4 \/ i = 5
    BY <1>8
  <2> QED
    BY <1>2, <1>4, <1>8, <2>1
<1> QED
  BY <1>1, <1>8, <1>9, BeginKeepsIInv

LEMMA RefundPlannedKeepsIInv ==
    ASSUME IInv, NEW w \in Workers, RefundPlanned(w)
    PROVE  IInv'
<1> DEFINE c == call[w]
           t == c.payment
           receiver == balances[t.source]
           debited == [c.payer EXCEPT !.balance = Int64(@ - t.amount)]
           credited == [receiver EXCEPT !.balance = Int64(@ + t.amount)]
           p == << Update(t.destination, c.payer, debited),
                   Update(t.source, receiver, credited),
                   Insert(RefundOf(c.request, t)) >>
<1>1. /\ w \in Requests /\ pc[w] = "checking" /\ Begin(w, p)
      /\ UNCHANGED <<call, checkouts, refundRequests, clock>>
  BY WorkersAssumption DEF RefundPlanned, RefundPlan
<1>2. c \in CheckCall /\ UpToDate(c.payer, t.destination)
  BY <1>1 DEF IInv, CallInv, CallsFollowPhases, CallReadsAreOld
<1>3. /\ t \in Transaction /\ c.payer \in Row /\ c.request.reference \in References
      /\ t.destination \in Accounts /\ t.source \in Accounts /\ t.amount \in Int
      /\ t.reference \in References
  BY <1>2 DEF CheckCall, Transaction, RefundRequest, Int64s
<1>4. receiver \in Row /\ UpToDate(receiver, t.source)
  BY <1>3, RowsAndCalls, CurrentRowIsUpToDate DEF IInv
<1>5. debited \in Row /\ credited \in Row
  BY <1>3, <1>4, RowEffects
<1>6. RefundOf(c.request, t) \in Transaction
  <2>1. RefundReference(c.request) \in References
    BY <1>3 DEF RefundReference, References
  <2> QED
    BY <1>3, <2>1 DEF RefundOf, Transaction, Statuses
<1> HIDE DEF c, t, receiver, debited, credited
<1>7. /\ p \in Seq(Statement) /\ Len(p) = 3
      /\ p[1].account = t.destination /\ p[1].read = c.payer /\ p[1].row = debited
      /\ p[2].account = t.source /\ p[2].read = receiver /\ p[2].row = credited
      /\ p[3].table = "transactions"
  BY <1>3, <1>4, <1>5, <1>6, StatementTypes
<1> HIDE DEF p
<1>8. \A i \in 1..Len(p) : p[i].table = "balances" =>
          UpToDate(p[i].read, p[i].account)
  <2> SUFFICES ASSUME NEW i \in 1..Len(p), p[i].table = "balances"
               PROVE  UpToDate(p[i].read, p[i].account)
    OBVIOUS
  <2>1. i = 1 \/ i = 2
    BY <1>7
  <2> QED
    BY <1>2, <1>4, <1>7, <2>1
<1> QED
  BY <1>1, <1>7, <1>8, BeginKeepsIInv

-----------------------------------------------------------------------------
(***************************************************************************)
(* The statements of a transaction.                                        *)
(***************************************************************************)
LEMMA ExecuteKeepsIInv ==
    ASSUME IInv, NEW r \in Requests, UpdateBalance(r) \/ Record(r),
           UNCHANGED <<call, checkouts, refundRequests, clock>>
    PROVE  IInv'
<1>1. Pending(r) /\ Execute(r)
  BY DEF UpdateBalance, Record
<1>2. /\ balances' = balances /\ pc' = pc /\ plan' = plan
      /\ step' = [step EXCEPT ![r] = @ + 1] /\ pc[r] = "writing"
  BY <1>1 DEF Execute, Pending
<1>3. LedgerInv'
  BY UpdatePreservesLedger, RecordPreservesLedger DEF IInv
<1>4. TypeOK'
  BY <1>2, <1>3 DEF IInv, TypeOK, LedgerInv
<1>5. CallsFollowPhases'
  <2>1. \A o \in Requests : pc[o] # "writing" => step'[o] = step[o]
    BY <1>2 DEF IInv, TypeOK, LedgerTypeOK
  <2> QED
    BY <1>2, <2>1 DEF IInv, CallInv, CallsFollowPhases, Sufficient
<1>6. WorkersRefund' /\ CallReadsAreOld'
  BY <1>2 DEF IInv, CallInv, WorkersRefund, InProgress, CallReadsAreOld, UpToDate
<1>7. QueueInv'
  BY <1>2, QueueUnchanged DEF IInv, NoNewClaims
<1> QED
  BY <1>3, <1>4, <1>5, <1>6, <1>7 DEF IInv, CallInv

(***************************************************************************)
(* A request or a worker's try that ends, with a rollback, a commit or a   *)
(* statement of its own.                                                   *)
(***************************************************************************)
LEMMA EndKeepsIInv ==
    ASSUME IInv, NEW r \in Requests, NEW phase \in Ended,
           Leave(r), pc' = [pc EXCEPT ![r] = phase],
           step'[r] = 0, \A o \in Requests \ {r} : step'[o] = step[o],
           LedgerInv', QueueInv',
           checkouts' = checkouts, refundRequests' \subseteq RefundRequest, clock' = clock,
           \A a \in Accounts, read \in Row : UpToDate(read, a) => UpToDate(read, a)'
    PROVE  IInv'
<1>1. /\ call'[r] = NoCall /\ pc'[r] = phase
      /\ \A o \in Requests \ {r} : call'[o] = call[o] /\ pc'[o] = pc[o]
  BY DEF IInv, TypeOK, Leave
<1>2. TypeOK'
  BY DEF IInv, TypeOK, LedgerInv, Leave, Phases, Call
<1>3. CallsFollowPhases'
  BY <1>1 DEF IInv, CallInv, CallsFollowPhases, Sufficient, Ended
<1>4. WorkersRefund'
  BY <1>1 DEF IInv, CallInv, WorkersRefund, InProgress, NoCall
<1>5. CallReadsAreOld'
  <2> SUFFICES ASSUME NEW o \in Requests, o # r
               PROVE  /\ pc[o] \in {"sourceRead", "merchantRead"} =>
                             UpToDate(call[o].source, call[o].account)'
                      /\ pc[o] = "merchantRead" =>
                             UpToDate(call[o].merchant, call[o].session.merchant)'
                      /\ pc[o] = "checking" =>
                             UpToDate(call[o].payer, call[o].payment.destination)'
    BY <1>1 DEF CallReadsAreOld, Ended
  <2>1. call'[o] = call[o]
    BY <1>1
  <2>2. ASSUME NEW a \in Accounts, NEW read \in Row, UpToDate(read, a)
        PROVE  read.version <= balances'[a].version
                 /\ (read.version = balances'[a].version => read = balances'[a])
    BY <2>2 DEF UpToDate
  <2>3. CASE pc[o] \in {"sourceRead", "merchantRead"}
    <3>1. call[o] \in PayCall \cup PayeeCall /\ UpToDate(call[o].source, call[o].account)
      BY <2>3 DEF IInv, CallInv, CallsFollowPhases, CallReadsAreOld
    <3>2. call[o].source \in Row /\ call[o].account \in Accounts
      BY <3>1, CustomersAreAccounts DEF PayCall, PayeeCall
    <3>3. UpToDate(call[o].source, call[o].account)'
      BY <2>1, <2>2, <3>1, <3>2 DEF UpToDate
    <3>4. ASSUME pc[o] = "merchantRead"
          PROVE  UpToDate(call[o].merchant, call[o].session.merchant)'
      <4>1. /\ call[o] \in PayeeCall
            /\ UpToDate(call[o].merchant, call[o].session.merchant)
        BY <3>4 DEF IInv, CallInv, CallsFollowPhases, CallReadsAreOld
      <4>2. call[o].merchant \in Row /\ call[o].session.merchant \in Accounts
        BY <4>1, CustomersAreAccounts DEF PayeeCall, Checkout
      <4> QED
        BY <2>1, <2>2, <4>1, <4>2 DEF UpToDate
    <3> QED
      BY <2>3, <3>3, <3>4
  <2>4. CASE pc[o] = "checking"
    <3>1. call[o] \in CheckCall /\ UpToDate(call[o].payer, call[o].payment.destination)
      BY <2>4 DEF IInv, CallInv, CallsFollowPhases, CallReadsAreOld
    <3>2. call[o].payer \in Row /\ call[o].payment.destination \in Accounts
      BY <3>1 DEF CheckCall, Transaction
    <3> QED
      BY <2>1, <2>2, <2>4, <3>1, <3>2 DEF UpToDate
  <2> QED
    BY <2>3, <2>4
<1> QED
  BY <1>2, <1>3, <1>4, <1>5 DEF IInv, CallInv

LEMMA EndsClaimNothing ==
    ASSUME IInv, NEW r \in Requests, NEW phase \in Ended, pc[r] # "done",
           Leave(r), pc' = [pc EXCEPT ![r] = phase]
    PROVE  NoNewClaims
BY WorkersAssumption DEF NoNewClaims, ClaimPhases, Ended, Leave, IInv, TypeOK, Handlers

LEMMA ReturnKeepsIInv ==
    ASSUME IInv, NEW r \in Requests, pc[r] # "done", Return(r)
    PROVE  IInv'
<1>1. /\ Ends(r) /\ pc' = [pc EXCEPT ![r] = "failed"] /\ Leave(r)
      /\ balances' = balances /\ Rollback(r)
      /\ checkouts' = checkouts /\ refundRequests' = refundRequests /\ clock' = clock
  BY DEF Return, Rollback, Ends
<1>2. LedgerInv'
  BY <1>1, RollbackPreservesLedger DEF IInv
<1>3. QueueInv'
  BY <1>1, EndsClaimNothing, QueueUnchanged DEF IInv, Ended
<1>4. /\ step'[r] = 0 /\ \A o \in Requests \ {r} : step'[o] = step[o]
      /\ \A a \in Accounts, read \in Row : UpToDate(read, a) => UpToDate(read, a)'
      /\ refundRequests' \subseteq RefundRequest /\ "failed" \in Ended
  BY <1>1 DEF Ends, IInv, TypeOK, LedgerTypeOK, UpToDate, Ended
<1> QED
  BY <1>1, <1>2, <1>3, <1>4, EndKeepsIInv

LEMMA FinishKeepsIInv ==
    ASSUME IInv, NEW r \in Requests, Finish(r)
    PROVE  IInv'
<1>1. /\ Commit(r) /\ Leave(r) /\ pc[r] = "writing" /\ Ends(r)
      /\ pc' = [pc EXCEPT ![r] = "done"] /\ "done" \in Ended
      /\ checkouts' = checkouts /\ clock' = clock
  BY DEF Finish, Commit, Ends, Ended
<1>2. LedgerInv'
  BY <1>1, CommitPreservesLedger DEF IInv
<1>3. NoNewClaims
  BY <1>1, EndsClaimNothing
<1>4. QueueInv' /\ refundRequests' \subseteq RefundRequest
  <2>1. CASE call[r].op = "refund"
    <3> DEFINE q == call[r].request
    <3>1. r \in Workers /\ q \in PendingRequests
      BY <1>1, <2>1 DEF IInv, CallInv, WorkersRefund, QueueInv, ClaimsAreExclusive
    <3>2. ASSUME NEW w \in Workers, pc'[w] \in ClaimPhases
          PROVE  call[w].request.id # q.id
      <4>1. w # r /\ pc[w] \in ClaimPhases
        BY <1>1, <3>2, WorkersAssumption DEF IInv, TypeOK, ClaimPhases
      <4>2. call[w].request \in PendingRequests /\ ~ Claims(r, call[w].request)
        BY <3>1, <4>1 DEF IInv, QueueInv, ClaimsAreExclusive, ClaimPhases
      <4>3. call[w].request # q
        BY <1>1, <2>1, <4>2 DEF Claims
      <4> QED
        BY <3>1, <4>2, <4>3 DEF PendingRequests, IInv, QueueInv, RequestsAreDone
    <3>3. refundRequests' = WithStatus(q, "completed")
      BY <2>1 DEF Finish, MarkCompleted
    <3> HIDE DEF q
    <3> QED
      BY <1>3, <3>2, <3>3, QueueAnswered DEF IInv
  <2>2. CASE call[r].op # "refund"
    BY <1>3, <2>2, QueueUnchanged DEF Finish, IInv, TypeOK
  <2> QED
    BY <2>1, <2>2
<1>5. /\ step'[r] = 0 /\ \A o \in Requests \ {r} : step'[o] = step[o]
      /\ \A a \in Accounts, read \in Row : UpToDate(read, a) => UpToDate(read, a)'
  BY <1>1, CommitKeepsReadsOld DEF Ends, IInv, TypeOK, LedgerTypeOK
<1> QED
  BY <1>1, <1>2, <1>4, <1>5, EndKeepsIInv

(***************************************************************************)
(* MarkFailed waits for whoever has claimed the request meanwhile.         *)
(***************************************************************************)
LEMMA MarkFailedKeepsIInv ==
    ASSUME IInv, NEW w \in Workers, MarkFailed(w)
    PROVE  IInv'
<1> DEFINE q == call[w].request
<1>1. /\ w \in Requests /\ pc[w] = "insufficient" /\ Leave(w)
      /\ pc' = [pc EXCEPT ![w] = "failed"] /\ "failed" \in Ended
      /\ UNCHANGED <<balances, transactions, plan, step>>
      /\ checkouts' = checkouts /\ clock' = clock
      /\ refundRequests' = WithStatus(q, "failed")
  BY WorkersAssumption DEF MarkFailed, Ended
<1>2. LedgerInv'
  BY <1>1, LedgerUnchanged DEF IInv
<1>3. NoNewClaims
  BY <1>1, EndsClaimNothing
<1>4. ASSUME NEW o \in Workers, pc'[o] \in ClaimPhases
      PROVE  call[o].request.id # q.id
  <2>1. o \in Requests /\ pc[o] \in ClaimPhases
    BY <1>3, <1>4, WorkersAssumption DEF NoNewClaims
  <2>2. call[o].request \in refundRequests
    BY <2>1 DEF IInv, QueueInv, ClaimsAreExclusive, ClaimPhases, PendingRequests
  <2>3. call[o].op = "refund"
    BY <2>1 DEF IInv, CallInv, WorkersRefund, InProgress, ClaimPhases, Ended
  <2>4. ~ Claimable(call[o].request)
    BY <2>1, <2>3 DEF Claimable, Claims, ClaimPhases
  <2> QED
    BY <2>2, <2>4 DEF MarkFailed
<1> HIDE DEF q
<1>5. QueueInv' /\ refundRequests' \subseteq RefundRequest
  BY <1>1, <1>3, <1>4, QueueAnswered DEF IInv
<1>6. /\ step'[w] = 0 /\ \A o \in Requests \ {w} : step'[o] = step[o]
      /\ \A a \in Accounts, read \in Row : UpToDate(read, a) => UpToDate(read, a)'
  BY <1>1 DEF IInv, CallInv, CallsFollowPhases, UpToDate
<1> QED
  BY <1>1, <1>2, <1>5, <1>6, EndKeepsIInv

(***************************************************************************)
(* CreateRequest inserts a request that is new and the only pending one.   *)
(***************************************************************************)
LEMMA CreateRequestKeepsIInv ==
    ASSUME IInv, NEW r \in Handlers, CreateRequest(r)
    PROVE  IInv'
<1> DEFINE n == [id |-> r, reference |-> call[r].reference,
                 createdAt |-> call[r].createdAt, status |-> "pending"]
<1>1. /\ r \in Requests /\ r \notin Workers /\ pc[r] = "requesting" /\ Leave(r)
      /\ pc' = [pc EXCEPT ![r] = "done"] /\ "done" \in Ended
      /\ UNCHANGED <<balances, transactions, plan, step>>
      /\ checkouts' = checkouts /\ clock' = clock
      /\ refundRequests' = refundRequests \cup {n}
      /\ NoneActive(call[r].reference)
  BY DEF CreateRequest, Handlers, Ended
<1>2. call[r] \in RequestCall
  BY <1>1 DEF IInv, CallInv, CallsFollowPhases
<1>3. /\ n \in RefundRequest /\ n.id = r /\ n.status = "pending"
      /\ n.reference = call[r].reference
  BY <1>1, <1>2 DEF RequestCall, RefundRequest
<1> HIDE DEF n
<1>4. \A q \in refundRequests : q.id # r
  BY <1>1 DEF IInv, QueueInv, RequestsAreDone
<1>5. PendingRequests' = PendingRequests \cup {n}
  BY <1>1, <1>3 DEF PendingRequests
<1>6. NoNewClaims
  BY <1>1, EndsClaimNothing
<1>7. ClaimsAreExclusive'
  BY <1>5, <1>6, ClaimsStayExclusive DEF IInv, QueueInv
<1>8. OneActiveRequest'
  BY <1>1, <1>3, <1>5 DEF IInv, QueueInv, OneActiveRequest, NoneActive, ActiveFor
<1>9. RequestsAreDone'
  <2>1. \A p, q \in refundRequests' : p.id = q.id => p = q
    BY <1>1, <1>3, <1>4 DEF IInv, QueueInv, RequestsAreDone
  <2>2. pc'[r] = "done"
    BY <1>1 DEF IInv, TypeOK
  <2>3. \A q \in refundRequests' : q.id \in Handlers /\ pc'[q.id] = "done"
    BY <1>1, <1>3, <1>6, <2>2 DEF IInv, QueueInv, RequestsAreDone, NoNewClaims
  <2> QED
    BY <2>1, <2>3 DEF RequestsAreDone
<1>10. LedgerInv'
  BY <1>1, LedgerUnchanged DEF IInv
<1>11. /\ step'[r] = 0 /\ \A o \in Requests \ {r} : step'[o] = step[o]
       /\ \A a \in Accounts, read \in Row : UpToDate(read, a) => UpToDate(read, a)'
       /\ refundRequests' \subseteq RefundRequest
  BY <1>1, <1>3 DEF IInv, TypeOK, CallInv, CallsFollowPhases, UpToDate
<1> QED
  BY <1>1, <1>7, <1>8, <1>9, <1>10, <1>11, EndKeepsIInv DEF QueueInv

(***************************************************************************)
(* The steps that change a phase or a session only.                        *)
(***************************************************************************)
LEMMA PhaseKeepsIInv ==
    ASSUME IInv, NEW w \in Workers,
           UNCHANGED <<balances, transactions, plan, step, call, checkouts, refundRequests, clock>>,
           \/ pc[w] = "checking" /\ pc' = [pc EXCEPT ![w] = "insufficient"]
           \/ pc[w] \in Ended /\ pc' = [pc EXCEPT ![w] = "idle"]
    PROVE  IInv'
<1>1. /\ w \in Requests /\ w \notin Handlers
      /\ \A o \in Requests \ {w} : pc'[o] = pc[o]
      /\ \/ pc[w] = "checking" /\ pc'[w] = "insufficient"
         \/ pc[w] \in Ended /\ pc'[w] = "idle"
  BY WorkersAssumption DEF IInv, TypeOK, Handlers
<1>2. LedgerInv'
  BY LedgerUnchanged DEF IInv
<1>3. TypeOK'
  BY <1>2 DEF IInv, TypeOK, LedgerInv, Phases
<1>4. CallsFollowPhases'
  BY <1>1 DEF IInv, CallInv, CallsFollowPhases, Sufficient, Ended
<1>5. WorkersRefund' /\ CallReadsAreOld'
  BY <1>1 DEF IInv, CallInv, WorkersRefund, InProgress, Ended, CallReadsAreOld, UpToDate
<1>6. NoNewClaims
  BY <1>1, WorkersAssumption DEF NoNewClaims, ClaimPhases, Handlers
<1> QED
  BY <1>2, <1>3, <1>4, <1>5, <1>6, QueueUnchanged DEF IInv, CallInv

LEMMA CheckoutKeepsIInv ==
    ASSUME IInv, UNCHANGED <<ledgerVars, call, refundRequests, clock>>,
           checkouts' \subseteq Checkout
    PROVE  IInv'
<1>1. /\ UNCHANGED <<balances, transactions, plan, step>>
      /\ UNCHANGED <<pc, call, refundRequests, clock>>
  BY DEF ledgerVars
<1>2. LedgerInv'
  BY <1>1, LedgerUnchanged DEF IInv
<1>3. TypeOK'
  BY <1>1, <1>2 DEF IInv, TypeOK, LedgerInv
<1>4. CallInv'
  BY <1>1 DEF IInv, CallInv, CallsFollowPhases, WorkersRefund, CallReadsAreOld, InProgress,
              Sufficient, UpToDate
<1>5. QueueInv'
  BY <1>1, QueueUnchanged DEF IInv, NoNewClaims
<1> QED
  BY <1>2, <1>3, <1>4, <1>5 DEF IInv

-----------------------------------------------------------------------------
LEMMA StepKeepsIInv ==
    ASSUME IInv, NEW r \in Requests, Step(r)
    PROVE  IInv'
<1>1. CASE r \in Handlers /\ HandlerStep(r)
  <2>1. CASE DuplicateRequest(r)
    BY <2>1, ReturnKeepsIInv DEF DuplicateRequest
  <2> QED
    BY <1>1, <2>1, MerchantReadKeepsIInv, RevenueReadKeepsIInv, CreateRequestKeepsIInv
       DEF HandlerStep
<1>2. CASE r \in Workers /\ WorkerStep(r)
  <2>1. CASE RefundInsufficient(r) \/ Retry(r)
    BY <1>2, <2>1, PhaseKeepsIInv DEF RefundInsufficient, Retry
  <2> QED
    BY <1>2, <2>1, ClaimPendingKeepsIInv, RefundReadKeepsIInv, RefundPlannedKeepsIInv,
       MarkFailedKeepsIInv DEF WorkerStep
<1>3. CASE Statements(r)
  <2>1. CASE (OptimisticLock(r) \/ DuplicateReference(r))
                /\ Leave(r) /\ UNCHANGED <<checkouts, refundRequests, clock>>
    BY <2>1, ReturnKeepsIInv DEF OptimisticLock, DuplicateReference, Pending, Return
  <2> QED
    BY <1>3, <2>1, ExecuteKeepsIInv DEF Statements
<1> QED
  BY <1>1, <1>2, <1>3, FinishKeepsIInv DEF Step

LEMMA NextKeepsIInv == IInv /\ [Next]_vars => IInv'
<1> SUFFICES ASSUME IInv, [Next]_vars
             PROVE  IInv'
  OBVIOUS
<1>1. ASSUME NEW merchant \in Merchants, NEW m \in Amounts,
             CreateCheckoutSession(merchant, m)
      PROVE  IInv'
  <2>1. Int64(m) \in Int64s
    BY AmountsAssumption, Int64Type
  <2> QED
    BY <1>1, <2>1, CheckoutKeepsIInv DEF CreateCheckoutSession, Checkout, IInv, TypeOK
<1>2. ASSUME NEW r \in Handlers, Start(r)
      PROVE  IInv'
  <2>1. checkouts \subseteq Checkout
    BY DEF IInv, TypeOK
  <2> QED
    BY <1>2, <2>1, PayKeepsIInv, RequestRefundKeepsIInv DEF Start
<1>3. ASSUME NEW r \in Requests, Fail(r) \/ Timeout(r)
      PROVE  IInv'
  BY <1>3, ReturnKeepsIInv DEF Fail, Timeout, InProgress, Ended, Blocked, Waiting, Pending
<1>4. CASE UNCHANGED vars
  BY <1>4, CheckoutKeepsIInv DEF vars, IInv, TypeOK
<1> QED
  BY <1>1, <1>2, <1>3, <1>4, StepKeepsIInv DEF Next, Terminating

THEOREM Invariance == Spec => []IInv
<1>1. Init => IInv
  BY InitEstablishesIInv
<1>2. IInv /\ [Next]_vars => IInv'
  BY NextKeepsIInv
<1> QED
  BY <1>1, <1>2, PTL DEF Spec

-----------------------------------------------------------------------------
(***************************************************************************)
(* Type correctness of payments and refunds.                               *)
(***************************************************************************)
THEOREM TypeCorrect == Spec => []TypeOK
<1>1. IInv => TypeOK
  BY DEF IInv
<1> QED
  BY <1>1, Invariance, PTL

(***************************************************************************)
(* A claimed request is pending and claimed by one worker.                 *)
(***************************************************************************)
THEOREM ExclusiveClaims == Spec => []ClaimsAreExclusive
<1>1. IInv => ClaimsAreExclusive
  BY DEF IInv, QueueInv
<1> QED
  BY <1>1, Invariance, PTL

(***************************************************************************)
(* No transaction has two pending requests.                                *)
(***************************************************************************)
THEOREM SingleRequests == Spec => []OneActiveRequest
<1>1. IInv => OneActiveRequest
  BY DEF IInv, QueueInv
<1> QED
  BY <1>1, Invariance, PTL

-----------------------------------------------------------------------------
LEMMA OnlyFinishCommits ==
    ASSUME IInv, Next, NEW r \in Requests, Commits(r)
    PROVE  Finish(r)
<1>1. pc \in [Requests -> Phases] /\ pc[r] = "writing" /\ pc'[r] = "done"
  BY DEF IInv, TypeOK, Commits
<1>2. ASSUME NEW merchant \in Merchants, NEW m \in Amounts,
             CreateCheckoutSession(merchant, m)
      PROVE  FALSE
  BY <1>1, <1>2 DEF CreateCheckoutSession, ledgerVars
<1>3. ASSUME NEW o \in Handlers, Start(o)
      PROVE  FALSE
  <2>1. ASSUME NEW a \in Customers, NEW session \in checkouts, Pay(o, a, session)
        PROVE  FALSE
    BY <1>1, <2>1 DEF Pay, Enter
  <2>2. ASSUME NEW reference \in ReferencesOf(transactions), RequestRefund(o, reference)
        PROVE  FALSE
    BY <1>1, <2>2 DEF RequestRefund, Enter
  <2> QED
    BY <1>3, <2>1, <2>2 DEF Start
<1>4. ASSUME NEW o \in Requests, Fail(o) \/ Timeout(o)
      PROVE  FALSE
  BY <1>1, <1>4 DEF Fail, Timeout, Return, Rollback
<1>5. ASSUME NEW o \in Requests, Statements(o)
      PROVE  FALSE
  BY <1>1, <1>5 DEF Statements, UpdateBalance, Record, Execute,
                    OptimisticLock, DuplicateReference, Rollback
<1>6. ASSUME NEW o \in Requests, HandlerStep(o)
      PROVE  FALSE
  BY <1>1, <1>6 DEF HandlerStep, MerchantRead, RevenueRead, Begin, Enter,
                    CreateRequest, DuplicateRequest, Return, Rollback
<1>7. ASSUME NEW o \in Requests, WorkerStep(o)
      PROVE  FALSE
  BY <1>1, <1>7 DEF WorkerStep, ClaimPending, RefundRead, RefundPlanned,
                    RefundInsufficient, MarkFailed, Retry, Begin, Enter, Return, Rollback
<1>8. ~ Terminating
  BY <1>1 DEF Terminating, vars, ledgerVars
<1>9. PICK o \in Requests : Finish(o)
  BY <1>2, <1>3, <1>4, <1>5, <1>6, <1>7, <1>8 DEF Next, Step
<1>10. pc' = [pc EXCEPT ![o] = "done"]
  BY <1>9 DEF Finish, Commit
<1>11. o = r
  BY <1>1, <1>10
<1> QED
  BY <1>9, <1>11

(***************************************************************************)
(* Every payment and refund that commits replaces exactly the rows that    *)
(* its handler or worker read.                                             *)
(***************************************************************************)
THEOREM LostUpdateFreedom == Spec => NoLostUpdate
<1>1. IInv /\ [Next]_vars => [NoLostUpdateStep]_ledgerVars
  <2> SUFFICES ASSUME IInv, [Next]_vars
               PROVE  [NoLostUpdateStep]_ledgerVars
    OBVIOUS
  <2>1. CASE UNCHANGED vars
    BY <2>1 DEF vars, ledgerVars
  <2>2. CASE Next
    <3> SUFFICES ASSUME NEW r \in Requests, Commits(r)
                 PROVE  \A s \in Updates(Planned(r)) : s.read = balances[s.account]
      BY DEF NoLostUpdateStep
    <3>1. Commit(r)
      BY <2>2, OnlyFinishCommits DEF Finish
    <3> QED
      BY <3>1, CommitReadsAreCurrent DEF IInv
  <2> QED
    BY <2>1, <2>2
<1> QED
  BY <1>1, Invariance, PTL DEF Spec, NoLostUpdate

-----------------------------------------------------------------------------
(***************************************************************************)
(* What the tables say of each other.  A refund is the payment sent back   *)
(* under the next reference, and a request names a payment.                *)
(***************************************************************************)
ReferencesAreUnique ==
    \A s, t \in transactions : s.reference = t.reference => s = t

EndsDiffer == \A t \in transactions : t.source # t.destination

ReturnsTo(t, p) ==
    /\ t.parent = p.reference
    /\ t.reference = [p.reference EXCEPT !.refunds = @ + 1]

RefundsFollowPayments ==
    \A t \in Refunded : \E p \in transactions : ReturnsTo(t, p)

RequestsNamePayments ==
    \A q \in refundRequests :
        IsPayment(q.reference) /\ q.reference \in ReferencesOf(transactions)

TablesAgree ==
    /\ IsFiniteSet(transactions) /\ IsFiniteSet(refundRequests)
    /\ ReferencesAreUnique /\ EndsDiffer
    /\ RefundsFollowPayments /\ RequestsNamePayments

(***************************************************************************)
(* What each request has read of the tables, and what it has planned.      *)
(***************************************************************************)
ReadsPayment(c) ==
    c.payment \in transactions /\ c.payment.reference = c.request.reference

PayPlanned(r) ==
    /\ call[r] \in PayeeCall /\ call[r].session \in checkouts
    /\ Sufficient(call[r].source, call[r].session.amount)
    /\ plan[r] = PayPlan(r, call[r], plan[r][5].read)

RefundIsPlanned(r) ==
    /\ call[r] \in CheckCall /\ ReadsPayment(call[r])
    /\ Sufficient(call[r].payer, call[r].payment.amount)
    /\ plan[r] = RefundPlan(call[r], plan[r][2].read)

Justified(r) ==
    /\ pc[r] \in {"sourceRead", "merchantRead"} => call[r].session \in checkouts
    /\ pc[r] = "requesting" => /\ IsPayment(call[r].reference)
                              /\ call[r].reference \in ReferencesOf(transactions)
    /\ pc[r] \in {"checking", "insufficient"} => ReadsPayment(call[r])
    /\ pc[r] = "writing" => PayPlanned(r) \/ RefundIsPlanned(r)

Facts ==
    /\ \A r \in Requests : Justified(r)
    /\ KeysInv
    /\ TablesAgree

RInv == IInv /\ Facts

-----------------------------------------------------------------------------
(***************************************************************************)
(* A request keeps its facts while others move: transactions and checkout  *)
(* sessions stay.                                                          *)
(***************************************************************************)
LEMMA OthersStayJustified ==
    ASSUME NEW o \in Requests, Justified(o),
           call'[o] = call[o], pc'[o] = pc[o], plan'[o] = plan[o],
           transactions \subseteq transactions', checkouts \subseteq checkouts'
    PROVE  Justified(o)'
<1>1. ReadsPayment(call[o]) => ReadsPayment(call[o])'
  BY DEF ReadsPayment
<1>2. PayPlanned(o) => PayPlanned(o)'
  BY DEF PayPlanned, Sufficient
<1>3. RefundIsPlanned(o) => RefundIsPlanned(o)'
  BY <1>1 DEF RefundIsPlanned, Sufficient
<1>4. ReferencesOf(transactions) \subseteq ReferencesOf(transactions)'
  BY DEF ReferencesOf
<1> QED
  BY <1>1, <1>2, <1>3, <1>4 DEF Justified

(***************************************************************************)
(* Answering requests leaves their references and adds none.               *)
(***************************************************************************)
LEMMA AnswersKeepReferences ==
    ASSUME TypeOK, IsFiniteSet(refundRequests), RequestsNamePayments,
           transactions \subseteq transactions',
           NEW q, NEW status, refundRequests' = WithStatus(q, status)
    PROVE  IsFiniteSet(refundRequests') /\ RequestsNamePayments'
<1> DEFINE answered(p) == IF p.id = q.id THEN [p EXCEPT !.status = status] ELSE p
           T == {answered(p) : p \in refundRequests}
           f == [p \in refundRequests |-> answered(p)]
<1>1. refundRequests' = T
  BY DEF WithStatus
<1>2. \A p \in refundRequests : answered(p).reference = p.reference
  BY DEF TypeOK, RefundRequest
<1>3. IsFiniteSet(T)
  <2>1. f \in Surjection(refundRequests, T)
    BY DEF Surjection
  <2> QED
    BY <2>1, FS_Surjection
<1> HIDE DEF answered
<1> QED
  BY <1>1, <1>2, <1>3 DEF RequestsNamePayments, ReferencesOf

(***************************************************************************)
(* A step of r that records nothing and asks for nothing.                  *)
(***************************************************************************)
LEMMA SilentStepKeepsFacts ==
    ASSUME RInv, NEW r \in Requests, Justified(r)', KeysInv',
           \A o \in Requests \ {r} :
               call'[o] = call[o] /\ pc'[o] = pc[o] /\ plan'[o] = plan[o],
           UNCHANGED <<transactions, checkouts>>,
           \/ refundRequests' = refundRequests
           \/ \E q, status : refundRequests' = WithStatus(q, status)
    PROVE  Facts'
<1>1. \A o \in Requests : Justified(o)'
  BY OthersStayJustified DEF RInv, Facts
<1>2. Refunded' = Refunded
  BY DEF Refunded
<1>3. ReferencesAreUnique' /\ EndsDiffer' /\ RefundsFollowPayments'
  BY <1>2 DEF RInv, Facts, TablesAgree, ReferencesAreUnique, EndsDiffer, RefundsFollowPayments
<1>4. IsFiniteSet(refundRequests') /\ RequestsNamePayments'
  BY AnswersKeepReferences DEF RInv, IInv, Facts, TablesAgree, RequestsNamePayments
<1> QED
  BY <1>1, <1>3, <1>4 DEF RInv, Facts, TablesAgree

-----------------------------------------------------------------------------
(***************************************************************************)
(* The two effects a commit can have, on the whole of the tables.          *)
(***************************************************************************)
Paid(r, c) ==
    /\ c \in PayeeCall /\ c.session \in checkouts
    /\ balances[c.account].balance >= c.session.amount
    /\ Reference("payment", r) \notin ReferencesOf(transactions)
    /\ Reference("revenue", r) \notin ReferencesOf(transactions)
    /\ transactions' = transactions \cup {Payment(r, c), PlatformFee(r, c)}
    /\ \A a \in Accounts : balances'[a].balance = Int64(balances[a].balance
           - (IF a = c.account THEN c.session.amount ELSE 0)
           + (IF a = c.session.merchant THEN MerchantNet(c.session.amount) ELSE 0)
           + (IF a = Revenue THEN CalculateFeeCeil(c.session.amount) ELSE 0))
    /\ UNCHANGED <<checkouts, refundRequests>>

PaidBack(q, t) ==
    /\ q \in PendingRequests /\ t \in transactions /\ t.reference = q.reference
    /\ balances[t.destination].balance >= t.amount
    /\ RefundReference(q) \notin ReferencesOf(transactions)
    /\ transactions' = transactions \cup {RefundOf(q, t)}
    /\ \A a \in Accounts : balances'[a].balance = Int64(balances[a].balance
           - (IF a = t.destination THEN t.amount ELSE 0)
           + (IF a = t.source THEN t.amount ELSE 0))
    /\ refundRequests' = WithStatus(q, "completed")
    /\ checkouts' = checkouts

LEMMA PayCommits ==
    ASSUME RInv, NEW r \in Requests, Finish(r), PayPlanned(r)
    PROVE  Paid(r, call[r])
<1> DEFINE c == call[r]
           m == c.session.amount
           to == c.session.merchant
           revenue == plan[r][5].read
           p == Insert(Payment(r, c))
           f == Insert(PlatformFee(r, c))
           u == Update(c.account, c.source, [c.source EXCEPT !.balance = Int64(@ - m)])
           v == Update(to, c.merchant,
                       [c.merchant EXCEPT !.balance = Int64(@ + MerchantNet(m))])
           x == Update(Revenue, revenue,
                       [revenue EXCEPT !.balance = Int64(@ + CalculateFeeCeil(m))])
<1>1. /\ c \in PayeeCall /\ c.session \in checkouts /\ Sufficient(c.source, m)
      /\ plan[r] = << p, f, u, v, x >>
      /\ c.op # "refund" /\ Commit(r) /\ LedgerInv /\ KeysInv
  BY DEF PayPlanned, PayPlan, PayeeCall, Finish, RInv, IInv, Facts
<1>2. /\ c.account \in Customers /\ to \in Merchants /\ m \in Int64s
      /\ c.account # to /\ c.account # Revenue /\ to # Revenue
      /\ c.source \in Row /\ c.merchant \in Row
  BY <1>1, AccountsAssumption DEF PayeeCall, Checkout
<1>3. m \in Int /\ CalculateFeeCeil(m) \in Int /\ MerchantNet(m) \in Int
  BY <1>2, FeeBounds DEF Int64s
<1>4. Planned(r) = {p, f, u, v, x} /\ x \in Statement
  <2>1. /\ Len(plan[r]) = 5 /\ plan[r][1] = p /\ plan[r][2] = f
        /\ plan[r][3] = u /\ plan[r][4] = v /\ plan[r][5] = x
    BY <1>1
  <2>2. plan[r] \in Seq(Statement)
    BY <1>1 DEF LedgerInv, LedgerTypeOK
  <2> HIDE DEF p, f, u, v, x
  <2> QED
    BY <2>1, <2>2 DEF Planned
<1>5. revenue \in Row
  BY <1>4 DEF Update, Statement
<1>6. /\ p.table = "transactions" /\ p.row = Payment(r, c)
      /\ f.table = "transactions" /\ f.row = PlatformFee(r, c)
      /\ u.table = "balances" /\ u.account = c.account /\ u.read = c.source
      /\ v.table = "balances" /\ v.account = to /\ v.read = c.merchant
      /\ x.table = "balances" /\ x.account = Revenue /\ x.read = revenue
      /\ u.row.balance = Int64(c.source.balance - m)
      /\ v.row.balance = Int64(c.merchant.balance + MerchantNet(m))
      /\ x.row.balance = Int64(revenue.balance + CalculateFeeCeil(m))
  BY <1>2, <1>5 DEF Insert, Update, Row
<1> HIDE DEF p, f, u, v, x
<1>7. Updates(Planned(r)) = {u, v, x} /\ Inserts(Planned(r)) = {p, f}
  BY <1>4, <1>6 DEF Updates, Inserts
<1>8. /\ transactions' = transactions \cup {Payment(r, c), PlatformFee(r, c)}
      /\ Payment(r, c).reference \notin ReferencesOf(transactions)
      /\ PlatformFee(r, c).reference \notin ReferencesOf(transactions)
  <2>1. /\ transactions' = transactions \cup {s.row : s \in {p, f}}
        /\ \A s \in {p, f} : s.row.reference \notin ReferencesOf(transactions)
    BY <1>1, <1>7, CommitRecords
  <2>2. {s.row : s \in {p, f}} = {p.row, f.row}
    OBVIOUS
  <2> QED
    BY <1>6, <2>1, <2>2
<1>9. /\ Payment(r, c).reference = Reference("payment", r)
      /\ PlatformFee(r, c).reference = Reference("revenue", r)
  BY DEF Payment, PlatformFee, Transfers
<1>10. c.account \in Accounts /\ to \in Accounts /\ Revenue \in Accounts
  BY <1>2, CustomersAreAccounts
<1>11. /\ c.source = balances[c.account]
       /\ balances'[c.account].balance = Int64(c.source.balance - m)
       /\ c.merchant = balances[to]
       /\ balances'[to].balance = Int64(c.merchant.balance + MerchantNet(m))
       /\ revenue = balances[Revenue]
       /\ balances'[Revenue].balance = Int64(revenue.balance + CalculateFeeCeil(m))
  BY <1>1, <1>2, <1>6, <1>7, <1>10, CommitMoves
<1>12. ASSUME NEW a \in Accounts
       PROVE  balances'[a].balance = Int64(balances[a].balance
                - (IF a = c.account THEN m ELSE 0)
                + (IF a = to THEN MerchantNet(m) ELSE 0)
                + (IF a = Revenue THEN CalculateFeeCeil(m) ELSE 0))
  <2>1. balances[a].balance \in Int /\ Int64(balances[a].balance) = balances[a].balance
    BY RowsAndCalls, Int64Keeps DEF RInv, IInv
  <2>2. CASE a \notin {c.account, to, Revenue}
    <3>1. balances'[a] = balances[a]
      BY <1>1, <1>6, <1>7, <2>2, CommitMoves
    <3> QED
      BY <2>1, <2>2, <3>1
  <2> HIDE DEF c, m, to, revenue
  <2>3. CASE a = c.account
    BY <1>2, <1>3, <1>11, <2>1, <2>3
  <2>4. CASE a = to
    BY <1>2, <1>3, <1>11, <2>1, <2>4
  <2>5. CASE a = Revenue
    BY <1>2, <1>3, <1>11, <2>1, <2>5
  <2> QED
    BY <2>2, <2>3, <2>4, <2>5
<1>13. balances[c.account].balance >= m
  BY <1>1, <1>11 DEF Sufficient
<1>14. UNCHANGED <<checkouts, refundRequests>>
  BY <1>1 DEF Finish
<1> QED
  BY <1>1, <1>8, <1>9, <1>12, <1>13, <1>14 DEF Paid

LEMMA RefundCommits ==
    ASSUME RInv, NEW r \in Requests, Finish(r), RefundIsPlanned(r)
    PROVE  r \in Workers /\ PaidBack(call[r].request, call[r].payment)
<1> DEFINE c == call[r]
           q == c.request
           t == c.payment
           receiver == plan[r][2].read
           u == Update(t.destination, c.payer, [c.payer EXCEPT !.balance = Int64(@ - t.amount)])
           v == Update(t.source, receiver, [receiver EXCEPT !.balance = Int64(@ + t.amount)])
           b == Insert(RefundOf(q, t))
<1>1. /\ c \in CheckCall /\ ReadsPayment(c) /\ Sufficient(c.payer, t.amount)
      /\ plan[r] = << u, v, b >>
      /\ c.op = "refund" /\ Commit(r) /\ LedgerInv /\ KeysInv
  BY DEF RefundIsPlanned, RefundPlan, CheckCall, Finish, RInv, IInv, Facts
<1>2. r \in Workers /\ q \in PendingRequests
  BY <1>1 DEF RInv, IInv, CallInv, WorkersRefund, QueueInv, ClaimsAreExclusive, Commit
<1>3. /\ t \in transactions /\ t.reference = q.reference /\ t.source # t.destination
      /\ t.source \in Accounts /\ t.destination \in Accounts /\ t.amount \in Int
      /\ c.payer \in Row
  BY <1>1 DEF ReadsPayment, CheckCall, Transaction, Int64s, RInv, Facts, TablesAgree, EndsDiffer
<1>4. Planned(r) = {u, v, b} /\ v \in Statement
  <2>1. /\ Len(plan[r]) = 3
        /\ plan[r][1] = u /\ plan[r][2] = v /\ plan[r][3] = b
    BY <1>1
  <2>2. plan[r] \in Seq(Statement)
    BY <1>1 DEF LedgerInv, LedgerTypeOK
  <2> HIDE DEF u, v, b
  <2> QED
    BY <2>1, <2>2 DEF Planned
<1>5. receiver \in Row
  BY <1>4 DEF Update, Statement
<1>6. /\ b.table = "transactions" /\ b.row = RefundOf(q, t)
      /\ u.table = "balances" /\ u.account = t.destination /\ u.read = c.payer
      /\ v.table = "balances" /\ v.account = t.source /\ v.read = receiver
      /\ u.row.balance = Int64(c.payer.balance - t.amount)
      /\ v.row.balance = Int64(receiver.balance + t.amount)
  BY <1>3, <1>5 DEF Insert, Update, Row
<1> HIDE DEF u, v, b
<1>7. Updates(Planned(r)) = {u, v} /\ Inserts(Planned(r)) = {b}
  BY <1>4, <1>6 DEF Updates, Inserts
<1>8. RefundOf(q, t).reference = RefundReference(q)
  BY <1>1 DEF RefundOf, CheckCall, Transaction
<1>9. /\ transactions' = transactions \cup {RefundOf(q, t)}
      /\ RefundReference(q) \notin ReferencesOf(transactions)
  <2>1. /\ transactions' = transactions \cup {s.row : s \in {b}}
        /\ b.row.reference \notin ReferencesOf(transactions)
    BY <1>1, <1>7, CommitRecords
  <2>2. {s.row : s \in {b}} = {b.row}
    OBVIOUS
  <2> QED
    BY <1>6, <1>8, <2>1, <2>2
<1>10. /\ c.payer = balances[t.destination]
       /\ balances'[t.destination].balance = Int64(c.payer.balance - t.amount)
       /\ receiver = balances[t.source]
       /\ balances'[t.source].balance = Int64(receiver.balance + t.amount)
  BY <1>1, <1>3, <1>6, <1>7, CommitMoves
<1>11. ASSUME NEW a \in Accounts
       PROVE  balances'[a].balance = Int64(balances[a].balance
                - (IF a = t.destination THEN t.amount ELSE 0)
                + (IF a = t.source THEN t.amount ELSE 0))
  <2>1. balances[a].balance \in Int /\ Int64(balances[a].balance) = balances[a].balance
    BY RowsAndCalls, Int64Keeps DEF RInv, IInv
  <2>2. CASE a \notin {t.source, t.destination}
    <3>1. balances'[a] = balances[a]
      BY <1>1, <1>6, <1>7, <2>2, CommitMoves
    <3> QED
      BY <2>1, <2>2, <3>1
  <2> HIDE DEF c, t, receiver
  <2>3. CASE a = t.destination
    BY <1>3, <1>10, <2>1, <2>3
  <2>4. CASE a = t.source
    BY <1>3, <1>10, <2>1, <2>4
  <2> QED
    BY <2>2, <2>3, <2>4
<1>12. balances[t.destination].balance >= t.amount
  BY <1>1, <1>10 DEF Sufficient
<1>13. checkouts' = checkouts /\ refundRequests' = WithStatus(q, "completed")
  BY <1>1 DEF Finish, MarkCompleted
<1> HIDE DEF c, q, t
<1>14. PaidBack(q, t)
  BY <1>2, <1>3, <1>9, <1>11, <1>12, <1>13 DEF PaidBack
<1> QED
  BY <1>2, <1>14 DEF c, q, t

LEMMA FinishPays ==
    ASSUME RInv, NEW r \in Requests, Finish(r)
    PROVE  \/ Paid(r, call[r])
           \/ /\ r \in Workers /\ pc[r] = "writing"
              /\ PaidBack(call[r].request, call[r].payment)
<1>1. pc[r] = "writing" /\ (PayPlanned(r) \/ RefundIsPlanned(r))
  BY DEF Finish, Commit, RInv, Facts, Justified
<1> QED
  BY <1>1, PayCommits, RefundCommits

-----------------------------------------------------------------------------
(***************************************************************************)
(* The rows a payment and a refund record, and that the tables still agree *)
(* when they are there.                                                    *)
(***************************************************************************)
LEMMA PaymentRows ==
    ASSUME TypeOK, NEW r \in Requests, NEW c, Paid(r, c)
    PROVE  LET p == Payment(r, c)
               f == PlatformFee(r, c)
           IN  /\ p.reference = Reference("payment", r) /\ p.parent = None
               /\ p.amount = MerchantNet(c.session.amount)
               /\ p.source = c.account /\ p.destination = c.session.merchant
               /\ f.reference = Reference("revenue", r)
               /\ f.amount = CalculateFeeCeil(c.session.amount)
               /\ f.source = c.account /\ f.destination = Revenue
               /\ p.reference.refunds = 0 /\ f.reference.refunds = 0
               /\ p.reference # f.reference
               /\ p \notin transactions /\ f \notin transactions
               /\ p.amount \in Int /\ f.amount \in Int
               /\ c.account \in Customers /\ c.session.merchant \in Merchants
               /\ c.session.amount \in Int
               /\ c.session.amount = p.amount + f.amount
<1> DEFINE m == c.session.amount
<1>1. c.account \in Customers /\ c.session.merchant \in Merchants /\ m \in Int64s
  BY DEF Paid, PayeeCall, Checkout
<1>2. /\ CalculateFeeCeil(m) \in Int64s /\ MerchantNet(m) \in Int64s
      /\ m = MerchantNet(m) + CalculateFeeCeil(m)
  BY <1>1, FeeBounds
<1>3. Int64(CalculateFeeCeil(m)) = CalculateFeeCeil(m) /\ Int64(MerchantNet(m)) = MerchantNet(m)
  BY <1>2, Int64Keeps
<1>4. m \in Int /\ CalculateFeeCeil(m) \in Int /\ MerchantNet(m) \in Int
  BY <1>1, <1>2 DEF Int64s
<1> QED
  BY <1>1, <1>2, <1>3, <1>4
     DEF Paid, Payment, PlatformFee, Transfers, Reference, ReferencesOf

LEMMA PaymentKeepsTables ==
    ASSUME TypeOK, TablesAgree, NEW r \in Requests, NEW c, Paid(r, c)
    PROVE  TablesAgree' /\ Refunded' = Refunded
<1> DEFINE p == Payment(r, c)
           f == PlatformFee(r, c)
<1>1. /\ transactions' = transactions \cup {p, f} /\ refundRequests' = refundRequests
      /\ p.reference \notin ReferencesOf(transactions)
      /\ f.reference \notin ReferencesOf(transactions)
      /\ p.reference # f.reference
      /\ p.reference.refunds = 0 /\ f.reference.refunds = 0
      /\ p.source # p.destination /\ f.source # f.destination
  BY PaymentRows, AccountsAssumption DEF Paid
<1> HIDE DEF p, f
<1>2. IsFiniteSet(transactions')
  <2>1. transactions \cup {p, f} = (transactions \cup {p}) \cup {f}
    OBVIOUS
  <2> QED
    BY <1>1, <2>1, FS_AddElement DEF TablesAgree
<1>3. ReferencesAreUnique'
  BY <1>1 DEF TablesAgree, ReferencesAreUnique, ReferencesOf
<1>4. EndsDiffer'
  BY <1>1 DEF TablesAgree, EndsDiffer
<1>5. Refunded' = Refunded
  BY <1>1 DEF Refunded
<1>6. RefundsFollowPayments' /\ RequestsNamePayments'
  BY <1>1, <1>5 DEF TablesAgree, RefundsFollowPayments, RequestsNamePayments, ReferencesOf
<1> QED
  BY <1>1, <1>2, <1>3, <1>4, <1>5, <1>6 DEF TablesAgree

LEMMA RefundRow ==
    ASSUME TypeOK, TablesAgree, NEW q, NEW t, PaidBack(q, t)
    PROVE  LET u == RefundOf(q, t)
           IN  /\ u.reference = RefundReference(q) /\ ReturnsTo(u, t)
               /\ u.amount = t.amount /\ u.amount \in Int
               /\ u.source = t.destination /\ u.destination = t.source
               /\ t.source # t.destination
               /\ u.reference.refunds > 0 /\ u \notin transactions
               /\ u.reference \notin ReferencesOf(transactions)
<1> DEFINE u == RefundOf(q, t)
<1>1. /\ t \in Transaction /\ t.reference \in References /\ t.reference = q.reference
      /\ RefundReference(q) \notin ReferencesOf(transactions)
      /\ t.source # t.destination /\ t.amount \in Int
  BY DEF PaidBack, TypeOK, LedgerTypeOK, Transaction, Int64s, TablesAgree, EndsDiffer
<1>2. /\ u.reference = RefundReference(q) /\ u.parent = t.reference /\ u.amount = t.amount
      /\ u.source = t.destination /\ u.destination = t.source
  BY <1>1 DEF RefundOf, Transaction
<1> HIDE DEF u
<1>3. /\ RefundReference(q) = [t.reference EXCEPT !.refunds = @ + 1]
      /\ RefundReference(q).refunds > 0
  BY <1>1 DEF RefundReference, References
<1>4. u \notin transactions
  BY <1>1, <1>2 DEF ReferencesOf
<1> QED
  BY <1>1, <1>2, <1>3, <1>4 DEF ReturnsTo, u

LEMMA RefundKeepsTables ==
    ASSUME TypeOK, TablesAgree, NEW q, NEW t, PaidBack(q, t)
    PROVE  TablesAgree' /\ Refunded' = Refunded \cup {RefundOf(q, t)}
<1> DEFINE u == RefundOf(q, t)
<1>1. /\ transactions' = transactions \cup {u} /\ t \in transactions
      /\ refundRequests' = WithStatus(q, "completed")
      /\ u.reference \notin ReferencesOf(transactions)
      /\ u.source # u.destination /\ u.reference.refunds > 0 /\ ReturnsTo(u, t)
  BY RefundRow DEF PaidBack
<1> HIDE DEF u
<1>2. IsFiniteSet(transactions')
  BY <1>1, FS_AddElement DEF TablesAgree
<1>3. ReferencesAreUnique'
  BY <1>1 DEF TablesAgree, ReferencesAreUnique, ReferencesOf
<1>4. EndsDiffer'
  BY <1>1 DEF TablesAgree, EndsDiffer
<1>5. Refunded' = Refunded \cup {u}
  BY <1>1 DEF Refunded
<1>6. RefundsFollowPayments'
  BY <1>1, <1>5 DEF TablesAgree, RefundsFollowPayments, ReturnsTo
<1>7. IsFiniteSet(refundRequests') /\ RequestsNamePayments'
  BY <1>1, AnswersKeepReferences DEF TablesAgree
<1> QED
  BY <1>2, <1>3, <1>4, <1>5, <1>6, <1>7 DEF TablesAgree, u

-----------------------------------------------------------------------------
(***************************************************************************)
(* The facts, action by action.  A call that reads:                        *)
(***************************************************************************)
LEMMA EnterKeepsFacts ==
    ASSUME RInv, NEW r \in Requests, NEW phase, NEW c, Enter(r, phase, c),
           UNCHANGED <<balances, transactions, plan, step, checkouts, refundRequests>>,
           phase \in {"sourceRead", "merchantRead", "requesting", "claimed", "checking"},
           phase \in {"sourceRead", "merchantRead"} => c.session \in checkouts,
           phase = "requesting" => /\ IsPayment(c.reference)
                                   /\ c.reference \in ReferencesOf(transactions),
           phase = "checking" => ReadsPayment(c)
    PROVE  Facts'
<1>1. /\ pc'[r] = phase /\ call'[r] = c
      /\ \A o \in Requests \ {r} : pc'[o] = pc[o] /\ call'[o] = call[o]
  BY DEF Enter, RInv, IInv, TypeOK
<1>2. Justified(r)'
  BY <1>1 DEF Justified, ReadsPayment, ReferencesOf
<1>3. KeysInv'
  BY KeysUntouched DEF RInv, Facts
<1> QED
  BY <1>1, <1>2, <1>3, SilentStepKeepsFacts

(***************************************************************************)
(* A transaction that begins, with the plan its service makes;             *)
(***************************************************************************)
LEMMA BeginKeepsFacts ==
    ASSUME RInv, NEW r \in Requests, pc[r] \in {"merchantRead", "checking"},
           NEW statements, Begin(r, statements),
           UNCHANGED <<call, checkouts, refundRequests>>,
           PayPlanned(r)' \/ RefundIsPlanned(r)'
    PROVE  Facts'
<1>1. /\ step[r] = 0 /\ UNCHANGED <<transactions, step>> /\ pc'[r] = "writing"
      /\ \A o \in Requests \ {r} : plan'[o] = plan[o] /\ pc'[o] = pc[o]
  BY DEF Begin, RInv, IInv, CallInv, CallsFollowPhases, TypeOK, LedgerTypeOK
<1>2. Justified(r)'
  BY <1>1 DEF Justified
<1>3. KeysInv'
  BY <1>1, NothingExecutedKeepsKeys DEF RInv, Facts
<1> QED
  BY <1>1, <1>2, <1>3, SilentStepKeepsFacts

LEMMA RevenueReadKeepsFacts ==
    ASSUME RInv, NEW r \in Requests, RevenueRead(r)
    PROVE  Facts'
<1> DEFINE p == PayPlan(r, call[r], balances[Revenue])
<1>1. /\ pc[r] = "merchantRead" /\ Begin(r, p)
      /\ UNCHANGED <<call, checkouts, refundRequests>>
  BY DEF RevenueRead
<1>2. p = PayPlan(r, call[r], p[5].read)
  BY DEF PayPlan, Update
<1>3. plan'[r] = p
  BY <1>1 DEF Begin, RInv, IInv, TypeOK, LedgerTypeOK
<1>4. /\ call[r] \in PayeeCall /\ call[r].session \in checkouts
      /\ Sufficient(call[r].source, call[r].session.amount)
  BY <1>1 DEF RInv, IInv, CallInv, CallsFollowPhases, Facts, Justified
<1> HIDE DEF p
<1>5. PayPlanned(r)'
  BY <1>1, <1>2, <1>3, <1>4 DEF PayPlanned, Sufficient
<1> QED
  BY <1>1, <1>5, BeginKeepsFacts

LEMMA RefundPlannedKeepsFacts ==
    ASSUME RInv, NEW w \in Requests, RefundPlanned(w)
    PROVE  Facts'
<1> DEFINE p == RefundPlan(call[w], balances[call[w].payment.source])
<1>1. /\ pc[w] = "checking" /\ Begin(w, p)
      /\ Sufficient(call[w].payer, call[w].payment.amount)
      /\ UNCHANGED <<call, checkouts, refundRequests>>
  BY DEF RefundPlanned
<1>2. p = RefundPlan(call[w], p[2].read)
  BY DEF RefundPlan, Update
<1>3. plan'[w] = p /\ transactions' = transactions
  BY <1>1 DEF Begin, RInv, IInv, TypeOK, LedgerTypeOK
<1>4. call[w] \in CheckCall /\ ReadsPayment(call[w])
  BY <1>1 DEF RInv, IInv, CallInv, CallsFollowPhases, Facts, Justified
<1> HIDE DEF p
<1>5. RefundIsPlanned(w)'
  BY <1>1, <1>2, <1>3, <1>4 DEF RefundIsPlanned, ReadsPayment, Sufficient
<1> QED
  BY <1>1, <1>5, BeginKeepsFacts

(***************************************************************************)
(* a call that ends without a commit, or a worker that moves on;           *)
(***************************************************************************)
LEMMA EndKeepsFacts ==
    ASSUME RInv, NEW r \in Requests, NEW phase \in {"idle", "insufficient"} \cup Ended,
           pc' = [pc EXCEPT ![r] = phase], Leave(r) \/ call' = call,
           phase = "insufficient" => call' = call /\ pc[r] = "checking",
           UNCHANGED <<transactions, plan, step, checkouts>> \/ Return(r),
           \/ refundRequests' = refundRequests
           \/ \E q, status : refundRequests' = WithStatus(q, status)
    PROVE  Facts'
<1>1. /\ pc'[r] = phase /\ UNCHANGED <<transactions, checkouts>>
      /\ \A o \in Requests \ {r} :
            pc'[o] = pc[o] /\ call'[o] = call[o] /\ plan'[o] = plan[o]
  BY DEF Leave, Return, Rollback, RInv, IInv, TypeOK, LedgerTypeOK
<1>2. KeysInv'
  BY KeysUntouched, EndKeepsKeys DEF Return, RInv, IInv, Facts
<1>3. Justified(r)'
  BY <1>1 DEF Justified, Ended, ReadsPayment, RInv, Facts
<1> QED
  BY <1>1, <1>2, <1>3, SilentStepKeepsFacts

LEMMA ReturnKeepsFacts ==
    ASSUME RInv, NEW r \in Requests, Return(r)
    PROVE  Facts'
BY EndKeepsFacts DEF Return, Rollback, Ended

(***************************************************************************)
(* a statement that is executed, a session that is opened or nothing;      *)
(***************************************************************************)
LEMMA TablesStayInAgreement ==
    ASSUME RInv, UNCHANGED <<transactions, refundRequests>>
    PROVE  TablesAgree'
<1>1. Refunded' = Refunded
  BY DEF Refunded
<1> QED
  BY <1>1 DEF RInv, Facts, TablesAgree, ReferencesAreUnique, EndsDiffer,
              RefundsFollowPayments, RequestsNamePayments, ReferencesOf

LEMMA ExecuteKeepsFacts ==
    ASSUME RInv, NEW r \in Requests, UpdateBalance(r) \/ Record(r),
           UNCHANGED <<call, checkouts, refundRequests>>
    PROVE  Facts'
<1>1. UNCHANGED <<pc, plan, transactions>>
  BY DEF UpdateBalance, Record, Execute
<1>2. \A o \in Requests : Justified(o)'
  BY <1>1, OthersStayJustified DEF RInv, Facts
<1>3. KeysInv'
  BY ExecuteKeepsKeys DEF RInv, IInv, Facts
<1> QED
  BY <1>1, <1>2, <1>3, TablesStayInAgreement DEF Facts

LEMMA OfferKeepsFacts ==
    ASSUME RInv, UNCHANGED <<ledgerVars, call, refundRequests>>,
           checkouts \subseteq checkouts'
    PROVE  Facts'
<1>1. UNCHANGED <<pc, plan, step, transactions>>
  BY DEF ledgerVars
<1>2. \A o \in Requests : Justified(o)'
  BY <1>1, OthersStayJustified DEF RInv, Facts
<1>3. KeysInv'
  BY <1>1, KeysUntouched DEF RInv, Facts
<1> QED
  BY <1>1, <1>2, <1>3, TablesStayInAgreement DEF Facts

(***************************************************************************)
(* a request that is filed for a recorded payment;                         *)
(***************************************************************************)
LEMMA CreateRequestKeepsFacts ==
    ASSUME RInv, NEW r \in Requests, CreateRequest(r)
    PROVE  Facts'
<1> DEFINE n == [id |-> r, reference |-> call[r].reference,
                 createdAt |-> call[r].createdAt, status |-> "pending"]
<1>1. /\ pc[r] = "requesting" /\ refundRequests' = refundRequests \cup {n}
      /\ UNCHANGED <<transactions, plan, step, checkouts>>
      /\ pc'[r] = "done"
      /\ \A o \in Requests \ {r} : pc'[o] = pc[o] /\ call'[o] = call[o]
  BY DEF CreateRequest, Leave, RInv, IInv, TypeOK
<1>2. /\ n.reference \in ReferencesOf(transactions) /\ IsPayment(n.reference)
  BY <1>1 DEF RInv, Facts, Justified
<1> HIDE DEF n
<1>3. IsFiniteSet(refundRequests') /\ RequestsNamePayments'
  BY <1>1, <1>2, FS_AddElement DEF RInv, Facts, TablesAgree, RequestsNamePayments
<1>4. Refunded' = Refunded
  BY <1>1 DEF Refunded
<1>5. TablesAgree'
  BY <1>1, <1>3, <1>4 DEF RInv, Facts, TablesAgree, ReferencesAreUnique, EndsDiffer,
                          RefundsFollowPayments
<1>6. Justified(r)' /\ \A o \in Requests \ {r} : Justified(o)'
  BY <1>1, OthersStayJustified DEF RInv, Facts, Justified
<1>7. KeysInv'
  BY <1>1, KeysUntouched DEF RInv, Facts
<1> QED
  BY <1>5, <1>6, <1>7 DEF Facts

(***************************************************************************)
(* and the commit of a payment or a refund.                                *)
(***************************************************************************)
LEMMA FinishKeepsFacts ==
    ASSUME RInv, NEW r \in Requests, Finish(r)
    PROVE  Facts'
<1>1. /\ Commit(r) /\ pc'[r] = "done" /\ checkouts' = checkouts
      /\ transactions \subseteq transactions'
      /\ \A o \in Requests \ {r} :
            pc'[o] = pc[o] /\ call'[o] = call[o] /\ plan'[o] = plan[o]
  BY DEF Finish, Commit, Leave, RInv, IInv, TypeOK, LedgerTypeOK
<1>2. TablesAgree'
  BY FinishPays, PaymentKeepsTables, RefundKeepsTables DEF RInv, IInv, Facts
<1>3. KeysInv'
  BY <1>1, EndKeepsKeys DEF RInv, IInv, Facts
<1>4. Justified(r)' /\ \A o \in Requests \ {r} : Justified(o)'
  BY <1>1, OthersStayJustified DEF RInv, Facts, Justified
<1> QED
  BY <1>2, <1>3, <1>4 DEF Facts

LEMMA StartKeepsFacts ==
    ASSUME RInv, NEW r \in Handlers, Start(r)
    PROVE  Facts'
<1>1. ASSUME NEW a \in Customers, NEW session \in checkouts, Pay(r, a, session)
      PROVE  Facts'
  <2> DEFINE c == [op |-> "pay", account |-> a, session |-> session,
                   source |-> balances[a]]
  <2>1. Enter(r, "sourceRead", c) /\ c.session \in checkouts
    BY <1>1 DEF Pay
  <2> HIDE DEF c
  <2> QED
    BY <1>1, <2>1, EnterKeepsFacts DEF Pay, Handlers
<1>2. ASSUME NEW reference \in ReferencesOf(transactions), RequestRefund(r, reference)
      PROVE  Facts'
  <2> DEFINE c == [op |-> "request", reference |-> reference, createdAt |-> clock]
  <2>1. Enter(r, "requesting", c) /\ c.reference = reference
    BY <1>2 DEF RequestRefund
  <2> HIDE DEF c
  <2> QED
    BY <1>2, <2>1, EnterKeepsFacts DEF RequestRefund, Handlers
<1> QED
  BY <1>1, <1>2 DEF Start

LEMMA HandlerStepKeepsFacts ==
    ASSUME RInv, NEW r \in Handlers, HandlerStep(r)
    PROVE  Facts'
<1>1. ASSUME MerchantRead(r)
      PROVE  Facts'
  <2>1. pc[r] = "sourceRead" /\ call[r].session \in checkouts
    BY <1>1 DEF MerchantRead, RInv, Facts, Justified, Handlers
  <2> DEFINE c == [op |-> "pay", account |-> call[r].account, session |-> call[r].session,
                   source |-> call[r].source,
                   merchant |-> balances[call[r].session.merchant]]
  <2>2. Enter(r, "merchantRead", c) /\ c.session = call[r].session
    BY <1>1 DEF MerchantRead
  <2> HIDE DEF c
  <2> QED
    BY <1>1, <2>1, <2>2, EnterKeepsFacts DEF MerchantRead, Handlers
<1> QED
  BY <1>1, RevenueReadKeepsFacts, CreateRequestKeepsFacts, ReturnKeepsFacts
     DEF HandlerStep, DuplicateRequest, Handlers

LEMMA WorkerStepKeepsFacts ==
    ASSUME RInv, NEW w \in Workers, WorkerStep(w)
    PROVE  Facts'
<1>1. w \in Requests
  BY WorkersAssumption
<1>2. ASSUME ClaimPending(w)
      PROVE  Facts'
  <2>1. PICK q : Enter(w, "claimed", [op |-> "refund", request |-> q])
    BY <1>2 DEF ClaimPending
  <2> QED
    BY <1>1, <1>2, <2>1, EnterKeepsFacts DEF ClaimPending
<1>3. ASSUME RefundRead(w)
      PROVE  Facts'
  <2>1. PICK t \in ByReference(call[w].request.reference) :
            Enter(w, "checking", [op |-> "refund", request |-> call[w].request,
                                  payment |-> t, payer |-> balances[t.destination]])
    BY <1>3 DEF RefundRead
  <2> DEFINE c == [op |-> "refund", request |-> call[w].request,
                   payment |-> t, payer |-> balances[t.destination]]
  <2>2. ReadsPayment(c)
    BY DEF ReadsPayment, ByReference
  <2>3. Enter(w, "checking", c)
    BY <2>1
  <2> HIDE DEF c
  <2> QED
    BY <1>1, <1>3, <2>2, <2>3, EnterKeepsFacts DEF RefundRead
<1>4. ASSUME RefundInsufficient(w) \/ MarkFailed(w) \/ Retry(w)
      PROVE  Facts'
  BY <1>1, <1>4, EndKeepsFacts DEF RefundInsufficient, MarkFailed, Retry, Ended
<1> QED
  BY <1>1, <1>2, <1>3, <1>4, RefundPlannedKeepsFacts DEF WorkerStep

LEMMA NextKeepsFacts == RInv /\ [Next]_vars => Facts'
<1> SUFFICES ASSUME RInv, [Next]_vars
             PROVE  Facts'
  OBVIOUS
<1>1. ASSUME NEW r \in Requests, Step(r)
      PROVE  Facts'
  <2>1. ASSUME Statements(r)
        PROVE  Facts'
    BY <2>1, ExecuteKeepsFacts, ReturnKeepsFacts
       DEF Statements, OptimisticLock, DuplicateReference, Return
  <2> QED
    BY <1>1, <2>1, HandlerStepKeepsFacts, WorkerStepKeepsFacts, FinishKeepsFacts DEF Step
<1>2. ASSUME NEW r \in Requests, Fail(r) \/ Timeout(r)
      PROVE  Facts'
  BY <1>2, ReturnKeepsFacts DEF Fail, Timeout
<1>3. ASSUME \/ UNCHANGED vars
             \/ \E merchant \in Merchants, m \in Amounts : CreateCheckoutSession(merchant, m)
      PROVE  Facts'
  BY <1>3, OfferKeepsFacts DEF CreateCheckoutSession, vars
<1> QED
  BY <1>1, <1>2, <1>3, StartKeepsFacts DEF Next, Terminating

LEMMA InitEstablishesFacts == Init => Facts
<1> SUFFICES ASSUME Init PROVE Facts
  OBVIOUS
<1>1. /\ transactions = {} /\ refundRequests = {}
      /\ \A r \in Requests : pc[r] = "idle" /\ plan[r] = << >> /\ step[r] = 0
  BY DEF Init, LedgerInit
<1>2. \A r \in Requests : Inserted(r) = {}
  BY <1>1 DEF Inserted, Inserts, Executed
<1>3. KeysInv
  BY <1>2 DEF KeysInv, KeysAreExclusive, KeysAreFresh
<1>4. TablesAgree
  BY <1>1, FS_EmptySet DEF TablesAgree, ReferencesAreUnique, EndsDiffer,
                           RefundsFollowPayments, RequestsNamePayments, Refunded
<1> QED
  BY <1>1, <1>3, <1>4 DEF Facts, Justified

LEMMA FactsHold == Spec => []RInv
<1>1. Init => RInv
  BY InitEstablishesIInv, InitEstablishesFacts DEF RInv
<1>2. RInv /\ [Next]_vars => RInv'
  BY NextKeepsIInv, NextKeepsFacts DEF RInv
<1> QED
  BY <1>1, <1>2, PTL DEF Spec

-----------------------------------------------------------------------------
(***************************************************************************)
(* A balance that covers an amount is not left below zero by it.           *)
(***************************************************************************)
LEMMA Covered ==
    ASSUME NEW balance \in Int64s, NEW m \in Int, balance >= m, m >= 0
    PROVE  Int64(balance - m) >= 0
<1>1. balance - m \in Int64s /\ balance - m >= 0
  BY WordAssumption DEF Int64s
<1> QED
  BY <1>1, Int64Keeps

LEMMA CommitIsCovered ==
    ASSUME RInv, NEW r \in Requests, Finish(r)
    PROVE  LET a == Payer(call[r])
               m == Price(call[r])
           IN  /\ balances[a].balance >= m
               /\ m >= 0 => balances'[a].balance >= 0
<1> DEFINE a == Payer(call[r])
           m == Price(call[r])
<1>1. CASE PayPlanned(r)
  <2>1. Paid(r, call[r]) /\ call[r] \in PayeeCall
    BY <1>1, PayCommits DEF PayPlanned
  <2>2. a = call[r].account /\ m = call[r].session.amount
    BY <2>1 DEF Payer, Price, PayeeCall
  <2>3. a \in Accounts /\ a # call[r].session.merchant /\ a # Revenue /\ m \in Int
    BY <2>1, <2>2, CustomersAreAccounts, AccountsAssumption DEF PayeeCall, Checkout, Int64s
  <2>4. balances[a].balance >= m /\ balances[a].balance \in Int64s
    BY <2>1, <2>2, <2>3, RowsAndCalls DEF Paid, RInv, IInv
  <2>5. balances'[a].balance = Int64(balances[a].balance - m + 0 + 0)
    BY <2>1, <2>2, <2>3 DEF Paid
  <2>6. balances[a].balance - m + 0 + 0 = balances[a].balance - m
    BY <2>3, <2>4 DEF Int64s
  <2> HIDE DEF a, m
  <2>7. m >= 0 => balances'[a].balance >= 0
    BY <2>3, <2>4, <2>5, <2>6, Covered
  <2> QED
    BY <2>4, <2>7 DEF a, m
<1>2. CASE RefundIsPlanned(r)
  <2> DEFINE t == call[r].payment
  <2>1. PaidBack(call[r].request, t) /\ call[r] \in CheckCall
    BY <1>2, RefundCommits DEF RefundIsPlanned
  <2>2. a = t.destination /\ m = t.amount
    BY <2>1 DEF Payer, Price, CheckCall
  <2>3. t.source # t.destination
    BY <2>1 DEF PaidBack, RInv, Facts, TablesAgree, EndsDiffer
  <2>4. a \in Accounts /\ a # t.source /\ m \in Int
    BY <2>1, <2>2, <2>3 DEF CheckCall, Transaction, Int64s
  <2>5. balances[a].balance >= m /\ balances[a].balance \in Int64s
    BY <2>1, <2>2, <2>4, RowsAndCalls DEF PaidBack, RInv, IInv
  <2>6. balances'[a].balance = Int64(balances[a].balance - m + 0)
    BY <2>1, <2>2, <2>4 DEF PaidBack
  <2>7. balances[a].balance - m + 0 = balances[a].balance - m
    BY <2>4, <2>5 DEF Int64s
  <2> HIDE DEF a, m, t
  <2>8. m >= 0 => balances'[a].balance >= 0
    BY <2>4, <2>5, <2>6, <2>7, Covered
  <2> QED
    BY <2>5, <2>8 DEF a, m
<1> QED
  BY <1>1, <1>2 DEF RInv, Facts, Justified, Finish, Commit

(***************************************************************************)
(* Whoever commits a payment or a refund had the money at that moment and, *)
(* unless the amount is negative, is not left with less than nothing, for  *)
(* any number of handlers and workers and any amounts.                     *)
(***************************************************************************)
THEOREM PayersCovered == Spec => PayersCanPay
<1>1. RInv /\ [Next]_vars => [PayersCanPayStep]_vars
  <2> SUFFICES ASSUME RInv, Next
               PROVE  PayersCanPayStep
    OBVIOUS
  <2> QED
    BY OnlyFinishCommits, CommitIsCovered DEF PayersCanPayStep, RInv
<1> QED
  BY <1>1, FactsHold, PTL DEF Spec, PayersCanPay

-----------------------------------------------------------------------------
(***************************************************************************)
(* All that a step can do to the tables.                                   *)
(***************************************************************************)
Offered ==
    \E merchant \in Merchants, m \in Amounts :
        checkouts' = checkouts \cup {[merchant |-> merchant, amount |-> Int64(m)]}

LEMMA NextEffects ==
    ASSUME RInv, [Next]_vars
    PROVE  \/ /\ UNCHANGED <<balances, transactions, refundRequests>>
              /\ checkouts' = checkouts \/ Offered
           \/ \E r \in Handlers : CreateRequest(r)
           \/ \E w \in Workers : MarkFailed(w)
           \/ \E r \in Requests : Paid(r, call[r])
           \/ \E w \in Workers :
                 pc[w] = "writing" /\ PaidBack(call[w].request, call[w].payment)
<1> DEFINE Quiet == UNCHANGED <<balances, transactions, refundRequests, checkouts>>
<1>1. ASSUME NEW r \in Requests, Return(r)
      PROVE  Quiet
  BY <1>1 DEF Return, Rollback
<1>2. ASSUME NEW r \in Requests, Step(r)
      PROVE  \/ Quiet
             \/ r \in Handlers /\ CreateRequest(r)
             \/ r \in Workers /\ MarkFailed(r)
             \/ Finish(r)
  <2>1. ASSUME Statements(r)
        PROVE  Quiet
    BY <1>1, <2>1 DEF Statements, UpdateBalance, Record, Execute,
                      OptimisticLock, DuplicateReference, Return
  <2>2. ASSUME HandlerStep(r)
        PROVE  Quiet \/ CreateRequest(r)
    BY <1>1, <2>2 DEF HandlerStep, MerchantRead, RevenueRead, DuplicateRequest, Begin
  <2>3. ASSUME WorkerStep(r)
        PROVE  Quiet \/ MarkFailed(r)
    BY <2>3 DEF WorkerStep, ClaimPending, RefundRead, RefundPlanned, RefundInsufficient,
                Retry, Begin
  <2> QED
    BY <1>2, <2>1, <2>2, <2>3 DEF Step
<1>3. ASSUME NEW r \in Requests, Fail(r) \/ Timeout(r)
      PROVE  Quiet
  BY <1>1, <1>3 DEF Fail, Timeout
<1>4. ASSUME NEW r \in Handlers, Start(r)
      PROVE  Quiet
  BY <1>4 DEF Start, Pay, RequestRefund
<1>5. ASSUME NEW merchant \in Merchants, NEW m \in Amounts,
             CreateCheckoutSession(merchant, m)
      PROVE  UNCHANGED <<balances, transactions, refundRequests>> /\ Offered
  BY <1>5 DEF CreateCheckoutSession, ledgerVars, Offered
<1>6. ASSUME UNCHANGED vars
      PROVE  Quiet
  BY <1>6 DEF vars, ledgerVars
<1> QED
  BY <1>2, <1>3, <1>4, <1>5, <1>6, FinishPays DEF Next, Terminating

LEMMA OthersMoveNoMoney ==
    ASSUME RInv, [Next]_vars
    PROVE  \/ UNCHANGED <<balances, transactions>>
           \/ \E r \in Requests : Paid(r, call[r])
           \/ \E w \in Workers : PaidBack(call[w].request, call[w].payment)
BY NextEffects DEF CreateRequest, MarkFailed

-----------------------------------------------------------------------------
(***************************************************************************)
(* Double entry: the rows of a payment and of a refund say what the        *)
(* commit moves.                                                           *)
(***************************************************************************)
LEMMA JournalIsFinite ==
    ASSUME TypeOK, TablesAgree
    PROVE  Valued(transactions)
BY DEF TypeOK, LedgerTypeOK, Transaction, Int64s, TablesAgree, Valued

LEMMA PaymentIsExplained ==
    ASSUME TypeOK, TablesAgree, JournalExplainsBalances, NEW r \in Requests, NEW c, Paid(r, c)
    PROVE  JournalExplainsBalances'
<1> SUFFICES ASSUME NEW a \in Accounts
             PROVE  balances'[a].balance = Int64(
                       Opening[a] + Total(To(a, transactions')) - Total(From(a, transactions')))
  BY DEF JournalExplainsBalances, To, From
<1> DEFINE p == Payment(r, c)
           f == PlatformFee(r, c)
           m == c.session.amount
           to == c.session.merchant
           T == transactions
           U == T \cup {p}
<1>1. /\ p.amount = MerchantNet(m) /\ p.source = c.account /\ p.destination = to
      /\ f.amount = CalculateFeeCeil(m) /\ f.source = c.account /\ f.destination = Revenue
      /\ p \notin T /\ f \notin T /\ p # f
      /\ p.amount \in Int /\ f.amount \in Int /\ m \in Int
      /\ m = p.amount + f.amount
      /\ c.account # to /\ c.account # Revenue /\ to # Revenue
  BY PaymentRows, AccountsAssumption
<1>2. /\ transactions' = U \cup {f} /\ f \notin U
      /\ balances'[a].balance = Int64(balances[a].balance
           - (IF a = c.account THEN m ELSE 0)
           + (IF a = to THEN MerchantNet(m) ELSE 0)
           + (IF a = Revenue THEN CalculateFeeCeil(m) ELSE 0))
  BY <1>1 DEF Paid
<1>4. /\ balances[a].balance = Int64(Opening[a] + Total(To(a, T)) - Total(From(a, T)))
      /\ Opening[a] \in Int
  BY OpeningAssumption DEF JournalExplainsBalances, Int64s
<1> HIDE DEF p, f, m, to, T
<1>5. Valued(T)
  BY JournalIsFinite DEF T
<1>6. /\ Valued(U) /\ Total(To(a, T)) \in Int /\ Total(From(a, T)) \in Int
      /\ Total(To(a, U)) = Total(To(a, T)) + (IF p.destination = a THEN p.amount ELSE 0)
      /\ Total(From(a, U)) = Total(From(a, T)) + (IF p.source = a THEN p.amount ELSE 0)
  <2>1. Valued(T) /\ p \notin T /\ p.amount \in Int
    BY <1>1, <1>5
  <2>2. Valued(U)
    BY <2>1, ValuedAdds
  <2>3. Total(To(a, T)) \in Int /\ Total(From(a, T)) \in Int
    BY <2>1, SidesAreSums
  <2>4. Total(To(a, U)) = Total(To(a, T)) + (IF p.destination = a THEN p.amount ELSE 0)
    BY <2>1, RowAddsTo, Zenon
  <2>5. Total(From(a, U)) = Total(From(a, T)) + (IF p.source = a THEN p.amount ELSE 0)
    BY <2>1, RowAddsFrom, Zenon
  <2> QED
    BY <2>2, <2>3, <2>4, <2>5
<1> HIDE DEF U
<1>7. /\ Total(To(a, transactions')) =
            Total(To(a, U)) + (IF f.destination = a THEN f.amount ELSE 0)
      /\ Total(From(a, transactions')) =
            Total(From(a, U)) + (IF f.source = a THEN f.amount ELSE 0)
  <2>1. Valued(U) /\ f \notin U /\ f.amount \in Int
    BY <1>1, <1>2, <1>6
  <2>2. Total(To(a, U \cup {f})) = Total(To(a, U)) + (IF f.destination = a THEN f.amount ELSE 0)
    BY <2>1, RowAddsTo, Zenon
  <2>3. Total(From(a, U \cup {f})) = Total(From(a, U)) + (IF f.source = a THEN f.amount ELSE 0)
    BY <2>1, RowAddsFrom, Zenon
  <2> QED
    BY <1>2, <2>2, <2>3, Zenon
<1> DEFINE net == MerchantNet(m)
           fee == CalculateFeeCeil(m)
<1>8. p.amount = net /\ f.amount = fee /\ net \in Int /\ fee \in Int /\ m = net + fee
  BY <1>1
<1> DEFINE came == Total(To(a, T))
           gone == Total(From(a, T))
           came2 == Total(To(a, transactions'))
           gone2 == Total(From(a, transactions'))
<1>9. /\ came2 = came + (IF to = a THEN net ELSE 0) + (IF Revenue = a THEN fee ELSE 0)
      /\ gone2 = gone + (IF c.account = a THEN net ELSE 0) + (IF c.account = a THEN fee ELSE 0)
      /\ came \in Int /\ gone \in Int
  <2> HIDE DEF net, fee
  <2> QED
    BY <1>1, <1>6, <1>7, <1>8
<1> DEFINE moved == (IF a = to THEN net ELSE 0) + (IF a = Revenue THEN fee ELSE 0)
                       - (IF a = c.account THEN m ELSE 0)
           before == Opening[a] + came - gone
<1>10. balances[a].balance = Int64(before) /\ before \in Int
  BY <1>4, <1>9
<1>11. balances'[a].balance = Int64(Int64(before) + moved) /\ moved \in Int
  <2>1. Int64(before) \in Int
    BY <1>10, Int64Type DEF Int64s
  <2>2. balances'[a].balance = Int64(Int64(before) - (IF a = c.account THEN m ELSE 0)
          + (IF a = to THEN net ELSE 0) + (IF a = Revenue THEN fee ELSE 0))
    BY <1>2, <1>10
  <2> HIDE DEF net, fee, before
  <2>3. Int64(before) - (IF a = c.account THEN m ELSE 0)
          + (IF a = to THEN net ELSE 0) + (IF a = Revenue THEN fee ELSE 0)
            = Int64(before) + moved
    BY <1>1, <1>8, <2>1
  <2> QED
    BY <1>1, <1>8, <2>2, <2>3
<1> HIDE DEF net, fee, came, gone, came2, gone2
<1>12. before + moved = Opening[a] + came2 - gone2
  BY <1>1, <1>4, <1>8, <1>9
<1> HIDE DEF before, moved
<1>13. balances'[a].balance = Int64(Opening[a] + came2 - gone2)
  BY <1>10, <1>11, <1>12, Int64Sum
<1> QED
  BY <1>13 DEF came2, gone2

LEMMA RefundIsExplained ==
    ASSUME TypeOK, TablesAgree, JournalExplainsBalances, NEW q, NEW t, PaidBack(q, t)
    PROVE  JournalExplainsBalances'
<1> SUFFICES ASSUME NEW a \in Accounts
             PROVE  balances'[a].balance = Int64(
                       Opening[a] + Total(To(a, transactions')) - Total(From(a, transactions')))
  BY DEF JournalExplainsBalances, To, From
<1> DEFINE u == RefundOf(q, t)
           came == Total(To(a, transactions))
           gone == Total(From(a, transactions))
           came2 == Total(To(a, transactions'))
           gone2 == Total(From(a, transactions'))
           moved == (IF a = t.source THEN t.amount ELSE 0)
                       - (IF a = t.destination THEN t.amount ELSE 0)
           before == Opening[a] + came - gone
<1>1. /\ u.amount = t.amount /\ u.amount \in Int /\ u \notin transactions
      /\ u.source = t.destination /\ u.destination = t.source
  BY RefundRow
<1>2. /\ transactions' = transactions \cup {u}
      /\ balances'[a].balance = Int64(balances[a].balance
           - (IF a = t.destination THEN t.amount ELSE 0)
           + (IF a = t.source THEN t.amount ELSE 0))
  BY DEF PaidBack
<1>3. balances[a].balance = Int64(before) /\ Opening[a] \in Int
  BY OpeningAssumption DEF JournalExplainsBalances, Int64s
<1>4. Valued(transactions)
  BY JournalIsFinite
<1> HIDE DEF u
<1>5. /\ came \in Int /\ gone \in Int
      /\ came2 = came + (IF u.destination = a THEN u.amount ELSE 0)
      /\ gone2 = gone + (IF u.source = a THEN u.amount ELSE 0)
  <2> DEFINE T == transactions \cup {u}
  <2>1. Valued(transactions) /\ u \notin transactions /\ u.amount \in Int
    BY <1>1, <1>4
  <2>2. came \in Int /\ gone \in Int
    BY <2>1, SidesAreSums
  <2>3. Total(To(a, T)) = came + (IF u.destination = a THEN u.amount ELSE 0)
    BY <2>1, RowAddsTo, Zenon
  <2>4. Total(From(a, T)) = gone + (IF u.source = a THEN u.amount ELSE 0)
    BY <2>1, RowAddsFrom, Zenon
  <2>5. transactions' = T
    BY <1>2
  <2> HIDE DEF came, gone, T
  <2> QED
    BY <2>2, <2>3, <2>4, <2>5, Zenon
<1> HIDE DEF came, gone, came2, gone2
<1>6. before \in Int /\ moved \in Int /\ before + moved = Opening[a] + came2 - gone2
  BY <1>1, <1>3, <1>5
<1>7. balances'[a].balance = Int64(Int64(before) + moved)
  <2>1. Int64(before) \in Int
    BY <1>6, Int64Type DEF Int64s
  <2>2. balances'[a].balance = Int64(Int64(before)
          - (IF a = t.destination THEN t.amount ELSE 0)
          + (IF a = t.source THEN t.amount ELSE 0))
    BY <1>2, <1>3
  <2> HIDE DEF before
  <2>3. Int64(before) - (IF a = t.destination THEN t.amount ELSE 0)
          + (IF a = t.source THEN t.amount ELSE 0) = Int64(before) + moved
    BY <1>1, <2>1
  <2> QED
    BY <2>2, <2>3
<1> HIDE DEF before, moved
<1>8. balances'[a].balance = Int64(Opening[a] + came2 - gone2)
  BY <1>6, <1>7, Int64Sum
<1> QED
  BY <1>8 DEF came2, gone2

LEMMA InitIsExplained == Init => JournalExplainsBalances
<1> SUFFICES ASSUME Init, NEW a \in Accounts
             PROVE  balances[a].balance = Int64(
                       Opening[a] + Total(To(a, transactions)) - Total(From(a, transactions)))
  BY DEF JournalExplainsBalances
<1>1. balances[a].balance = Opening[a] /\ transactions = {} /\ Opening[a] \in Int64s
  BY OpeningAssumption DEF Init, LedgerInit, OpeningRow
<1>2. To(a, {}) = {} /\ From(a, {}) = {}
  BY DEF To, From
<1>3. Total(To(a, transactions)) = 0 /\ Total(From(a, transactions)) = 0
  BY <1>1, <1>2, TotalEmpty, Zenon
<1>4. Opening[a] + 0 - 0 = Opening[a] /\ Int64(Opening[a]) = Opening[a]
  BY <1>1, Int64Keeps DEF Int64s
<1> QED
  BY <1>1, <1>3, <1>4

(***************************************************************************)
(* Payments, fees and refunds appear in the balances with all their        *)
(* updates or not at all, for any number of handlers and workers.          *)
(***************************************************************************)
THEOREM JournalAgrees == Spec => []JournalExplainsBalances
<1>1. RInv /\ [Next]_vars /\ JournalExplainsBalances => JournalExplainsBalances'
  <2> SUFFICES ASSUME RInv, [Next]_vars, JournalExplainsBalances
               PROVE  JournalExplainsBalances'
    OBVIOUS
  <2>1. CASE UNCHANGED <<balances, transactions>>
    BY <2>1 DEF JournalExplainsBalances
  <2> QED
    BY <2>1, OthersMoveNoMoney, PaymentIsExplained, RefundIsExplained DEF RInv, IInv, Facts
<1> QED
  BY <1>1, InitIsExplained, FactsHold, PTL DEF Spec

-----------------------------------------------------------------------------
(***************************************************************************)
(* What a merchant has paid is what it was paid and has refunded: its only *)
(* outgoing rows are refunds, each of an incoming row of the same amount   *)
(* that no other refund names.                                             *)
(***************************************************************************)
PaidBackTo(a) == {t \in To(a, transactions) : t.reference \in RefundedReferences}

MerchantsOnlyRefund ==
    \A a \in Merchants : Total(From(a, transactions)) = Total(PaidBackTo(a))

LEMMA ParentsAreRecorded ==
    ASSUME RefundsFollowPayments
    PROVE  RefundedReferences \subseteq ReferencesOf(transactions)
BY DEF RefundsFollowPayments, RefundedReferences, ReturnsTo, ReferencesOf

(***************************************************************************)
(* The next reference after a refunded transaction's is taken.             *)
(***************************************************************************)
LEMMA RefundedOnce ==
    ASSUME TypeOK, TablesAgree, NEW q, NEW t, PaidBack(q, t)
    PROVE  t.reference \notin RefundedReferences
<1> SUFFICES ASSUME NEW s \in Refunded, s.parent = t.reference PROVE FALSE
  BY DEF RefundedReferences
<1>1. PICK p \in transactions : ReturnsTo(s, p)
  BY DEF TablesAgree, RefundsFollowPayments
<1>2. s.reference = [t.reference EXCEPT !.refunds = @ + 1]
  BY <1>1 DEF ReturnsTo
<1>3. s.reference = RefundReference(q)
  BY <1>2 DEF RefundReference, PaidBack
<1> QED
  BY <1>3 DEF PaidBack, Refunded, ReferencesOf

LEMMA PaymentsLeaveMerchants ==
    ASSUME TypeOK, TablesAgree, MerchantsOnlyRefund, NEW r \in Requests, NEW c, Paid(r, c)
    PROVE  MerchantsOnlyRefund'
<1> SUFFICES ASSUME NEW a \in Merchants
             PROVE  Total(From(a, transactions')) = Total(PaidBackTo(a)')
  BY DEF MerchantsOnlyRefund, From
<1> DEFINE p == Payment(r, c)
           f == PlatformFee(r, c)
<1>1. /\ p.source # a /\ f.source # a
      /\ p.reference \notin ReferencesOf(transactions)
      /\ f.reference \notin ReferencesOf(transactions)
      /\ transactions' = transactions \cup {p, f}
  BY PaymentRows, AccountsAssumption DEF Paid
<1>2. RefundedReferences' = RefundedReferences
  BY PaymentKeepsTables DEF RefundedReferences
<1>3. p.reference \notin RefundedReferences /\ f.reference \notin RefundedReferences
  BY <1>1, ParentsAreRecorded DEF TablesAgree
<1> HIDE DEF p, f
<1>4. From(a, transactions') = From(a, transactions)
  BY <1>1 DEF From
<1>5. PaidBackTo(a)' = PaidBackTo(a)
  BY <1>1, <1>2, <1>3 DEF PaidBackTo, To
<1> QED
  BY <1>4, <1>5, Zenon DEF MerchantsOnlyRefund

LEMMA RefundsBalanceMerchants ==
    ASSUME TypeOK, TablesAgree, MerchantsOnlyRefund, NEW q, NEW t, PaidBack(q, t)
    PROVE  MerchantsOnlyRefund'
<1> SUFFICES ASSUME NEW a \in Merchants
             PROVE  Total(From(a, transactions')) = Total(PaidBackTo(a)')
  BY DEF MerchantsOnlyRefund, From
<1> DEFINE u == RefundOf(q, t)
           G == From(a, transactions)
           H == From(a, transactions')
           B == PaidBackTo(a)
           C == PaidBackTo(a)'
<1>1. /\ u.amount = t.amount /\ u.amount \in Int /\ u \notin transactions
      /\ u.source = t.destination /\ u.destination = t.source
      /\ u.reference \notin ReferencesOf(transactions)
      /\ t \in transactions /\ transactions' = transactions \cup {u}
      /\ u.parent = t.reference
  <2>1. ReturnsTo(u, t)
    BY RefundRow
  <2> HIDE DEF G, H, B, C
  <2>2. u.parent = t.reference
    BY <2>1 DEF ReturnsTo
  <2> QED
    BY <2>2, RefundRow DEF PaidBack
<1>2. RefundedReferences' = RefundedReferences \cup {t.reference}
  BY <1>1, RefundKeepsTables DEF RefundedReferences
<1>3. /\ t.reference \notin RefundedReferences
      /\ u.reference \notin RefundedReferences /\ u.reference # t.reference
  BY <1>1, RefundedOnce, ParentsAreRecorded DEF TablesAgree, ReferencesOf
<1>4. Valued(transactions)
  BY JournalIsFinite
<1> HIDE DEF u
<1>5. H = IF t.destination = a THEN G \cup {u} ELSE G
  BY <1>1 DEF From
<1>6. C = IF t.destination = a THEN B \cup {t} ELSE B
  BY <1>1, <1>2, <1>3 DEF PaidBackTo, To, TablesAgree, ReferencesAreUnique
<1>7. /\ Valued(G) /\ Valued(B) /\ u \notin G /\ t \notin B
  BY <1>1, <1>3, <1>4, FS_Subset DEF From, PaidBackTo, To, Valued
<1>8. Total(G) = Total(B)
  BY DEF MerchantsOnlyRefund
<1> HIDE DEF G, H, B, C
<1>9. CASE t.destination = a
  <2>1. /\ Total(G \cup {u}) = Total(G) + u.amount
        /\ Total(B \cup {t}) = Total(B) + t.amount
    BY <1>1, <1>7, TotalAdds
  <2>2. H = G \cup {u} /\ C = B \cup {t}
    BY <1>5, <1>6, <1>9
  <2>3. Total(H) = Total(C)
    BY <1>1, <1>8, <2>1, <2>2, Zenon
  <2> QED
    BY <2>3 DEF H, C
<1>10. CASE t.destination # a
  <2>1. Total(H) = Total(C)
    BY <1>5, <1>6, <1>8, <1>10
  <2> QED
    BY <2>1 DEF H, C
<1> QED
  BY <1>9, <1>10

LEMMA BalanceCoversRefunds ==
    ASSUME TypeOK, TablesAgree, JournalExplainsBalances, MerchantsOnlyRefund
    PROVE  MerchantsCanRefund
<1> SUFFICES ASSUME NEW a \in Merchants, OrdinaryIncome(a)
             PROVE  balances[a].balance >=
                Total({t \in To(a, transactions) : t.reference \notin RefundedReferences})
  BY DEF MerchantsCanRefund
<1> DEFINE A == To(a, transactions)
           B == PaidBackTo(a)
           C == {t \in A : t.reference \notin RefundedReferences}
           G == From(a, transactions)
<1>1. A = B \cup C /\ B \cap C = {} /\ B \subseteq transactions /\ C \subseteq transactions
  BY DEF PaidBackTo, To
<1>2. Valued(B) /\ Valued(C)
  BY <1>1, JournalIsFinite, FS_Subset DEF Valued
<1>3. /\ balances[a].balance = Int64(Opening[a] + Total(A) - Total(G))
      /\ Opening[a] \in Int /\ Total(G) = Total(B)
  BY OpeningAssumption, CustomersAreAccounts
     DEF JournalExplainsBalances, MerchantsOnlyRefund, Int64s
<1>4. /\ Opening[a] >= 0 /\ Opening[a] + Total(A) < HalfWord
      /\ \A t \in B : t.amount >= 0
      /\ \A t \in C : t.amount >= 0
  BY DEF OrdinaryIncome, PaidBackTo
<1> HIDE DEF A, B, C, G
<1>5. Total(A) = Total(B) + Total(C)
  BY <1>1, <1>2, TotalOfUnion
<1>6. Total(B) \in Nat /\ Total(C) \in Nat
  BY <1>2, <1>4, TotalOfNonNegative
<1>7. /\ Opening[a] + Total(A) - Total(G) = Opening[a] + Total(C)
      /\ Opening[a] + Total(C) \in Int64s
  BY <1>3, <1>4, <1>5, <1>6, WordAssumption DEF Int64s
<1>8. balances[a].balance = Opening[a] + Total(C)
  BY <1>3, <1>7, Int64Keeps
<1>9. balances[a].balance >= Total(C)
  BY <1>3, <1>4, <1>6, <1>8
<1> QED
  BY <1>9 DEF A, C

(***************************************************************************)
(* What a merchant with ordinary income was paid and has not refunded is   *)
(* in its balance, for any number of handlers and workers.                 *)
(***************************************************************************)
THEOREM MerchantsKeepEnough == Spec => []MerchantsCanRefund
<1>1. Init => MerchantsOnlyRefund
  <2> SUFFICES ASSUME Init, NEW a \in Merchants
               PROVE  Total(From(a, transactions)) = Total(PaidBackTo(a))
    BY DEF MerchantsOnlyRefund
  <2>1. From(a, transactions) = {} /\ PaidBackTo(a) = {}
    BY DEF Init, LedgerInit, From, PaidBackTo, To
  <2> QED
    BY <2>1
<1>2. RInv /\ [Next]_vars /\ MerchantsOnlyRefund => MerchantsOnlyRefund'
  <2> SUFFICES ASSUME RInv, [Next]_vars, MerchantsOnlyRefund
               PROVE  MerchantsOnlyRefund'
    OBVIOUS
  <2>1. CASE UNCHANGED <<balances, transactions>>
    BY <2>1 DEF MerchantsOnlyRefund, PaidBackTo, RefundedReferences, Refunded
  <2> QED
    BY <2>1, OthersMoveNoMoney, PaymentsLeaveMerchants, RefundsBalanceMerchants
       DEF RInv, IInv, Facts
<1>3. RInv /\ JournalExplainsBalances /\ MerchantsOnlyRefund => MerchantsCanRefund
  BY BalanceCoversRefunds DEF RInv, IInv, Facts
<1> QED
  BY <1>1, <1>2, <1>3, FactsHold, JournalAgrees, PTL DEF Spec

-----------------------------------------------------------------------------
(***************************************************************************)
(* One worker, as cmd/worker starts it.  With several, a worker that is    *)
(* late with its MarkFailed overwrites what another has completed; with    *)
(* one, the request it fails is still pending.                             *)
(***************************************************************************)
OneWorker == \A v, w \in Workers : v = w

LateAnswersArePending ==
    \A w \in Workers : pc[w] = "insufficient" => call[w].request \in PendingRequests

(***************************************************************************)
(* A worker comes to MarkFailed from the check of a request it has         *)
(* claimed, and nobody else touches its variables meanwhile.               *)
(***************************************************************************)
LEMMA OthersLeaveCalls ==
    ASSUME IInv, NEW w \in Requests, NEW r \in Requests \ {w},
           Step(r) \/ (r \in Handlers /\ Start(r)) \/ Fail(r) \/ Timeout(r)
    PROVE  pc'[w] = pc[w] /\ call'[w] = call[w]
<1>1. pc \in [Requests -> Phases] /\ call \in [Requests -> Call]
  BY DEF IInv, TypeOK
<1>2. ASSUME Return(r)
      PROVE  pc'[w] = pc[w] /\ call'[w] = call[w]
  BY <1>1, <1>2 DEF Return, Rollback, Leave
<1>3. ASSUME Statements(r)
      PROVE  pc'[w] = pc[w] /\ call'[w] = call[w]
  BY <1>1, <1>3 DEF Statements, UpdateBalance, Record, Execute,
                    OptimisticLock, DuplicateReference, Rollback, Leave
<1>4. ASSUME HandlerStep(r)
      PROVE  pc'[w] = pc[w] /\ call'[w] = call[w]
  BY <1>1, <1>2, <1>4 DEF HandlerStep, MerchantRead, RevenueRead, CreateRequest,
                          DuplicateRequest, Begin, Enter, Leave
<1>5. ASSUME WorkerStep(r)
      PROVE  pc'[w] = pc[w] /\ call'[w] = call[w]
  BY <1>1, <1>5 DEF WorkerStep, ClaimPending, RefundRead, RefundPlanned,
                    RefundInsufficient, MarkFailed, Retry, Begin, Enter, Leave
<1>6. ASSUME Finish(r)
      PROVE  pc'[w] = pc[w] /\ call'[w] = call[w]
  BY <1>1, <1>6 DEF Finish, Commit, Leave
<1>7. ASSUME Start(r)
      PROVE  pc'[w] = pc[w] /\ call'[w] = call[w]
  BY <1>1, <1>7 DEF Start, Pay, RequestRefund, Enter
<1> QED
  BY <1>2, <1>3, <1>4, <1>5, <1>6, <1>7 DEF Step, Fail, Timeout

LEMMA WaysToMarkFailed ==
    ASSUME IInv, NEW w \in Workers, [Next]_vars, pc'[w] = "insufficient"
    PROVE  \/ RefundInsufficient(w)
           \/ pc[w] = "insufficient" /\ call'[w] = call[w]
<1> SUFFICES ASSUME ~ (pc[w] = "insufficient" /\ call'[w] = call[w])
             PROVE  RefundInsufficient(w)
  OBVIOUS
<1>1. w \in Requests /\ w \notin Handlers /\ pc \in [Requests -> Phases]
  BY WorkersAssumption DEF IInv, TypeOK, Handlers
<1>2. ~ UNCHANGED <<pc, call>>
  OBVIOUS
<1>3. PICK r \in Requests : Step(r) \/ (r \in Handlers /\ Start(r)) \/ Fail(r) \/ Timeout(r)
  BY <1>2, WorkersAssumption
     DEF Next, Terminating, CreateCheckoutSession, vars, ledgerVars, Handlers
<1>4. r = w
  BY <1>1, <1>3, OthersLeaveCalls
<1>5. ~ Return(w) /\ ~ Rollback(w)
  BY <1>1 DEF Return, Rollback
<1>6. ~ Statements(w)
  <2>1. pc[w] = "writing" /\ pc' = pc => FALSE
    OBVIOUS
  <2> QED
    BY <1>5, <2>1 DEF Statements, UpdateBalance, Record, Execute, Pending,
                      OptimisticLock, DuplicateReference
<1>7. ~ Finish(w)
  BY <1>1 DEF Finish, Commit
<1>8. WorkerStep(w)
  BY <1>1, <1>3, <1>4, <1>5, <1>6, <1>7 DEF Step, Fail, Timeout
<1> QED
  BY <1>1, <1>8 DEF WorkerStep, ClaimPending, RefundRead, RefundPlanned, MarkFailed,
                    Retry, Begin, Enter

LEMMA LateAnswersStayPending ==
    ASSUME OneWorker, RInv, [Next]_vars, LateAnswersArePending
    PROVE  LateAnswersArePending'
<1> SUFFICES ASSUME NEW w \in Workers, pc'[w] = "insufficient"
             PROVE  call'[w].request \in PendingRequests'
  BY DEF LateAnswersArePending
<1>1. w \in Requests /\ pc \in [Requests -> Phases]
  BY WorkersAssumption DEF RInv, IInv, TypeOK
<1>2. CASE RefundInsufficient(w)
  <2>1. pc[w] = "checking" /\ call' = call /\ refundRequests' = refundRequests
    BY <1>2 DEF RefundInsufficient
  <2>2. call[w].request \in PendingRequests
    BY <2>1 DEF RInv, IInv, QueueInv, ClaimsAreExclusive
  <2> QED
    BY <2>1, <2>2 DEF PendingRequests
<1>3. CASE pc[w] = "insufficient" /\ call'[w] = call[w]
  <2>1. call[w].request \in PendingRequests
    BY <1>3 DEF LateAnswersArePending
  <2>2. ASSUME NEW v \in Workers, MarkFailed(v)
        PROVE  FALSE
    <3>1. v = w
      BY DEF OneWorker
    <3> QED
      BY <1>1, <2>2, <3>1 DEF MarkFailed
  <2>3. ASSUME NEW v \in Workers, pc[v] = "writing"
        PROVE  FALSE
    BY <1>3, <2>3 DEF OneWorker
  <2>4. refundRequests \subseteq refundRequests'
    BY <2>2, <2>3, NextEffects DEF CreateRequest, Paid
  <2> QED
    BY <1>3, <2>1, <2>4 DEF PendingRequests
<1> QED
  BY <1>2, <1>3, WaysToMarkFailed DEF RInv

-----------------------------------------------------------------------------
(***************************************************************************)
(* Answering a pending request replaces it by its answered self.           *)
(***************************************************************************)
Answered(q, status) == [q EXCEPT !.status = status]

LEMMA AnswerReplaces ==
    ASSUME TypeOK, RequestsAreDone, NEW q \in PendingRequests,
           NEW status \in {"completed", "failed"},
           refundRequests' = WithStatus(q, status)
    PROVE  LET n == Answered(q, status)
           IN  /\ refundRequests' = (refundRequests \ {q}) \cup {n}
               /\ n \notin refundRequests
               /\ n.id = q.id /\ n.reference = q.reference /\ n.status = status
<1> DEFINE n == Answered(q, status)
<1>1. q \in refundRequests /\ q \in RefundRequest /\ q.status = "pending"
  BY DEF PendingRequests, TypeOK
<1>2. n.id = q.id /\ n.reference = q.reference /\ n.status = status
  BY <1>1 DEF Answered, RefundRequest
<1>3. \A p \in refundRequests : p.id = q.id => p = q
  BY <1>1 DEF RequestsAreDone
<1>4. n \notin refundRequests
  <2>1. n # q
    BY <1>1, <1>2
  <2> QED
    BY <1>2, <1>3, <2>1
<1>5. WithStatus(q, status) = {IF p.id = q.id THEN n ELSE p : p \in refundRequests}
  BY <1>3 DEF WithStatus, Answered
<1> HIDE DEF n
<1>6. {IF p.id = q.id THEN n ELSE p : p \in refundRequests} = (refundRequests \ {q}) \cup {n}
  BY <1>1, <1>3
<1> QED
  BY <1>2, <1>4, <1>5, <1>6 DEF n

(***************************************************************************)
(* The next reference after a transaction's is taken once.                 *)
(***************************************************************************)
LEMMA TablesRefundOnce ==
    ASSUME TablesAgree
    PROVE  NothingRefundedTwice
<1> SUFFICES ASSUME NEW s \in Refunded, NEW t \in Refunded, s.parent = t.parent
             PROVE  s = t
  BY DEF NothingRefundedTwice
<1>1. PICK p \in transactions : ReturnsTo(s, p)
  BY DEF TablesAgree, RefundsFollowPayments
<1>2. PICK o \in transactions : ReturnsTo(t, o)
  BY DEF TablesAgree, RefundsFollowPayments
<1>3. s.reference = t.reference
  BY <1>1, <1>2 DEF ReturnsTo
<1> QED
  BY <1>3 DEF TablesAgree, ReferencesAreUnique, Refunded

LEMMA RequestsStayMatched ==
    ASSUME RefundsMatchRequests, TablesAgree', Completed' = Completed, Refunded' = Refunded
    PROVE  RefundsMatchRequests'
BY DEF RefundsMatchRequests, NothingRefundedTwice

LEMMA RefundStaysMatched ==
    ASSUME TypeOK, RequestsAreDone, TablesAgree, RefundsMatchRequests,
           NEW q, NEW t, PaidBack(q, t)
    PROVE  RefundsMatchRequests'
<1> DEFINE n == Answered(q, "completed")
           u == RefundOf(q, t)
<1>1. /\ q \in PendingRequests /\ t.reference = q.reference
      /\ refundRequests' = WithStatus(q, "completed")
  BY DEF PaidBack
<1>2. /\ refundRequests' = (refundRequests \ {q}) \cup {n} /\ n \notin refundRequests
      /\ n.reference = q.reference /\ n.status = "completed"
  BY <1>1, AnswerReplaces
<1>3. Refunded' = Refunded \cup {u} /\ TablesAgree'
  BY RefundKeepsTables
<1>4. u \notin transactions /\ u.parent = q.reference
  <2>1. u \notin transactions /\ ReturnsTo(u, t)
    BY RefundRow
  <2> HIDE DEF n, u
  <2> QED
    BY <1>1, <2>1 DEF ReturnsTo
<1> HIDE DEF n, u
<1>5. Completed' = Completed \cup {n} /\ n \notin Completed
  BY <1>1, <1>2 DEF Completed, PendingRequests
<1>6. u \notin Refunded
  BY <1>4 DEF Refunded
<1>7. Cardinality(Completed') = Cardinality(Refunded')
  <2>1. IsFiniteSet(Completed) /\ IsFiniteSet(Refunded)
    BY FS_Subset DEF TablesAgree, Completed, Refunded
  <2>2. Cardinality(Completed \cup {n}) = Cardinality(Completed) + 1
    BY <1>5, <2>1, FS_AddElement
  <2>3. Cardinality(Refunded \cup {u}) = Cardinality(Refunded) + 1
    BY <1>6, <2>1, FS_AddElement
  <2>4. Cardinality(Completed) = Cardinality(Refunded)
    BY DEF RefundsMatchRequests
  <2> QED
    BY <1>3, <1>5, <2>2, <2>3, <2>4, Zenon
<1>8. \A p \in Completed' : \E s \in Refunded' : s.parent = p.reference
  BY <1>2, <1>3, <1>4, <1>5 DEF RefundsMatchRequests
<1>9. NothingRefundedTwice'
  <2>1. NothingRefundedTwice
    BY TablesRefundOnce
  <2>2. ASSUME NEW s \in Refunded, s.parent = u.parent
        PROVE  FALSE
    <3>1. s.parent = t.reference /\ s.parent \in RefundedReferences
      BY <1>1, <1>4, <2>2 DEF RefundedReferences
    <3> QED
      BY <3>1, RefundedOnce
  <2> QED
    BY <1>3, <2>1, <2>2 DEF NothingRefundedTwice
<1> QED
  BY <1>7, <1>8, <1>9 DEF RefundsMatchRequests

(***************************************************************************)
(* NothingRefundedTwice, for any number of handlers and workers.           *)
(***************************************************************************)
THEOREM RefundedAtMostOnce == Spec => []NothingRefundedTwice
<1>1. RInv => NothingRefundedTwice
  BY TablesRefundOnce DEF RInv, Facts
<1> QED
  BY <1>1, FactsHold, PTL

(***************************************************************************)
(* Marking a request failed, whatever its status is by then, completes     *)
(* none and leaves every answered request with an answer.                  *)
(***************************************************************************)
LEMMA LateFailure ==
    ASSUME TypeOK, NEW q, refundRequests' = WithStatus(q, "failed")
    PROVE  /\ Completed' \subseteq Completed
           /\ \A p \in AnsweredRequests :
                 \E n \in AnsweredRequests' : n.reference = p.reference
<1> DEFINE new(p) == IF p.id = q.id THEN [p EXCEPT !.status = "failed"] ELSE p
<1>1. refundRequests' = {new(p) : p \in refundRequests}
  BY DEF WithStatus
<1>2. ASSUME NEW p \in refundRequests
      PROVE  /\ new(p) \in refundRequests' /\ new(p).reference = p.reference
             /\ new(p) = p \/ new(p).status = "failed"
  <2>1. p \in RefundRequest
    BY DEF TypeOK
  <2>2. new(p) \in refundRequests'
    BY <1>1
  <2> QED
    BY <2>1, <2>2 DEF RefundRequest
<1> HIDE DEF new
<1>3. Completed' \subseteq Completed
  BY <1>1, <1>2 DEF Completed
<1>4. ASSUME NEW p \in AnsweredRequests
      PROVE  \E n \in AnsweredRequests' : n.reference = p.reference
  BY <1>2 DEF AnsweredRequests
<1> QED
  BY <1>3, <1>4

(***************************************************************************)
(* A refund that commits answers its request, and no other is completed    *)
(* for the same transaction: its refund would have taken the reference.    *)
(***************************************************************************)
LEMMA RefundIsAnswered ==
    ASSUME TypeOK, RequestsAreDone, TablesAgree, RefundsAreAnswered,
           NEW q, NEW t, PaidBack(q, t)
    PROVE  RefundsAreAnswered'
<1> DEFINE n == Answered(q, "completed")
           u == RefundOf(q, t)
<1>1. /\ q \in PendingRequests /\ t.reference = q.reference
      /\ refundRequests' = WithStatus(q, "completed")
  BY DEF PaidBack
<1>2. /\ refundRequests' = (refundRequests \ {q}) \cup {n}
      /\ n.reference = q.reference /\ n.status = "completed"
  BY <1>1, AnswerReplaces
<1>3. Refunded' = Refunded \cup {u}
  BY <1>1, RefundKeepsTables
<1>4. u.parent = q.reference
  <2>1. ReturnsTo(u, t)
    BY RefundRow
  <2> HIDE DEF n, u
  <2> QED
    BY <1>1, <2>1 DEF ReturnsTo
<1>5. q.status = "pending"
  BY <1>1 DEF PendingRequests
<1> HIDE DEF n, u
<1>6. Completed' = Completed \cup {n}
  BY <1>2, <1>5 DEF Completed
<1>7. AnsweredRequests' = AnsweredRequests \cup {n}
  BY <1>2, <1>5 DEF AnsweredRequests
<1>8. ASSUME NEW p \in Completed, p.reference = q.reference
      PROVE  FALSE
  <2>1. PICK s \in Refunded : s.parent = q.reference
    BY <1>8 DEF RefundsAreAnswered
  <2>2. s.parent = t.reference /\ s.parent \in RefundedReferences
    BY <1>1, <2>1 DEF RefundedReferences
  <2> QED
    BY <2>2, RefundedOnce
<1>9. \A p \in Completed' : \E s \in Refunded' : s.parent = p.reference
  BY <1>2, <1>3, <1>4, <1>6 DEF RefundsAreAnswered
<1>10. \A o, p \in Completed' : o.reference = p.reference => o = p
  BY <1>2, <1>6, <1>8 DEF RefundsAreAnswered
<1>11. \A s \in Refunded' : \E p \in AnsweredRequests' : p.reference = s.parent
  BY <1>2, <1>3, <1>4, <1>7 DEF RefundsAreAnswered
<1> QED
  BY <1>9, <1>10, <1>11 DEF RefundsAreAnswered

LEMMA AnswersStay ==
    ASSUME RefundsAreAnswered, Refunded' = Refunded, Completed' \subseteq Completed,
           \A p \in AnsweredRequests :
              \E n \in AnsweredRequests' : n.reference = p.reference
    PROVE  RefundsAreAnswered'
BY DEF RefundsAreAnswered

(***************************************************************************)
(* RefundsAreAnswered, for any number of handlers and workers.             *)
(***************************************************************************)
THEOREM Answers == Spec => []RefundsAreAnswered
<1>1. Init => RefundsAreAnswered
  BY DEF Init, LedgerInit, RefundsAreAnswered, Completed, Refunded
<1>2. RInv /\ RInv' /\ [Next]_vars /\ RefundsAreAnswered => RefundsAreAnswered'
  <2> SUFFICES ASSUME RInv, RInv', [Next]_vars, RefundsAreAnswered
               PROVE  RefundsAreAnswered'
    OBVIOUS
  <2>1. TypeOK /\ RequestsAreDone /\ TablesAgree
    BY DEF RInv, IInv, QueueInv, Facts
  <2>2. ASSUME refundRequests' = refundRequests, Refunded' = Refunded
        PROVE  RefundsAreAnswered'
    BY <2>2, AnswersStay DEF Completed, AnsweredRequests
  <2>3. CASE UNCHANGED <<balances, transactions, refundRequests>>
    BY <2>2, <2>3 DEF Refunded
  <2>4. ASSUME NEW r \in Handlers, CreateRequest(r)
        PROVE  RefundsAreAnswered'
    <3>1. Completed' = Completed /\ AnsweredRequests' = AnsweredRequests
      BY <2>4 DEF CreateRequest, Completed, AnsweredRequests
    <3>2. Refunded' = Refunded
      BY <2>4 DEF CreateRequest, Refunded
    <3> QED
      BY <3>1, <3>2, AnswersStay
  <2>5. ASSUME NEW w \in Workers, MarkFailed(w)
        PROVE  RefundsAreAnswered'
    <3>1. refundRequests' = WithStatus(call[w].request, "failed") /\ Refunded' = Refunded
      BY <2>5 DEF MarkFailed, Refunded
    <3> QED
      BY <2>1, <3>1, LateFailure, AnswersStay
  <2>6. ASSUME NEW r \in Requests, Paid(r, call[r])
        PROVE  RefundsAreAnswered'
    <3>1. refundRequests' = refundRequests
      BY <2>6 DEF Paid
    <3> QED
      BY <2>1, <2>2, <2>6, <3>1, PaymentKeepsTables
  <2> QED
    BY <2>1, <2>3, <2>4, <2>5, <2>6, NextEffects, RefundIsAnswered
<1> QED
  BY <1>1, <1>2, FactsHold, PTL DEF Spec

(***************************************************************************)
(* A request is completed exactly when its refund has been recorded, for   *)
(* any number of handlers and the one worker cmd/worker starts.            *)
(***************************************************************************)
THEOREM RefundsAgree ==
    ASSUME OneWorker
    PROVE  Spec => []RefundsMatchRequests
<1>1. Init => RefundsMatchRequests /\ LateAnswersArePending
  <2> SUFFICES ASSUME Init PROVE RefundsMatchRequests /\ LateAnswersArePending
    OBVIOUS
  <2>1. Completed = {} /\ Refunded = {}
    BY DEF Init, LedgerInit, Completed, Refunded
  <2>2. LateAnswersArePending
    BY WorkersAssumption DEF Init, LedgerInit, LateAnswersArePending
  <2> QED
    BY <2>1, <2>2 DEF RefundsMatchRequests, NothingRefundedTwice
<1>2. RInv /\ RInv' /\ [Next]_vars /\ RefundsMatchRequests /\ LateAnswersArePending
        => RefundsMatchRequests' /\ LateAnswersArePending'
  <2> SUFFICES ASSUME RInv, RInv', [Next]_vars, RefundsMatchRequests, LateAnswersArePending
               PROVE  RefundsMatchRequests'
    BY LateAnswersStayPending
  <2>1. TypeOK /\ RequestsAreDone /\ TablesAgree /\ TablesAgree'
    BY DEF RInv, IInv, QueueInv, Facts
  <2>2. CASE UNCHANGED <<balances, transactions, refundRequests>>
    BY <2>1, <2>2, RequestsStayMatched DEF Completed, Refunded
  <2>3. ASSUME NEW r \in Handlers, CreateRequest(r)
        PROVE  RefundsMatchRequests'
    BY <2>1, <2>3, RequestsStayMatched DEF CreateRequest, Completed, Refunded
  <2>4. ASSUME NEW w \in Workers, MarkFailed(w)
        PROVE  RefundsMatchRequests'
    <3> DEFINE q == call[w].request
               n == Answered(q, "failed")
    <3>1. /\ q \in PendingRequests /\ refundRequests' = WithStatus(q, "failed")
          /\ transactions' = transactions
      BY <2>4 DEF MarkFailed, LateAnswersArePending
    <3>2. /\ refundRequests' = (refundRequests \ {q}) \cup {n} /\ n.status = "failed"
          /\ q.status = "pending"
      BY <2>1, <3>1, AnswerReplaces DEF PendingRequests
    <3> HIDE DEF q, n
    <3>3. Completed' = Completed
      BY <3>2 DEF Completed
    <3> QED
      BY <2>1, <3>1, <3>3, RequestsStayMatched DEF Refunded
  <2>5. ASSUME NEW r \in Requests, Paid(r, call[r])
        PROVE  RefundsMatchRequests'
    <3>1. refundRequests' = refundRequests
      BY <2>5 DEF Paid
    <3> QED
      BY <2>1, <2>5, <3>1, PaymentKeepsTables, RequestsStayMatched DEF Completed
  <2> QED
    BY <2>1, <2>2, <2>3, <2>4, <2>5, NextEffects, RefundStaysMatched
<1> QED
  BY <1>1, <1>2, FactsHold, PTL DEF Spec

-----------------------------------------------------------------------------
(***************************************************************************)
(* The refinement of RefundsAtomic: how its variables are read off the     *)
(* tables.  A request is known there by its id, reference and status.      *)
(***************************************************************************)
Money == [a \in Accounts |-> balances[a].balance]
Answer(q) == [id |-> q.id, reference |-> q.reference, status |-> q.status]
Asked == {Answer(q) : q \in refundRequests}

LEMMA AskedNow ==
    /\ {[id |-> q.id, reference |-> q.reference, status |-> q.status] :
           q \in refundRequests} = Asked
    /\ {[id |-> q.id, reference |-> q.reference, status |-> q.status] :
           q \in refundRequests}' = Asked'
BY DEF Asked, Answer

(***************************************************************************)
(* A request that is answered is replaced there, too.                      *)
(***************************************************************************)
LEMMA AnswerRefines ==
    ASSUME TypeOK, RequestsAreDone, NEW q \in PendingRequests,
           NEW status \in {"completed", "failed"},
           refundRequests' = WithStatus(q, status), checkouts' = checkouts
    PROVE  Answer(q) \in Asked /\ Atomic!Answer(Answer(q), status)
<1> DEFINE n == Answered(q, status)
<1>1. q \in refundRequests /\ q.status = "pending"
  BY DEF PendingRequests
<1>2. /\ refundRequests' = (refundRequests \ {q}) \cup {n}
      /\ n.id = q.id /\ n.reference = q.reference /\ n.status = status
  BY AnswerReplaces
<1> HIDE DEF n
<1>3. Answer(n) = [Answer(q) EXCEPT !.status = status]
  BY <1>2 DEF Answer
<1>4. \A p \in refundRequests : Answer(p) = Answer(q) => p = q
  BY <1>1 DEF RequestsAreDone, Answer
<1>5. Asked' = {Answer(p) : p \in refundRequests'}
  BY DEF Asked, Answer
<1>6. Asked' = (Asked \ {Answer(q)}) \cup {[Answer(q) EXCEPT !.status = status]}
  <2> HIDE DEF Answer
  <2> QED
    BY <1>1, <1>2, <1>3, <1>4, <1>5 DEF Asked
<1>7. Answer(q).status = "pending"
  BY <1>1 DEF Answer
<1>8. Answer(q) \in Asked
  BY <1>1 DEF Asked
<1> HIDE DEF Answer
<1> QED
  BY <1>6, <1>7, <1>8, AskedNow, Zenon DEF Atomic!Answer

-----------------------------------------------------------------------------
(***************************************************************************)
(* Every effect of NextEffects is a step there.                            *)
(***************************************************************************)
LEMMA OfferRefines ==
    ASSUME Offered, UNCHANGED <<balances, transactions, refundRequests>>
    PROVE  Atomic!Next
<1>1. PICK merchant \in Merchants, m \in Amounts :
          checkouts' = checkouts \cup {[merchant |-> merchant, amount |-> Int64(m)]}
  BY DEF Offered
<1>2. Atomic!Offer(merchant, m)
  BY <1>1 DEF Atomic!Offer, Atomic!Int64, Int64
<1> QED
  BY <1>2 DEF Atomic!Next

LEMMA CreateRequestRefines ==
    ASSUME RInv, NEW r \in Handlers, CreateRequest(r)
    PROVE  Atomic!Next
<1> DEFINE n == [id |-> r, reference |-> call[r].reference,
                 createdAt |-> call[r].createdAt, status |-> "pending"]
<1>1. /\ r \in Requests /\ pc[r] = "requesting"
      /\ refundRequests' = refundRequests \cup {n} /\ NoneActive(call[r].reference)
      /\ UNCHANGED <<balances, transactions, checkouts>>
  BY DEF CreateRequest, Handlers
<1>2. IsPayment(call[r].reference) /\ call[r].reference \in ReferencesOf(transactions)
  BY <1>1 DEF RInv, Facts, Justified
<1>3. PICK t \in transactions : t.reference = call[r].reference
  BY <1>2 DEF ReferencesOf
<1>4. Answer(n) = [id |-> r, reference |-> t.reference, status |-> "pending"]
  BY <1>3 DEF Answer
<1>5. \A q \in Asked : q.id # r
  BY <1>1 DEF RInv, IInv, QueueInv, RequestsAreDone, Asked, Answer
<1>6. \A q \in Asked : q.reference = t.reference => q.status # "pending"
  BY <1>1, <1>3 DEF NoneActive, ActiveFor, PendingRequests, Asked, Answer
<1> HIDE DEF n
<1>7. Asked' = Asked \cup {Answer(n)}
  BY <1>1 DEF Asked, Answer
<1>8. t.reference.prefix = "payment"
  BY <1>2, <1>3 DEF IsPayment
<1>9. Asked' = Asked \cup {[id |-> r, reference |-> t.reference, status |-> "pending"]}
  BY <1>4, <1>7, Zenon
<1>10. Atomic!Ask(r, t)
  BY <1>1, <1>5, <1>6, <1>8, <1>9, AskedNow DEF Atomic!Ask
<1> QED
  BY <1>1, <1>10 DEF Atomic!Next

LEMMA RefusalRefines ==
    ASSUME TypeOK, RequestsAreDone, NEW q \in PendingRequests,
           refundRequests' = WithStatus(q, "failed"),
           UNCHANGED <<balances, transactions, checkouts>>
    PROVE  Atomic!Next
<1>1. Answer(q) \in Asked /\ Atomic!Answer(Answer(q), "failed")
  BY AnswerRefines
<1>2. Atomic!Refuse(Answer(q))
  BY <1>1 DEF Atomic!Refuse
<1> QED
  BY <1>1, <1>2, AskedNow DEF Atomic!Next

LEMMA MarkFailedRefines ==
    ASSUME RInv, LateAnswersArePending, NEW w \in Workers, MarkFailed(w)
    PROVE  Atomic!Next
<1>1. /\ call[w].request \in PendingRequests
      /\ refundRequests' = WithStatus(call[w].request, "failed")
      /\ UNCHANGED <<balances, transactions, checkouts>>
  BY DEF MarkFailed, LateAnswersArePending
<1> QED
  BY <1>1, RefusalRefines DEF RInv, IInv, QueueInv

(***************************************************************************)
(* Several entries of a function changed at once.                          *)
(***************************************************************************)
LEMMA TwoEntries ==
    ASSUME NEW S, NEW f \in [S -> Int64s], NEW a \in S, NEW b \in S \ {a},
           NEW x \in Int, NEW y \in Int, NEW g,
           g = [s \in S |-> g[s]],
           \A s \in S : g[s] = Int64(f[s] - (IF s = a THEN x ELSE 0) + (IF s = b THEN y ELSE 0))
    PROVE  g = [f EXCEPT ![a] = Int64(@ - x), ![b] = Int64(@ + y)]
<1> DEFINE h == [f EXCEPT ![a] = Int64(@ - x), ![b] = Int64(@ + y)]
<1>1. h = [s \in S |-> h[s]]
  OBVIOUS
<1>2. ASSUME NEW s \in S
      PROVE  g[s] = h[s]
  <2>0. f[s] \in Int /\ Int64(f[s]) = f[s]
    BY Int64Keeps DEF Int64s
  <2>1. CASE s = a
    BY <2>0, <2>1
  <2>2. CASE s = b
    BY <2>0, <2>2
  <2>3. CASE s # a /\ s # b
    BY <2>0, <2>3
  <2> QED
    BY <2>1, <2>2, <2>3
<1> HIDE DEF h
<1>3. g = h
  BY <1>1, <1>2
<1> QED
  BY <1>3 DEF h

LEMMA ThreeEntries ==
    ASSUME NEW S, NEW f \in [S -> Int64s], NEW a \in S, NEW b \in S \ {a}, NEW c \in S \ {a, b},
           NEW x \in Int, NEW y \in Int, NEW z \in Int, NEW g,
           g = [s \in S |-> g[s]],
           \A s \in S : g[s] = Int64(f[s] - (IF s = a THEN x ELSE 0)
                                  + (IF s = b THEN y ELSE 0) + (IF s = c THEN z ELSE 0))
    PROVE  g = [f EXCEPT ![a] = Int64(@ - x), ![b] = Int64(@ + y), ![c] = Int64(@ + z)]
<1> DEFINE h == [f EXCEPT ![a] = Int64(@ - x), ![b] = Int64(@ + y), ![c] = Int64(@ + z)]
<1>1. h = [s \in S |-> h[s]]
  OBVIOUS
<1>2. ASSUME NEW s \in S
      PROVE  g[s] = h[s]
  <2>0. f[s] \in Int /\ Int64(f[s]) = f[s]
    BY Int64Keeps DEF Int64s
  <2>1. CASE s = a
    BY <2>0, <2>1
  <2>2. CASE s = b
    BY <2>0, <2>2
  <2>3. CASE s = c
    BY <2>0, <2>3
  <2>4. CASE s # a /\ s # b /\ s # c
    BY <2>0, <2>4
  <2> QED
    BY <2>1, <2>2, <2>3, <2>4
<1> HIDE DEF h
<1>3. g = h
  BY <1>1, <1>2
<1> QED
  BY <1>3 DEF h

LEMMA PaidRefines ==
    ASSUME TypeOK, NEW r \in Requests, NEW c, Paid(r, c)
    PROVE  Atomic!Next
<1> DEFINE a == c.account
           b == c.session.merchant
           m == c.session.amount
           net == MerchantNet(m)
           fee == CalculateFeeCeil(m)
<1>1. /\ a \in Customers /\ b \in Merchants /\ m \in Int64s
      /\ c.session \in checkouts /\ balances[a].balance >= m
      /\ Reference("payment", r) \notin ReferencesOf(transactions)
      /\ Reference("revenue", r) \notin ReferencesOf(transactions)
      /\ transactions' = transactions \cup {Payment(r, c), PlatformFee(r, c)}
      /\ UNCHANGED <<checkouts, refundRequests>>
  BY DEF Paid, PayeeCall, Checkout
<1>2. /\ a \in Accounts /\ b \in Accounts /\ Revenue \in Accounts
      /\ a # b /\ a # Revenue /\ b # Revenue
  BY <1>1, AccountsAssumption DEF Accounts
<1>3. \A x \in Accounts : balances[x].balance \in Int64s
  BY RowsAndCalls
<1>4. m \in Int /\ net \in Int /\ fee \in Int
  BY <1>1, FeeBounds DEF Int64s
<1>5. \A x \in Accounts : balances'[x].balance = Int64(balances[x].balance
           - (IF x = a THEN m ELSE 0) + (IF x = b THEN net ELSE 0)
           + (IF x = Revenue THEN fee ELSE 0))
  BY DEF Paid
<1> HIDE DEF net, fee
<1>6. Money' = [Money EXCEPT ![a] = Int64(@ - m), ![b] = Int64(@ + net),
                                 ![Revenue] = Int64(@ + fee)]
  <2> HIDE DEF a, b, m
  <2>1. /\ Money \in [Accounts -> Int64s] /\ Money' = [x \in Accounts |-> Money'[x]]
        /\ \A x \in Accounts : Money'[x] = balances'[x].balance
    BY <1>3 DEF Money
  <2>2. \A x \in Accounts : Money'[x] = Int64(Money[x]
           - (IF x = a THEN m ELSE 0) + (IF x = b THEN net ELSE 0)
           + (IF x = Revenue THEN fee ELSE 0))
    BY <1>5, <2>1 DEF Money
  <2> HIDE DEF Money
  <2>3. /\ Money \in [Accounts -> Int64s] /\ a \in Accounts /\ b \in Accounts \ {a}
        /\ Revenue \in Accounts \ {a, b}
        /\ m \in Int /\ net \in Int /\ fee \in Int
    BY <1>2, <1>4, <2>1
  <2>4. Money' = [x \in Accounts |-> Money'[x]]
    BY <2>1
  <2> QED
    BY <2>2, <2>3, <2>4, ThreeEntries, SMTT(60)
<1>7. Money[a] >= m
  BY <1>1, <1>2 DEF Money
<1>8. Atomic!Pay(r, a, c.session)
  BY <1>1, <1>6, <1>7, AskedNow
     DEF Atomic!Pay, Atomic!Journalled, ReferencesOf, Atomic!Reference, Reference,
         Atomic!Transfers, Transfers, Atomic!Int64, Int64, Atomic!MerchantNet, MerchantNet,
         Atomic!CalculateFeeCeil, CalculateFeeCeil, Payment, PlatformFee, Money, net, fee
<1> QED
  BY <1>1, <1>8 DEF Atomic!Next

LEMMA PaidBackRefines ==
    ASSUME TypeOK, RequestsAreDone, TablesAgree, NEW q, NEW t, PaidBack(q, t)
    PROVE  Atomic!Next
<1> DEFINE u == RefundOf(q, t)
           m == t.amount
           a == t.source
           b == t.destination
           reference == [t.reference EXCEPT !.refunds = @ + 1]
<1>1. /\ q \in PendingRequests /\ t \in transactions /\ t.reference = q.reference
      /\ balances[b].balance >= m
      /\ RefundReference(q) \notin ReferencesOf(transactions)
      /\ transactions' = transactions \cup {u}
      /\ refundRequests' = WithStatus(q, "completed") /\ checkouts' = checkouts
  BY DEF PaidBack
<1>2. /\ t \in Transaction /\ m \in Int /\ a \in Accounts /\ b \in Accounts /\ a # b
  BY <1>1 DEF TypeOK, LedgerTypeOK, Transaction, TablesAgree, EndsDiffer, Int64s
<1>3. \A x \in Accounts : balances[x].balance \in Int64s
  BY RowsAndCalls
<1>4. \A x \in Accounts : balances'[x].balance = Int64(balances[x].balance
           - (IF x = b THEN m ELSE 0) + (IF x = a THEN m ELSE 0))
  BY DEF PaidBack
<1>5. RefundReference(q) = reference
  BY <1>1 DEF RefundReference
<1>6. u = [reference |-> reference, parent |-> t.reference, amount |-> m,
           source |-> b, destination |-> a, status |-> "applied"]
  <2>1. /\ u.reference = RefundReference(q) /\ u.parent = t.reference /\ u.amount = m
        /\ u.source = b /\ u.destination = a /\ u.status = "applied"
    BY <1>2 DEF RefundOf, Transaction
  <2>2. PICK r1, r2, r3, r4, r5, r6 :
            u = [reference |-> r1, parent |-> r2, amount |-> r3,
                 source |-> r4, destination |-> r5, status |-> r6]
    <3>1. RefundReference(q) \in References /\ t.reference \in References
      BY <1>1, <1>2 DEF RefundReference, Transaction, References
    <3>2. u \in Transaction
      BY <1>2, <3>1 DEF RefundOf, Transaction, Statuses
    <3> HIDE DEF u
    <3> QED
      BY <3>2 DEF Transaction
  <2> HIDE DEF u, a, b, m, reference
  <2> QED
    BY <1>5, <2>1, <2>2
<1>7. Money' = [Money EXCEPT ![b] = Int64(@ - m), ![a] = Int64(@ + m)]
  <2> HIDE DEF a, b, m
  <2>1. /\ Money \in [Accounts -> Int64s] /\ Money' = [x \in Accounts |-> Money'[x]]
        /\ \A x \in Accounts : Money'[x] = balances'[x].balance
    BY <1>3 DEF Money
  <2>2. \A x \in Accounts : Money'[x] = Int64(Money[x]
           - (IF x = b THEN m ELSE 0) + (IF x = a THEN m ELSE 0))
    BY <1>4, <2>1 DEF Money
  <2> HIDE DEF Money
  <2> QED
    BY <1>2, <2>1, <2>2, TwoEntries
<1>8. Money[b] >= m
  BY <1>1, <1>2 DEF Money
<1>9. Answer(q) \in Asked /\ Atomic!Answer(Answer(q), "completed")
  BY <1>1, AnswerRefines
<1>10. Answer(q).reference = t.reference
  BY <1>1 DEF Answer
<1>11. ~ Atomic!Journalled(reference)
  BY <1>1, <1>5 DEF Atomic!Journalled, ReferencesOf
<1> HIDE DEF u
<1>12. Atomic!Refund(Answer(q), t)
  BY <1>1, <1>6, <1>7, <1>8, <1>9, <1>10, <1>11 DEF Atomic!Refund, Money, Atomic!Int64, Int64
<1> QED
  BY <1>1, <1>9, <1>12, AskedNow DEF Atomic!Next

LEMMA NextRefines ==
    ASSUME RInv, LateAnswersArePending, [Next]_vars
    PROVE  [Atomic!Next]_Atomic!vars
<1>1. TypeOK /\ RequestsAreDone /\ TablesAgree
  BY DEF RInv, IInv, QueueInv, Facts
<1>2. CASE UNCHANGED <<balances, transactions, refundRequests>> /\ checkouts' = checkouts
  BY <1>2 DEF Atomic!vars
<1> QED
  BY <1>1, <1>2, NextEffects, OfferRefines, CreateRequestRefines, MarkFailedRefines,
     PaidRefines, PaidBackRefines

LEMMA InitRefines == Init => Atomic!Init
<1> SUFFICES ASSUME Init PROVE Atomic!Init
  OBVIOUS
<1>1. /\ balances = [a \in Accounts |-> OpeningRow(a)] /\ transactions = {}
      /\ checkouts = {} /\ refundRequests = {}
  BY DEF Init, LedgerInit
<1>2. Money = Opening
  BY <1>1, OpeningAssumption DEF Money, OpeningRow
<1> QED
  BY <1>1, <1>2 DEF Atomic!Init, Money

(***************************************************************************)
(* ImplementsAtomic, for every number of handlers, accounts and amounts    *)
(* and one worker: concurrent payments, requests and refunds behave as if  *)
(* each took effect in one step, and an answer is final.                   *)
(***************************************************************************)
THEOREM Atomicity ==
    ASSUME OneWorker
    PROVE  Spec => ImplementsAtomic
<1>1. Init => LateAnswersArePending
  BY WorkersAssumption DEF Init, LedgerInit, LateAnswersArePending
<1>2. RInv /\ [Next]_vars /\ LateAnswersArePending => LateAnswersArePending'
  BY LateAnswersStayPending
<1>3. RInv /\ [Next]_vars /\ LateAnswersArePending => [Atomic!Next]_Atomic!vars
  BY NextRefines
<1> QED
  BY <1>1, <1>2, <1>3, InitRefines, FactsHold, PTL DEF Spec, ImplementsAtomic, Atomic!Spec
=============================================================================
