-------------------------- MODULE WalletsRefinement --------------------------
(***************************************************************************)
(* Wallets implements WalletsAtomic: a commit is the one step in which the *)
(* request takes effect, every other step only initiates a session at the  *)
(* gateway or is invisible.  Along these steps the rows of transactions    *)
(* are audited against those of balances.  Deliveries takes the same steps *)
(* and lets deliverers start over.                                         *)
(***************************************************************************)
EXTENDS WalletsProofs, WalletsJournal, Deliveries

(***************************************************************************)
(* What a request has established by the time it reaches a phase.          *)
(***************************************************************************)
Limit(op) == IF op = "topup" THEN MaxTopupAmount ELSE MaxWithdrawalAmount

GatewayFacts(r) ==
    /\ call[r] \in GatewayCall
    /\ call[r].amount <= Limit(call[r].op)
    /\ [prefix |-> call[r].op, ref |-> r] \in sessions

TransferFacts(c) ==
    /\ c \in TransferCall
    /\ c.amount <= MaxTransferAmount
    /\ Sufficient(c.read, c.amount)
    /\ c.reference \in ClientRefs

WebhookFacts(c) ==
    /\ c \in WebhookCall
    /\ c.parent \in transactions
    /\ c.parent.reference = ParentReference(c.event)
    /\ c.parent.status = "inflight"
    /\ KnownStatus(c.event.status)

TopupPlanned(r) ==
    /\ call[r].op = "topup" /\ GatewayFacts(r)
    /\ plan[r] = TopupPlan(r, call[r].account, call[r].amount, plan[r][2].read)

WithdrawPlanned(r) ==
    /\ call[r].op = "withdrawal" /\ GatewayFacts(r)
    /\ Sufficient(plan[r][2].read, call[r].amount)
    /\ plan[r] = WithdrawPlan(r, call[r].account, call[r].amount, plan[r][2].read)

TransferPlanned(r) ==
    /\ TransferFacts(call[r]) /\ TransferAllowed(call[r])
    /\ plan[r] = TransferPlan(call[r], plan[r][3].read)

SettlementPlanned(r) ==
    /\ WebhookFacts(call[r])
    /\ call[r].event \notin events
    /\ LET e == call[r].event
           status == SettledStatus(e.status)
       IN \/ /\ e.prefix = "topup"
             /\ plan[r] = TopupWebhookPlan(r, call[r].parent, status, plan[r][2].read)
          \/ /\ e.prefix = "withdrawal"
             /\ plan[r] = PayoutWebhookPlan(r, call[r].parent, status, plan[r][2].read)

Justified(r) ==
    /\ pc[r] = "initiated" => GatewayFacts(r)
    /\ pc[r] = "sourceRead" => TransferFacts(call[r])
    /\ pc[r] \in {"parentRead", "marked"} => WebhookFacts(call[r])
    /\ pc[r] = "marked" => call[r].event \notin events
    /\ pc[r] = "writing" => \/ TopupPlanned(r) \/ WithdrawPlanned(r)
                            \/ TransferPlanned(r) \/ SettlementPlanned(r)

MarksAreExclusive ==
    \A r, o \in Requests :
        r # o /\ Marked(r) /\ Marked(o) => call[r].event # call[o].event

Facts ==
    /\ \A r \in Requests : Justified(r)
    /\ MarksAreExclusive
    /\ KeysInv

RInv == IInv /\ Facts

-----------------------------------------------------------------------------
(***************************************************************************)
(* A request keeps its facts while others move: recorded transactions and  *)
(* initiated sessions stay, and its event is not processed by another.     *)
(***************************************************************************)
LEMMA OthersStayJustified ==
    ASSUME NEW o \in Requests, Justified(o),
           call'[o] = call[o], pc'[o] = pc[o], plan'[o] = plan[o],
           transactions \subseteq transactions', sessions \subseteq sessions',
           Marked(o) /\ call[o].event \in events' => call[o].event \in events
    PROVE  Justified(o)'
<1>1. GatewayFacts(o) => GatewayFacts(o)'
  BY DEF GatewayFacts
<1>2. TransferFacts(call[o]) => TransferFacts(call[o])'
  BY DEF TransferFacts, Sufficient
<1>3. WebhookFacts(call[o]) => WebhookFacts(call[o])'
  BY DEF WebhookFacts, KnownStatus
<1>4. CASE pc[o] # "writing"
  <2>1. pc[o] = "marked" => call[o].op = "webhook"
    BY DEF Justified, WebhookFacts, WebhookCall
  <2> QED
    BY <1>1, <1>2, <1>3, <1>4, <2>1 DEF Justified, Marked
<1>5. CASE pc[o] = "writing"
  <2>1. TopupPlanned(o) => TopupPlanned(o)'
    BY <1>1 DEF TopupPlanned
  <2>2. WithdrawPlanned(o) => WithdrawPlanned(o)'
    BY <1>1 DEF WithdrawPlanned, Sufficient
  <2>3. TransferPlanned(o) => TransferPlanned(o)'
    BY <1>2 DEF TransferPlanned, TransferAllowed
  <2>4. SettlementPlanned(o) => SettlementPlanned(o)'
    <3> SUFFICES ASSUME SettlementPlanned(o) PROVE SettlementPlanned(o)'
      OBVIOUS
    <3>1. call[o].op = "webhook"
      BY DEF SettlementPlanned, WebhookFacts, WebhookCall
    <3>2. call[o].event \notin events'
      BY <1>5, <3>1 DEF Marked, SettlementPlanned
    <3> QED
      BY <1>3, <3>2 DEF SettlementPlanned
  <2> QED
    BY <1>5, <2>1, <2>2, <2>3, <2>4 DEF Justified
<1> QED
  BY <1>4, <1>5

(***************************************************************************)
(* Facts after a step of r that neither records nor processes anything.    *)
(***************************************************************************)
LEMMA SilentStepKeepsFacts ==
    ASSUME RInv, NEW r \in Requests, Justified(r)',
           \A o \in Requests \ {r} : /\ call'[o] = call[o] /\ pc'[o] = pc[o]
                                     /\ plan'[o] = plan[o] /\ step'[o] = step[o],
           UNCHANGED <<transactions, events>>, sessions \subseteq sessions',
           Inserted(r)' \subseteq Inserted(r),
           Marked(r)' => /\ call'[r] = call[r]
                         /\ Marked(r) \/ EventFree(r)
    PROVE  Facts'
<1>1. \A o \in Requests : Justified(o)'
  BY OthersStayJustified DEF RInv, Facts
<1>2. \A o \in Requests \ {r} : Inserted(o)' = Inserted(o) /\ Marked(o)' = Marked(o)
  BY DEF Inserted, Inserts, Executed, Marked
<1>3. MarksAreExclusive'
  BY <1>2 DEF RInv, Facts, MarksAreExclusive, EventFree
<1>4. KeysInv'
  BY <1>2, KeysAreKept DEF RInv, Facts
<1> QED
  BY <1>1, <1>3, <1>4 DEF Facts

LEMMA StartKeepsFacts ==
    ASSUME RInv, NEW r \in Requests, Start(r)
    PROVE  Facts'
<1>1. /\ pc[r] = "idle" /\ UNCHANGED <<balances, transactions, plan, step, events>>
      /\ sessions \subseteq sessions'
      /\ \E phase \in {"initiated", "sourceRead", "parentRead"}, c \in {call'[r]} :
            Enter(r, phase, c)
  <2>1. pc \in [Requests -> Phases] /\ call \in [Requests -> Call]
    BY DEF RInv, IInv, TypeOK
  <2> QED
    BY <2>1 DEF Start, Topup, Withdraw, Transfer, Webhook, Enter
<1>2. /\ pc'[r] \in {"initiated", "sourceRead", "parentRead"}
      /\ \A o \in Requests \ {r} : call'[o] = call[o] /\ pc'[o] = pc[o]
  BY <1>1 DEF Enter, RInv, IInv, TypeOK
<1>3. ~ Marked(r)' /\ Inserted(r)' = Inserted(r)
  BY <1>1, <1>2 DEF Marked, Inserted, Inserts, Executed
<1>4. Justified(r)'
  <2>1. ASSUME NEW a \in Customers, NEW m \in Amounts, Topup(r, a, m) \/ Withdraw(r, a, m)
        PROVE  Justified(r)'
    <3>1. pc'[r] = "initiated" /\ GatewayFacts(r)'
      BY <2>1 DEF Topup, Withdraw, Enter, GatewayFacts, GatewayCall, Limit, RInv, IInv, TypeOK
    <3> QED
      BY <3>1 DEF Justified
  <2>2. ASSUME NEW a \in Customers, NEW to \in Customers \cup Merchants,
               NEW m \in Amounts, NEW ref \in ClientRefs, Transfer(r, a, to, m, ref)
        PROVE  Justified(r)'
    <3>1. ref \in References /\ balances[a] \in Row
      BY ClientRefsAssumption, CustomersAreAccounts DEF RInv, IInv, TypeOK, LedgerTypeOK
    <3>2. pc'[r] = "sourceRead" /\ TransferFacts(call[r])'
      BY <2>2, <3>1 DEF Transfer, Enter, TransferFacts, TransferCall, Sufficient, RInv, IInv, TypeOK
    <3> QED
      BY <3>2 DEF Justified
  <2>3. ASSUME NEW e \in Event, Webhook(r, e)
        PROVE  Justified(r)'
    <3>1. PICK parent \in transactions :
              /\ parent.reference = ParentReference(e)
              /\ parent.status \notin {"applied", "void"}
              /\ Enter(r, "parentRead",
                       [op |-> "webhook", event |-> e, parent |-> parent])
      BY <2>3 DEF Webhook
    <3>2. parent \in Transaction /\ parent.status = "inflight"
      BY <3>1 DEF RInv, IInv, TypeOK, LedgerTypeOK, Transaction, Statuses
    <3>3. pc'[r] = "parentRead" /\ WebhookFacts(call[r])'
      BY <1>1, <2>3, <3>1, <3>2
         DEF Webhook, Enter, WebhookFacts, WebhookCall, KnownStatus, ParentReference,
             RInv, IInv, TypeOK
    <3> QED
      BY <3>3 DEF Justified
  <2> QED
    BY <2>1, <2>2, <2>3 DEF Start
<1> QED
  BY <1>1, <1>2, <1>3, <1>4, SilentStepKeepsFacts

(***************************************************************************)
(* The step that decides what to execute.                                  *)
(***************************************************************************)
LEMMA BeginKeepsFacts ==
    ASSUME RInv, NEW r \in Requests, NEW p, Begin(r, p),
           UNCHANGED <<call, sessions, events>>,
           pc[r] # "writing",
           call[r].op = "webhook" => pc[r] = "marked",
           \/ TopupPlanned(r)' \/ WithdrawPlanned(r)'
           \/ TransferPlanned(r)' \/ SettlementPlanned(r)'
    PROVE  Facts'
<1>1. /\ pc' = [pc EXCEPT ![r] = "writing"] /\ plan' = [plan EXCEPT ![r] = p]
      /\ step' = step /\ transactions' = transactions
  BY DEF Begin
<1>2. /\ pc'[r] = "writing"
      /\ \A o \in Requests \ {r} : pc'[o] = pc[o] /\ plan'[o] = plan[o]
  BY <1>1 DEF RInv, IInv, TypeOK, LedgerTypeOK
<1>3. step'[r] = 0
  BY <1>1 DEF RInv, IInv, CallsFollowPhases
<1>4. Inserted(r)' = {}
  BY <1>3 DEF Inserted, Inserts, Executed
<1>5. Marked(r)' => Marked(r)
  BY DEF Marked
<1>6. Justified(r)'
  BY <1>2 DEF Justified
<1> QED
  BY <1>1, <1>2, <1>4, <1>5, <1>6, SilentStepKeepsFacts

LEMMA PlannedReads ==
    ASSUME NEW r, NEW m, NEW parent, NEW c, NEW a, NEW read, NEW status
    PROVE  /\ TopupPlan(r, a, m, read)[2].read = read
           /\ WithdrawPlan(r, a, m, read)[2].read = read
           /\ TransferPlan(c, read)[3].read = read
           /\ TopupWebhookPlan(r, parent, status, read)[2].read = read
           /\ PayoutWebhookPlan(r, parent, status, read)[2].read = read
BY DEF TopupPlan, WithdrawPlan, TransferPlan, TopupWebhookPlan, PayoutWebhookPlan,
       Update, Insert

LEMMA ReadsKeepFacts ==
    ASSUME RInv, NEW r \in Requests,
           \/ TopupRead(r) \/ WithdrawRead(r) \/ TransferRead(r)
           \/ TopupWebhookRead(r) \/ PayoutWebhookRead(r)
    PROVE  Facts'
<1>1. UNCHANGED <<call, sessions, events>> /\ Justified(r)
  BY DEF TopupRead, WithdrawRead, TransferRead, TopupWebhookRead, PayoutWebhookRead,
         RInv, Facts
<1>2. ASSUME NEW p, Begin(r, p)
      PROVE  plan'[r] = p /\ transactions' = transactions
  BY <1>2 DEF Begin, RInv, IInv, TypeOK, LedgerTypeOK
<1>3. CASE TopupRead(r)
  <2> DEFINE p == TopupPlan(r, call[r].account, call[r].amount, balances[call[r].account])
  <2>1. pc[r] = "initiated" /\ call[r].op = "topup" /\ Begin(r, p)
    BY <1>3 DEF TopupRead
  <2>2. TopupPlanned(r)'
    BY <1>1, <1>2, <2>1, PlannedReads DEF TopupPlanned, Justified, GatewayFacts
  <2> QED
    BY <1>1, <2>1, <2>2, BeginKeepsFacts
<1>4. CASE WithdrawRead(r)
  <2> DEFINE p == WithdrawPlan(r, call[r].account, call[r].amount, balances[call[r].account])
  <2>1. /\ pc[r] = "initiated" /\ call[r].op = "withdrawal" /\ Begin(r, p)
        /\ Sufficient(balances[call[r].account], call[r].amount)
    BY <1>4 DEF WithdrawRead
  <2>2. WithdrawPlanned(r)'
    BY <1>1, <1>2, <2>1, PlannedReads DEF WithdrawPlanned, Justified, GatewayFacts, Sufficient
  <2> QED
    BY <1>1, <2>1, <2>2, BeginKeepsFacts
<1>5. CASE TransferRead(r)
  <2> DEFINE p == TransferPlan(call[r], balances[call[r].to])
  <2>1. pc[r] = "sourceRead" /\ TransferAllowed(call[r]) /\ Begin(r, p)
    BY <1>5 DEF TransferRead
  <2>2. TransferPlanned(r)'
    BY <1>1, <1>2, <2>1, PlannedReads
       DEF TransferPlanned, Justified, TransferFacts, TransferAllowed, Sufficient
  <2>3. call[r].op = "transfer"
    BY <1>1, <2>1 DEF Justified, TransferFacts, TransferCall
  <2> QED
    BY <1>1, <2>1, <2>2, <2>3, BeginKeepsFacts
<1>6. ASSUME NEW read, NEW p, Begin(r, p), pc[r] = "marked",
             \/ /\ call[r].event.prefix = "topup"
                /\ p = TopupWebhookPlan(r, call[r].parent,
                                        SettledStatus(call[r].event.status), read)
             \/ /\ call[r].event.prefix = "withdrawal"
                /\ p = PayoutWebhookPlan(r, call[r].parent,
                                         SettledStatus(call[r].event.status), read)
      PROVE  Facts'
  <2>1. WebhookFacts(call[r]) /\ call[r].event \notin events
    BY <1>1, <1>6 DEF Justified
  <2>2. WebhookFacts(call[r])' /\ (call[r].event \notin events)'
    BY <1>1, <1>2, <1>6, <2>1 DEF WebhookFacts
  <2>3. p[2].read = read
    BY <1>6, PlannedReads
  <2>4. SettlementPlanned(r)'
    BY <1>1, <1>2, <1>6, <2>2, <2>3 DEF SettlementPlanned
  <2> QED
    BY <1>1, <1>6, <2>4, BeginKeepsFacts
<1>7. CASE TopupWebhookRead(r) \/ PayoutWebhookRead(r)
  BY <1>6, <1>7 DEF TopupWebhookRead, PayoutWebhookRead
<1> QED
  BY <1>3, <1>4, <1>5, <1>7

(***************************************************************************)
(* The event is marked; a statement is executed; the request rolls back.   *)
(***************************************************************************)
LEMMA MarkProcessedKeepsFacts ==
    ASSUME RInv, NEW r \in Requests, MarkProcessed(r)
    PROVE  Facts'
<1>1. /\ pc[r] = "parentRead" /\ pc' = [pc EXCEPT ![r] = "marked"]
      /\ UNCHANGED <<balances, transactions, plan, step, call, sessions, events>>
      /\ EventFree(r) /\ call[r].event \notin events
  BY DEF MarkProcessed, IsNew
<1>2. pc'[r] = "marked" /\ \A o \in Requests \ {r} : pc'[o] = pc[o]
  BY <1>1 DEF RInv, IInv, TypeOK
<1>3. WebhookFacts(call[r])
  BY <1>1 DEF RInv, Facts, Justified
<1>4. Justified(r)'
  BY <1>1, <1>2, <1>3 DEF Justified, WebhookFacts
<1>5. Inserted(r)' = Inserted(r)
  BY <1>1 DEF Inserted, Inserts, Executed
<1> QED
  BY <1>1, <1>2, <1>4, <1>5, SilentStepKeepsFacts

LEMMA RollbackKeepsFacts ==
    ASSUME RInv, NEW r \in Requests, Rollback(r), Leave(r),
           UNCHANGED <<sessions, events>>
    PROVE  Facts'
<1>1. /\ pc' = [pc EXCEPT ![r] = "failed"] /\ plan' = [plan EXCEPT ![r] = << >>]
      /\ step' = [step EXCEPT ![r] = 0] /\ call' = [call EXCEPT ![r] = NoCall]
      /\ transactions' = transactions
  BY DEF Rollback, Leave
<1>2. /\ pc'[r] = "failed" /\ step'[r] = 0 /\ call'[r] = NoCall
      /\ \A o \in Requests \ {r} : /\ call'[o] = call[o] /\ pc'[o] = pc[o]
                                   /\ plan'[o] = plan[o] /\ step'[o] = step[o]
  BY <1>1 DEF RInv, IInv, TypeOK, LedgerTypeOK
<1>3. ~ Marked(r)' /\ Inserted(r)' = {} /\ Justified(r)'
  BY <1>2 DEF Marked, Inserted, Inserts, Executed, Justified
<1> QED
  BY <1>1, <1>2, <1>3, SilentStepKeepsFacts

LEMMA ExecuteKeepsFacts ==
    ASSUME RInv, NEW r \in Requests, UpdateBalance(r) \/ Record(r),
           UNCHANGED <<call, sessions, events>>
    PROVE  Facts'
<1>1. pc' = pc /\ plan' = plan /\ transactions' = transactions
  BY DEF UpdateBalance, Record, Execute
<1>2. \A o \in Requests : Justified(o)'
  BY <1>1, OthersStayJustified DEF RInv, Facts
<1>3. MarksAreExclusive'
  BY <1>1 DEF RInv, Facts, MarksAreExclusive, Marked
<1>4. KeysInv'
  BY ExecuteKeepsKeys DEF RInv, IInv, Facts
<1> QED
  BY <1>2, <1>3, <1>4 DEF Facts

(***************************************************************************)
(* The commit: its keys and its event are no other request's.              *)
(***************************************************************************)
LEMMA FinishKeepsFacts ==
    ASSUME RInv, NEW r \in Requests, Finish(r)
    PROVE  Facts'
<1>1. /\ Commit(r) /\ Ends(r) /\ pc[r] = "writing" /\ sessions' = sessions
      /\ pc' = [pc EXCEPT ![r] = "done"] /\ call' = [call EXCEPT ![r] = NoCall]
      /\ transactions' = transactions \cup {s.row : s \in Inserts(Executed(r))}
  BY DEF Finish, Commit, Ends, Leave
<1>2. /\ pc'[r] = "done" /\ call'[r] = NoCall
      /\ \A o \in Requests \ {r} : /\ call'[o] = call[o] /\ pc'[o] = pc[o]
                                   /\ plan'[o] = plan[o] /\ step'[o] = step[o]
  BY <1>1 DEF Ends, RInv, IInv, TypeOK, LedgerTypeOK
<1>3. KeysInv'
  BY <1>1, EndKeepsKeys DEF RInv, IInv, Facts
<1>4. ASSUME NEW o \in Requests \ {r}, Marked(o), call[o].event \in events'
      PROVE  call[o].event \in events
  <2>1. events' = IF call[r].op = "webhook"
                  THEN events \cup {call[r].event} ELSE events
    BY DEF Finish
  <2>2. call[r].op = "webhook" => call[r].event # call[o].event
    BY <1>1, <1>4 DEF RInv, Facts, MarksAreExclusive, Marked
  <2> QED
    BY <1>4, <2>1, <2>2
<1>5. \A o \in Requests \ {r} : Justified(o)'
  BY <1>1, <1>2, <1>4, OthersStayJustified DEF RInv, Facts
<1>6. Justified(r)' /\ ~ Marked(r)'
  BY <1>2 DEF Justified, Marked
<1>7. MarksAreExclusive'
  BY <1>2, <1>6 DEF RInv, Facts, MarksAreExclusive, Marked
<1> QED
  BY <1>3, <1>5, <1>6, <1>7 DEF Facts

LEMMA NextKeepsFacts == RInv /\ [Next]_vars => Facts'
<1> SUFFICES ASSUME RInv, [Next]_vars
             PROVE  Facts'
  OBVIOUS
<1>1. ASSUME NEW r \in Requests, Start(r)
      PROVE  Facts'
  BY <1>1, StartKeepsFacts
<1>2. ASSUME NEW r \in Requests, Step(r)
      PROVE  Facts'
  <2>1. CASE WithdrawInsufficient(r) \/ TransferRefused(r) \/ AlreadyProcessed(r)
    BY <2>1, RollbackKeepsFacts
       DEF WithdrawInsufficient, TransferRefused, AlreadyProcessed, Return
  <2>2. CASE Statements(r)
    BY <2>2, RollbackKeepsFacts, ExecuteKeepsFacts
       DEF Statements, OptimisticLock, DuplicateReference
  <2> QED
    BY <1>2, <2>1, <2>2, ReadsKeepFacts, MarkProcessedKeepsFacts, FinishKeepsFacts
       DEF Step
<1>3. ASSUME NEW r \in Requests, Fail(r)
      PROVE  Facts'
  BY <1>3, RollbackKeepsFacts DEF Fail, Return
<1>4. CASE UNCHANGED vars
  <2>1. UNCHANGED <<balances, transactions, pc, plan, step>>
        /\ UNCHANGED <<call, sessions, events>>
    BY <1>4 DEF vars, ledgerVars
  <2>2. \A o \in Requests : Justified(o)'
    BY <2>1, OthersStayJustified DEF RInv, Facts
  <2>3. \A o \in Requests : Inserted(o)' = Inserted(o) /\ Marked(o)' = Marked(o)
    BY <2>1 DEF Inserted, Inserts, Executed, Marked
  <2>4. MarksAreExclusive'
    BY <2>1, <2>3 DEF RInv, Facts, MarksAreExclusive
  <2>5. KeysInv'
    BY <2>1, <2>3, KeysAreKept DEF RInv, Facts
  <2> QED
    BY <2>2, <2>4, <2>5 DEF Facts
<1> QED
  BY <1>1, <1>2, <1>3, <1>4 DEF Next, Terminating

-----------------------------------------------------------------------------
(***************************************************************************)
(* The effect of a commit on the money, the rows without their versions.   *)
(***************************************************************************)
Money == [a \in Accounts |-> MoneyOf(balances[a])]

LEMMA StoredMoney ==
    ASSUME NEW a, NEW read, NEW row \in Row
    PROVE  MoneyOf(Stored(Update(a, read, row))) = MoneyOf(row)
BY DEF MoneyOf, Stored, Update, Row

LEMMA MoneyRecord ==
    ASSUME NEW x, DOMAIN x = {"balance", "credit", "debit"},
           x = [field \in DOMAIN x |-> x[field]]
    PROVE  x = [balance |-> x.balance, credit |-> x.credit, debit |-> x.debit]
OBVIOUS

LEMMA MoneyEffects ==
    ASSUME NEW row \in Row, NEW m
    PROVE  /\ MoneyOf([row EXCEPT !.credit = Int64(@ + m)]) = [MoneyOf(row) EXCEPT !.credit = Int64(@ + m)]
           /\ MoneyOf([row EXCEPT !.balance = Int64(@ - m), !.debit = Int64(@ + m)])
                = [MoneyOf(row) EXCEPT !.balance = Int64(@ - m), !.debit = Int64(@ + m)]
           /\ MoneyOf([row EXCEPT !.balance = Int64(@ - m)]) = [MoneyOf(row) EXCEPT !.balance = Int64(@ - m)]
           /\ MoneyOf([row EXCEPT !.balance = Int64(@ + m)]) = [MoneyOf(row) EXCEPT !.balance = Int64(@ + m)]
           /\ MoneyOf(TopupSettled(row, m, "applied"))
                = [MoneyOf(row) EXCEPT !.credit = Int64(@ - m), !.balance = Int64(@ + m)]
           /\ MoneyOf(TopupSettled(row, m, "void")) = [MoneyOf(row) EXCEPT !.credit = Int64(@ - m)]
           /\ MoneyOf(PayoutSettled(row, m, "applied")) = [MoneyOf(row) EXCEPT !.debit = Int64(@ - m)]
           /\ MoneyOf(PayoutSettled(row, m, "void"))
                = [MoneyOf(row) EXCEPT !.debit = Int64(@ - m), !.balance = Int64(@ + m)]
<1>1. MoneyOf(row) = [balance |-> row.balance, credit |-> row.credit, debit |-> row.debit]
  BY DEF MoneyOf
<1>2. /\ MoneyOf(row).balance = row.balance /\ MoneyOf(row).credit = row.credit
      /\ MoneyOf(row).debit = row.debit
  BY <1>1
<1>3. /\ MoneyOf([row EXCEPT !.credit = Int64(@ + m)]) = [MoneyOf(row) EXCEPT !.credit = Int64(@ + m)]
      /\ MoneyOf([row EXCEPT !.balance = Int64(@ - m)]) = [MoneyOf(row) EXCEPT !.balance = Int64(@ - m)]
      /\ MoneyOf([row EXCEPT !.balance = Int64(@ + m)]) = [MoneyOf(row) EXCEPT !.balance = Int64(@ + m)]
  BY DEF MoneyOf, Row
<1>4. MoneyOf([row EXCEPT !.balance = Int64(@ - m), !.debit = Int64(@ + m)])
        = [balance |-> Int64(row.balance - m), credit |-> row.credit, debit |-> Int64(row.debit + m)]
  BY DEF MoneyOf, Row
<1>5. /\ MoneyOf(TopupSettled(row, m, "applied"))
           = [balance |-> Int64(row.balance + m), credit |-> Int64(row.credit - m), debit |-> row.debit]
      /\ MoneyOf(TopupSettled(row, m, "void"))
           = [balance |-> row.balance, credit |-> Int64(row.credit - m), debit |-> row.debit]
  BY DEF MoneyOf, TopupSettled, Row
<1>6. /\ MoneyOf(PayoutSettled(row, m, "void"))
           = [balance |-> Int64(row.balance + m), credit |-> row.credit, debit |-> Int64(row.debit - m)]
      /\ MoneyOf(PayoutSettled(row, m, "applied"))
           = [balance |-> row.balance, credit |-> row.credit, debit |-> Int64(row.debit - m)]
  BY DEF MoneyOf, PayoutSettled, Row
<1>7. [MoneyOf(row) EXCEPT !.balance = Int64(@ - m), !.debit = Int64(@ + m)]
        = [balance |-> Int64(row.balance - m), credit |-> row.credit, debit |-> Int64(row.debit + m)]
  <2> DEFINE x == [MoneyOf(row) EXCEPT !.balance = Int64(@ - m), !.debit = Int64(@ + m)]
  <2>1. DOMAIN x = {"balance", "credit", "debit"} /\ x = [field \in DOMAIN x |-> x[field]]
    BY <1>1
  <2>2. x.balance = Int64(row.balance - m) /\ x.credit = row.credit /\ x.debit = Int64(row.debit + m)
    BY <1>1, <1>2
  <2> HIDE DEF x
  <2> QED
    BY <2>1, <2>2, MoneyRecord DEF x
<1>8. [MoneyOf(row) EXCEPT !.credit = Int64(@ - m), !.balance = Int64(@ + m)]
        = [balance |-> Int64(row.balance + m), credit |-> Int64(row.credit - m), debit |-> row.debit]
  <2> DEFINE x == [MoneyOf(row) EXCEPT !.credit = Int64(@ - m), !.balance = Int64(@ + m)]
  <2>1. DOMAIN x = {"balance", "credit", "debit"} /\ x = [field \in DOMAIN x |-> x[field]]
    BY <1>1
  <2>2. x.balance = Int64(row.balance + m) /\ x.credit = Int64(row.credit - m) /\ x.debit = row.debit
    BY <1>1, <1>2
  <2> HIDE DEF x
  <2> QED
    BY <2>1, <2>2, MoneyRecord DEF x
<1>9. [MoneyOf(row) EXCEPT !.debit = Int64(@ - m), !.balance = Int64(@ + m)]
        = [balance |-> Int64(row.balance + m), credit |-> row.credit, debit |-> Int64(row.debit - m)]
  <2> DEFINE x == [MoneyOf(row) EXCEPT !.debit = Int64(@ - m), !.balance = Int64(@ + m)]
  <2>1. DOMAIN x = {"balance", "credit", "debit"} /\ x = [field \in DOMAIN x |-> x[field]]
    BY <1>1
  <2>2. x.balance = Int64(row.balance + m) /\ x.credit = row.credit /\ x.debit = Int64(row.debit - m)
    BY <1>1, <1>2
  <2> HIDE DEF x
  <2> QED
    BY <2>1, <2>2, MoneyRecord DEF x
<1>10. /\ [MoneyOf(row) EXCEPT !.credit = Int64(@ - m)]
           = [balance |-> row.balance, credit |-> Int64(row.credit - m), debit |-> row.debit]
      /\ [MoneyOf(row) EXCEPT !.debit = Int64(@ - m)]
           = [balance |-> row.balance, credit |-> row.credit, debit |-> Int64(row.debit - m)]
  BY <1>1, <1>2
<1> QED
  BY <1>3, <1>4, <1>5, <1>6, <1>7, <1>8, <1>9, <1>10

LEMMA CommitRecordsOne ==
    ASSUME RInv, NEW r \in Requests, Commit(r), NEW t, Inserts(Planned(r)) = {Insert(t)}
    PROVE  /\ transactions' = transactions \cup {t}
           /\ t.reference \notin ReferencesOf(transactions)
<1>1. LedgerInv /\ KeysInv
  BY DEF RInv, IInv, Facts
<1>2. Insert(t).row = t
  BY DEF Insert
<1>3. {s.row : s \in {Insert(t)}} = {t}
  BY <1>2
<1>4. /\ transactions' = transactions \cup {s.row : s \in Inserts(Planned(r))}
      /\ \A s \in Inserts(Planned(r)) : s.row.reference \notin ReferencesOf(transactions)
  BY <1>1, CommitRecords
<1> QED
  BY <1>2, <1>3, <1>4

(***************************************************************************)
(* Two fields of one account changed one after the other.                  *)
(***************************************************************************)
LEMMA MoneyDomain ==
    /\ DOMAIN Money = Accounts
    /\ Money = [a \in DOMAIN Money |-> Money[a]]
    /\ \A a \in Accounts : /\ Money[a] = MoneyOf(balances[a])
                           /\ DOMAIN Money[a] = {"balance", "credit", "debit"}
BY DEF Money, MoneyOf

LEMMA TwoFieldsAtOnce ==
    ASSUME NEW a \in Accounts, NEW m
    PROVE  /\ [Money EXCEPT ![a].balance = Int64(@ - m), ![a].debit = Int64(@ + m)]
                = [Money EXCEPT ![a] = [Money[a] EXCEPT !.balance = Int64(@ - m), !.debit = Int64(@ + m)]]
           /\ [Money EXCEPT ![a].credit = Int64(@ - m), ![a].balance = Int64(@ + m)]
                = [Money EXCEPT ![a] = [Money[a] EXCEPT !.credit = Int64(@ - m), !.balance = Int64(@ + m)]]
           /\ [Money EXCEPT ![a].debit = Int64(@ - m), ![a].balance = Int64(@ + m)]
                = [Money EXCEPT ![a] = [Money[a] EXCEPT !.debit = Int64(@ - m), !.balance = Int64(@ + m)]]
BY MoneyDomain

LEMMA PlannedRowsAreRows ==
    ASSUME TypeOK, NEW r \in Requests, NEW t, NEW a, NEW read, NEW row,
           \/ plan[r] = << Insert(t), Update(a, read, row) >>
           \/ \E b, read2, row2 :
                 plan[r] = << Insert(t), Update(a, read, row), Update(b, read2, row2) >>
    PROVE  read \in Row /\ row \in Row
<1>1. plan[r] \in Seq(Statement)
  BY DEF TypeOK, LedgerTypeOK
<1>2. Len(plan[r]) \in {2, 3} /\ plan[r][2] = Update(a, read, row)
  OBVIOUS
<1>3. Update(a, read, row) \in Statement
  BY <1>1, <1>2
<1> QED
  BY <1>3 DEF Update, Statement

LEMMA OneUpdateCommits ==
    ASSUME RInv, NEW r \in Requests, Commit(r),
           NEW t, NEW a \in Accounts, NEW read, NEW row \in Row,
           plan[r] = << Insert(t), Update(a, read, row) >>
    PROVE  /\ transactions' = transactions \cup {t}
           /\ t.reference \notin ReferencesOf(transactions)
           /\ read = balances[a]
           /\ Money' = [Money EXCEPT ![a] = MoneyOf(row)]
<1> DEFINE u == Update(a, read, row)
<1>1. Planned(r) = {Insert(t), u}
  <2>1. Len(plan[r]) = 2 /\ plan[r][1] = Insert(t) /\ plan[r][2] = u
    OBVIOUS
  <2> HIDE DEF u
  <2> QED
    BY <2>1 DEF Planned
<1>2. Insert(t).table = "transactions" /\ u.table = "balances" /\ u.account = a /\ u.read = read
  BY DEF Insert, Update
<1> HIDE DEF u
<1>3. Updates(Planned(r)) = {u} /\ Inserts(Planned(r)) = {Insert(t)}
  BY <1>1, <1>2 DEF Updates, Inserts
<1>4. read = balances[a]
  BY <1>2, <1>3, CommitReadsAreCurrent DEF RInv, IInv
<1>5. Updates(Executed(r)) = {u}
  BY <1>3, ExecutedArePlanned DEF Commit, RInv, IInv, LedgerInv
<1>6. \A b \in Accounts : balances'[b] = IF b = a THEN Stored(u) ELSE balances[b]
  BY <1>2, <1>5 DEF Commit
<1>7. MoneyOf(Stored(u)) = MoneyOf(row)
  BY StoredMoney DEF u
<1>8. Money' = [Money EXCEPT ![a] = MoneyOf(row)]
  BY <1>6, <1>7 DEF Money
<1> QED
  BY <1>3, <1>4, <1>8, CommitRecordsOne

LEMMA TwoUpdatesCommit ==
    ASSUME RInv, NEW r \in Requests, Commit(r),
           NEW t, NEW a \in Accounts, NEW read, NEW row \in Row,
           NEW b \in Accounts \ {a}, NEW read2, NEW row2 \in Row,
           plan[r] = << Insert(t), Update(a, read, row), Update(b, read2, row2) >>
    PROVE  /\ transactions' = transactions \cup {t}
           /\ t.reference \notin ReferencesOf(transactions)
           /\ read = balances[a] /\ read2 = balances[b]
           /\ Money' = [Money EXCEPT ![a] = MoneyOf(row), ![b] = MoneyOf(row2)]
<1> DEFINE u == Update(a, read, row)
           v == Update(b, read2, row2)
<1>1. Planned(r) = {Insert(t), u, v}
  <2>1. /\ Len(plan[r]) = 3
        /\ plan[r][1] = Insert(t) /\ plan[r][2] = u /\ plan[r][3] = v
    OBVIOUS
  <2> HIDE DEF u, v
  <2> QED
    BY <2>1 DEF Planned
<1>2. /\ Insert(t).table = "transactions"
      /\ u.table = "balances" /\ u.account = a /\ u.read = read
      /\ v.table = "balances" /\ v.account = b /\ v.read = read2
  BY DEF Insert, Update
<1> HIDE DEF u, v
<1>3. Updates(Planned(r)) = {u, v} /\ Inserts(Planned(r)) = {Insert(t)}
  BY <1>1, <1>2 DEF Updates, Inserts
<1>4. read = balances[a] /\ read2 = balances[b]
  BY <1>2, <1>3, CommitReadsAreCurrent DEF RInv, IInv
<1>5. Updates(Executed(r)) = {u, v}
  BY <1>3, ExecutedArePlanned DEF Commit, RInv, IInv, LedgerInv
<1>6. \A c \in Accounts : balances'[c] = IF c = a THEN Stored(u)
                                        ELSE IF c = b THEN Stored(v) ELSE balances[c]
  <2> SUFFICES ASSUME NEW c \in Accounts
               PROVE  balances'[c] = IF c = a THEN Stored(u)
                                     ELSE IF c = b THEN Stored(v) ELSE balances[c]
    OBVIOUS
  <2>1. balances'[c] = IF \E s \in {u, v} : s.account = c
                       THEN Stored(CHOOSE s \in {u, v} : s.account = c) ELSE balances[c]
    BY <1>5 DEF Commit
  <2>2. c = a => (CHOOSE s \in {u, v} : s.account = c) = u
    BY <1>2
  <2>3. c = b => (CHOOSE s \in {u, v} : s.account = c) = v
    BY <1>2
  <2> QED
    BY <1>2, <2>1, <2>2, <2>3
<1>7. MoneyOf(Stored(u)) = MoneyOf(row) /\ MoneyOf(Stored(v)) = MoneyOf(row2)
  BY StoredMoney DEF u, v
<1>8. Money' = [Money EXCEPT ![a] = MoneyOf(row), ![b] = MoneyOf(row2)]
  BY <1>6, <1>7 DEF Money
<1> QED
  BY <1>3, <1>4, <1>8, CommitRecordsOne

-----------------------------------------------------------------------------
(***************************************************************************)
(* Each commit is the step WalletsAtomic takes for its request.            *)
(***************************************************************************)
LEMMA AtomicPost ==
    ASSUME NEW t, NEW moved,
           transactions' = transactions \cup {t},
           t.reference \notin ReferencesOf(transactions),
           Money' = moved
    PROVE  Atomic!Post(t, moved)
BY DEF Atomic!Post, Atomic!Journalled, ReferencesOf, Money

LEMMA TopupCommits ==
    ASSUME RInv, NEW r \in Requests, Finish(r), TopupPlanned(r)
    PROVE  Atomic!RequestTopup(r, call[r].account, call[r].amount)
<1> DEFINE a == call[r].account
           m == call[r].amount
           read == plan[r][2].read
           t == Transfers(Reference("topup", r), World, a, m, "inflight")
           row == [read EXCEPT !.credit = Int64(@ + m)]
<1>1. /\ a \in Accounts /\ m \in Amounts /\ m <= MaxTopupAmount
      /\ [prefix |-> "topup", ref |-> r] \in sessions /\ call[r].op = "topup"
  BY CustomersAreAccounts DEF TopupPlanned, GatewayFacts, GatewayCall, Limit
<1>2. plan[r] = << Insert(t), Update(a, read, row) >>
  BY DEF TopupPlanned, TopupPlan
<1>3. Commit(r) /\ UNCHANGED <<sessions, events>>
  BY <1>1 DEF Finish
<1>4. read \in Row
  BY <1>2, PlannedRowsAreRows DEF RInv, IInv
<1>5. row \in Row
  BY <1>1, <1>4, AmountsAssumption, RowEffects
<1> HIDE DEF a, m, read, t, row
<1>6. /\ transactions' = transactions \cup {t}
      /\ t.reference \notin ReferencesOf(transactions)
      /\ read = balances[a]
      /\ Money' = [Money EXCEPT ![a] = MoneyOf(row)]
  BY <1>1, <1>2, <1>3, <1>5, OneUpdateCommits
<1>7. MoneyOf(row) = [MoneyOf(balances[a]) EXCEPT !.credit = Int64(@ + m)]
  BY <1>4, <1>6, MoneyEffects DEF row
<1>8. Money' = [Money EXCEPT ![a].credit = Int64(@ + m)]
  BY <1>1, <1>6, <1>7 DEF Money
<1>9. Atomic!Post(t, [Money EXCEPT ![a].credit = Int64(@ + m)])
  BY <1>6, <1>8, AtomicPost
<1> QED
  BY <1>1, <1>3, <1>9 DEF Atomic!RequestTopup, Atomic!Transfers, Transfers, Atomic!Int64, Int64, Atomic!Reference, Reference,
                         Money, t, a, m


LEMMA WithdrawCommits ==
    ASSUME RInv, NEW r \in Requests, Finish(r), WithdrawPlanned(r)
    PROVE  Atomic!ReserveWithdrawal(r, call[r].account, call[r].amount)
<1> DEFINE a == call[r].account
           m == call[r].amount
           read == plan[r][2].read
           t == Transfers(Reference("withdrawal", r), a, World, m, "inflight")
           row == [read EXCEPT !.balance = Int64(@ - m), !.debit = Int64(@ + m)]
<1>1. /\ a \in Accounts /\ m \in Amounts /\ m <= MaxWithdrawalAmount
      /\ [prefix |-> "withdrawal", ref |-> r] \in sessions /\ call[r].op = "withdrawal"
  BY CustomersAreAccounts DEF WithdrawPlanned, GatewayFacts, GatewayCall, Limit
<1>2. plan[r] = << Insert(t), Update(a, read, row) >>
  BY DEF WithdrawPlanned, WithdrawPlan
<1>3. Commit(r) /\ UNCHANGED <<sessions, events>>
  BY <1>1 DEF Finish
<1>4. read \in Row
  BY <1>2, PlannedRowsAreRows DEF RInv, IInv
<1>5. row \in Row
  BY <1>1, <1>4, AmountsAssumption, RowEffects
<1>6. read.balance >= m
  BY DEF WithdrawPlanned, Sufficient
<1> HIDE DEF a, m, read, t, row
<1>7. /\ transactions' = transactions \cup {t}
      /\ t.reference \notin ReferencesOf(transactions)
      /\ read = balances[a]
      /\ Money' = [Money EXCEPT ![a] = MoneyOf(row)]
  BY <1>1, <1>2, <1>3, <1>5, OneUpdateCommits
<1>8. MoneyOf(row) = [Money[a] EXCEPT !.balance = Int64(@ - m), !.debit = Int64(@ + m)]
  <2>1. Money[a] = MoneyOf(read)
    BY <1>1, <1>7, MoneyDomain
  <2>2. MoneyOf(row) = [MoneyOf(read) EXCEPT !.balance = Int64(@ - m), !.debit = Int64(@ + m)]
    BY <1>4, MoneyEffects DEF row
  <2> QED
    BY <2>1, <2>2
<1>9. Money' = [Money EXCEPT ![a].balance = Int64(@ - m), ![a].debit = Int64(@ + m)]
  <2>1. Money' = [Money EXCEPT ![a] = [Money[a] EXCEPT !.balance = Int64(@ - m), !.debit = Int64(@ + m)]]
    BY <1>7, <1>8
  <2> QED
    BY <1>1, <2>1, TwoFieldsAtOnce
<1>10. Atomic!Post(t, [Money EXCEPT ![a].balance = Int64(@ - m), ![a].debit = Int64(@ + m)])
  BY <1>7, <1>9, AtomicPost
<1>11. m <= Money[a].balance
  BY <1>1, <1>4, <1>6, <1>7 DEF Money, MoneyOf, Row
<1> QED
  BY <1>1, <1>3, <1>10, <1>11 DEF Atomic!ReserveWithdrawal, Atomic!Transfers, Transfers, Atomic!Int64, Int64, Atomic!Reference, Reference,
                                  Money, t, a, m

LEMMA TransferCommits ==
    ASSUME RInv, NEW r \in Requests, Finish(r), TransferPlanned(r)
    PROVE  \E a, b \in Customers, m \in Amounts, ref \in ClientRefs :
               Atomic!Transfer(a, b, m, ref)
<1> DEFINE c == call[r]
           a == c.account
           b == c.to
           m == c.amount
           read == plan[r][3].read
           t == Transfers(c.reference, a, b, m, "applied")
           debited == [c.read EXCEPT !.balance = Int64(@ - m)]
           credited == [read EXCEPT !.balance = Int64(@ + m)]
<1>1. c \in TransferCall /\ m <= MaxTransferAmount /\ c.read.balance >= m
  BY DEF TransferPlanned, TransferFacts, Sufficient
<1>2. c.reference \in ClientRefs
  BY DEF TransferPlanned, TransferFacts
<1>3. /\ a \in Customers /\ b \in Customers /\ a # b /\ m \in Amounts
      /\ c.read \in Row /\ c.op = "transfer"
  BY <1>1 DEF TransferCall, TransferPlanned, TransferAllowed
<1>4. a \in Accounts /\ b \in Accounts \ {a}
  BY <1>3, CustomersAreAccounts
<1>5. plan[r] = << Insert(t), Update(a, c.read, debited), Update(b, read, credited) >>
  BY DEF TransferPlanned, TransferPlan
<1>6. Commit(r) /\ UNCHANGED <<sessions, events>>
  BY <1>3 DEF Finish
<1>7. read \in Row
  <2>1. plan[r] \in Seq(Statement) /\ Len(plan[r]) = 3
    BY <1>5 DEF RInv, IInv, TypeOK, LedgerTypeOK
  <2>2. plan[r][3] \in Statement /\ plan[r][3] = Update(b, read, credited)
    BY <1>5, <2>1
  <2> HIDE DEF read
  <2> QED
    BY <2>2 DEF Update, Statement
<1>8. debited \in Row /\ credited \in Row
  BY <1>3, <1>7, AmountsAssumption, RowEffects
<1> HIDE DEF a, b, m, read, t, debited, credited
<1>9. /\ transactions' = transactions \cup {t}
      /\ t.reference \notin ReferencesOf(transactions)
      /\ c.read = balances[a] /\ read = balances[b]
      /\ Money' = [Money EXCEPT ![a] = MoneyOf(debited), ![b] = MoneyOf(credited)]
  BY <1>4, <1>5, <1>6, <1>8, TwoUpdatesCommit
<1>10. /\ MoneyOf(debited) = [Money[a] EXCEPT !.balance = Int64(@ - m)]
       /\ MoneyOf(credited) = [Money[b] EXCEPT !.balance = Int64(@ + m)]
  <2>1. Money[a] = MoneyOf(c.read) /\ Money[b] = MoneyOf(read)
    BY <1>4, <1>9, MoneyDomain
  <2>2. /\ MoneyOf(debited) = [MoneyOf(c.read) EXCEPT !.balance = Int64(@ - m)]
        /\ MoneyOf(credited) = [MoneyOf(read) EXCEPT !.balance = Int64(@ + m)]
    BY <1>3, <1>7, MoneyEffects DEF debited, credited
  <2> QED
    BY <2>1, <2>2
<1>11. Money' = [Money EXCEPT ![a].balance = Int64(@ - m), ![b].balance = Int64(@ + m)]
  BY <1>4, <1>9, <1>10 DEF Money
<1>12. Atomic!Post(t, [Money EXCEPT ![a].balance = Int64(@ - m), ![b].balance = Int64(@ + m)])
  BY <1>9, <1>11, AtomicPost
<1>13. m <= Money[a].balance
  BY <1>1, <1>3, <1>4, <1>9 DEF Money, MoneyOf, Row, m
<1>14. m <= MaxTransferAmount
  BY <1>1 DEF m
<1>15. t = Transfers(c.reference, a, b, m, "applied")
  BY DEF t
<1>16. Atomic!Transfer(a, b, m, c.reference)
  BY <1>3, <1>6, <1>12, <1>13, <1>14, <1>15
     DEF Atomic!Transfer, Atomic!Transfers, Transfers, Atomic!Int64, Int64, Money
<1> QED
  BY <1>2, <1>3, <1>16


(***************************************************************************)
(* A settlement: credit or debit is released, and the balance receives the *)
(* money of a successful top-up or of a failed payout.                     *)
(***************************************************************************)
LEMMA SettlementMoney ==
    ASSUME RInv, NEW r \in Requests, Commit(r),
           NEW t, NEW a \in Accounts, NEW m \in Int, NEW status, NEW read,
           NEW row \in {TopupSettled(read, m, status), PayoutSettled(read, m, status)},
           plan[r] = << Insert(t), Update(a, read, row) >>
    PROVE  /\ transactions' = transactions \cup {t}
           /\ t.reference \notin ReferencesOf(transactions)
           /\ Money' = [Money EXCEPT ![a] = MoneyOf(row)]
           /\ read \in Row /\ Money[a] = MoneyOf(read)
<1>1. read \in Row
  BY PlannedRowsAreRows DEF RInv, IInv
<1>2. row \in Row
  BY <1>1, RowEffects
<1>3. /\ transactions' = transactions \cup {t}
      /\ t.reference \notin ReferencesOf(transactions)
      /\ read = balances[a]
      /\ Money' = [Money EXCEPT ![a] = MoneyOf(row)]
  BY <1>2, OneUpdateCommits
<1> QED
  BY <1>1, <1>3, MoneyDomain

LEMMA TopupSettlementCommits ==
    ASSUME RInv, NEW r \in Requests, Commit(r), NEW e \in Event, KnownStatus(e.status),
           NEW parent \in Transaction, e.prefix = "topup",
           plan[r] = TopupWebhookPlan(r, parent, SettledStatus(e.status), plan[r][2].read)
    PROVE  Atomic!Post(SettlementOf(parent, Reference("topup", r), SettledStatus(e.status)),
                       Atomic!Settled(e, parent))
<1> DEFINE a == parent.destination
           m == parent.amount
           status == SettledStatus(e.status)
           read == plan[r][2].read
           t == SettlementOf(parent, Reference("topup", r), status)
           row == TopupSettled(read, m, status)
<1>1. a \in Accounts /\ m \in Int
  BY DEF Transaction, Int64s
<1>2. plan[r] = << Insert(t), Update(a, read, row) >>
  BY DEF TopupWebhookPlan
<1>3. /\ e.status = "succeeded" => status = "applied"
      /\ e.status = "failed" => status = "void"
      /\ e.status \in {"succeeded", "failed"}
  BY DEF SettledStatus, KnownStatus
<1> HIDE DEF a, m, status, read, t, row
<1>4. /\ transactions' = transactions \cup {t}
      /\ t.reference \notin ReferencesOf(transactions)
      /\ Money' = [Money EXCEPT ![a] = MoneyOf(row)]
      /\ read \in Row /\ Money[a] = MoneyOf(read)
  BY <1>1, <1>2, SettlementMoney DEF row
<1>5. CASE e.status = "succeeded"
  <2>1. MoneyOf(row) = [Money[a] EXCEPT !.credit = Int64(@ - m), !.balance = Int64(@ + m)]
    <3>1. row = TopupSettled(read, m, "applied")
      BY <1>3, <1>5 DEF row
    <3>2. MoneyOf(TopupSettled(read, m, "applied")) = [MoneyOf(read) EXCEPT !.credit = Int64(@ - m), !.balance = Int64(@ + m)]
      BY <1>4, MoneyEffects
    <3> QED
      BY <1>4, <3>1, <3>2
  <2>2. Money' = [Money EXCEPT ![a] = [Money[a] EXCEPT !.credit = Int64(@ - m), !.balance = Int64(@ + m)]]
    BY <1>4, <2>1
  <2>3. Money' = [Money EXCEPT ![a].credit = Int64(@ - m), ![a].balance = Int64(@ + m)]
    BY <1>1, <2>2, TwoFieldsAtOnce
  <2>4. Atomic!Settled(e, parent) = [Money EXCEPT ![a].credit = Int64(@ - m), ![a].balance = Int64(@ + m)]
    BY <1>5 DEF Atomic!Settled, Atomic!Int64, Int64, Money, a, m
  <2> QED
    BY <1>4, <2>3, <2>4, AtomicPost DEF t, status
<1>6. CASE e.status = "failed"
  <2>1. MoneyOf(row) = [Money[a] EXCEPT !.credit = Int64(@ - m)]
    <3>1. row = TopupSettled(read, m, "void")
      BY <1>3, <1>6 DEF row
    <3>2. MoneyOf(TopupSettled(read, m, "void")) = [MoneyOf(read) EXCEPT !.credit = Int64(@ - m)]
      BY <1>4, MoneyEffects
    <3> QED
      BY <1>4, <3>1, <3>2
  <2>2. Money' = [Money EXCEPT ![a].credit = Int64(@ - m)]
    BY <1>4, <2>1
  <2>3. Atomic!Settled(e, parent) = [Money EXCEPT ![a].credit = Int64(@ - m)]
    BY <1>6 DEF Atomic!Settled, Atomic!Int64, Int64, Money, a, m
  <2> QED
    BY <1>4, <2>2, <2>3, AtomicPost DEF t, status
<1> QED
  BY <1>3, <1>5, <1>6

LEMMA PayoutSettlementCommits ==
    ASSUME RInv, NEW r \in Requests, Commit(r), NEW e \in Event, KnownStatus(e.status),
           NEW parent \in Transaction, e.prefix = "withdrawal",
           plan[r] = PayoutWebhookPlan(r, parent, SettledStatus(e.status), plan[r][2].read)
    PROVE  Atomic!Post(SettlementOf(parent, Reference("withdrawal", r), SettledStatus(e.status)),
                       Atomic!Settled(e, parent))
<1> DEFINE a == parent.source
           m == parent.amount
           status == SettledStatus(e.status)
           read == plan[r][2].read
           t == SettlementOf(parent, Reference("withdrawal", r), status)
           row == PayoutSettled(read, m, status)
<1>1. a \in Accounts /\ m \in Int
  BY DEF Transaction, Int64s
<1>2. plan[r] = << Insert(t), Update(a, read, row) >>
  BY DEF PayoutWebhookPlan
<1>3. /\ e.status = "succeeded" => status = "applied"
      /\ e.status = "failed" => status = "void"
      /\ e.status \in {"succeeded", "failed"}
  BY DEF SettledStatus, KnownStatus
<1> HIDE DEF a, m, status, read, t, row
<1>4. /\ transactions' = transactions \cup {t}
      /\ t.reference \notin ReferencesOf(transactions)
      /\ Money' = [Money EXCEPT ![a] = MoneyOf(row)]
      /\ read \in Row /\ Money[a] = MoneyOf(read)
  BY <1>1, <1>2, SettlementMoney DEF row
<1>5. CASE e.status = "failed"
  <2>1. MoneyOf(row) = [Money[a] EXCEPT !.debit = Int64(@ - m), !.balance = Int64(@ + m)]
    <3>1. row = PayoutSettled(read, m, "void")
      BY <1>3, <1>5 DEF row
    <3>2. MoneyOf(PayoutSettled(read, m, "void")) = [MoneyOf(read) EXCEPT !.debit = Int64(@ - m), !.balance = Int64(@ + m)]
      BY <1>4, MoneyEffects
    <3> QED
      BY <1>4, <3>1, <3>2
  <2>2. Money' = [Money EXCEPT ![a] = [Money[a] EXCEPT !.debit = Int64(@ - m), !.balance = Int64(@ + m)]]
    BY <1>4, <2>1
  <2>3. Money' = [Money EXCEPT ![a].debit = Int64(@ - m), ![a].balance = Int64(@ + m)]
    BY <1>1, <2>2, TwoFieldsAtOnce
  <2>4. Atomic!Settled(e, parent) = [Money EXCEPT ![a].debit = Int64(@ - m), ![a].balance = Int64(@ + m)]
    BY <1>5 DEF Atomic!Settled, Atomic!Int64, Int64, Money, a, m
  <2> QED
    BY <1>4, <2>3, <2>4, AtomicPost DEF t, status
<1>6. CASE e.status = "succeeded"
  <2>1. MoneyOf(row) = [Money[a] EXCEPT !.debit = Int64(@ - m)]
    <3>1. row = PayoutSettled(read, m, "applied")
      BY <1>3, <1>6 DEF row
    <3>2. MoneyOf(PayoutSettled(read, m, "applied")) = [MoneyOf(read) EXCEPT !.debit = Int64(@ - m)]
      BY <1>4, MoneyEffects
    <3> QED
      BY <1>4, <3>1, <3>2
  <2>2. Money' = [Money EXCEPT ![a].debit = Int64(@ - m)]
    BY <1>4, <2>1
  <2>3. Atomic!Settled(e, parent) = [Money EXCEPT ![a].debit = Int64(@ - m)]
    BY <1>6 DEF Atomic!Settled, Atomic!Int64, Int64, Money, a, m
  <2> QED
    BY <1>4, <2>2, <2>3, AtomicPost DEF t, status
<1> QED
  BY <1>3, <1>5, <1>6

LEMMA SettlementCommits ==
    ASSUME RInv, NEW r \in Requests, Finish(r), SettlementPlanned(r)
    PROVE  \E e \in Atomic!Event : Atomic!Settle(r, e)
<1> DEFINE e == call[r].event
           parent == call[r].parent
           status == SettledStatus(e.status)
<1>1. /\ call[r] \in WebhookCall /\ parent \in transactions
      /\ parent.reference = ParentReference(e) /\ parent.status = "inflight"
      /\ KnownStatus(e.status) /\ e \notin events
  BY DEF SettlementPlanned, WebhookFacts
<1>2. e \in Event /\ parent \in Transaction /\ call[r].op = "webhook"
  BY <1>1 DEF WebhookCall
<1>3. Commit(r) /\ sessions' = sessions /\ events' = events \cup {e}
  BY <1>2 DEF Finish
<1>4. e \in Atomic!Event
  BY <1>1, <1>2 DEF Event, Atomic!Event, KnownStatus
<1>5. Atomic!Post(SettlementOf(parent, Reference(e.prefix, r), status), Atomic!Settled(e, parent))
  <2>1. CASE e.prefix = "topup"
    BY <1>1, <1>2, <1>3, <2>1, TopupSettlementCommits DEF SettlementPlanned
  <2>2. CASE e.prefix = "withdrawal"
    BY <1>1, <1>2, <1>3, <2>2, PayoutSettlementCommits DEF SettlementPlanned
  <2> QED
    BY <2>1, <2>2 DEF SettlementPlanned
<1>6. Atomic!Settle(r, e)
  BY <1>1, <1>3, <1>5
     DEF Atomic!Settle, Atomic!SettlementOf, SettlementOf, Atomic!Reference, Reference,
         SettledStatus, ParentReference
<1> QED
  BY <1>4, <1>6

-----------------------------------------------------------------------------
(***************************************************************************)
(* The initial states and the steps of Wallets, mapped.                    *)
(***************************************************************************)
LEMMA InitRefines == Init => Atomic!Init /\ Facts
<1> SUFFICES ASSUME Init PROVE Atomic!Init /\ Facts
  OBVIOUS
<1>1. /\ balances = [a \in Accounts |-> OpeningRow(a)] /\ transactions = {}
      /\ pc = [r \in Requests |-> "idle"] /\ step = [r \in Requests |-> 0]
      /\ sessions = {} /\ events = {}
  BY DEF Init, LedgerInit
<1>2. Atomic!Init
  <2>1. \A a \in Accounts : MoneyOf(balances[a])
                              = [balance |-> Opening[a], credit |-> 0, debit |-> 0]
    BY <1>1 DEF MoneyOf, OpeningRow
  <2> QED
    BY <1>1, <2>1 DEF Atomic!Init, Atomic!Accounts, Accounts
<1>3. Facts
  BY <1>1 DEF Facts, Justified, MarksAreExclusive, Marked, KeysInv, KeysAreExclusive, KeysAreFresh,
              Inserted, Inserts, Executed
<1> QED
  BY <1>2, <1>3

LEMMA StutterRefines ==
    ASSUME UNCHANGED <<balances, transactions, sessions, events>>
    PROVE  UNCHANGED Atomic!vars
BY DEF Atomic!vars

LEMMA FinishRefines ==
    ASSUME RInv, NEW r \in Requests, Finish(r)
    PROVE  Atomic!Next
<1>1. pc[r] = "writing" /\ Justified(r)
  BY DEF Finish, Commit, RInv, Facts
<1>2. CASE TopupPlanned(r)
  BY <1>2, TopupCommits DEF Atomic!Next, TopupPlanned, GatewayFacts, GatewayCall
<1>3. CASE WithdrawPlanned(r)
  BY <1>3, WithdrawCommits DEF Atomic!Next, WithdrawPlanned, GatewayFacts, GatewayCall
<1>4. CASE TransferPlanned(r)
  BY <1>4, TransferCommits DEF Atomic!Next
<1>5. CASE SettlementPlanned(r)
  BY <1>5, SettlementCommits DEF Atomic!Next
<1> QED
  BY <1>1, <1>2, <1>3, <1>4, <1>5 DEF Justified

LEMMA StartRefines ==
    ASSUME RInv, NEW r \in Requests, Start(r)
    PROVE  [Atomic!Next]_Atomic!vars
<1>1. ASSUME NEW a, NEW m, Topup(r, a, m)
      PROVE  Atomic!Initiate("topup", r)
  BY <1>1 DEF Topup, Atomic!Initiate
<1>2. ASSUME NEW a, NEW m, Withdraw(r, a, m)
      PROVE  Atomic!Initiate("withdrawal", r)
  BY <1>2 DEF Withdraw, Atomic!Initiate
<1>3. ASSUME NEW prefix \in {"topup", "withdrawal"}, Atomic!Initiate(prefix, r)
      PROVE  Atomic!Next
  BY <1>3 DEF Atomic!Next
<1>4. ASSUME \/ \E a \in Customers, to \in Customers \cup Merchants, m \in Amounts,
                   ref \in ClientRefs : Transfer(r, a, to, m, ref)
             \/ \E e \in Event : Webhook(r, e)
      PROVE  UNCHANGED Atomic!vars
  BY <1>4, StutterRefines DEF Transfer, Webhook
<1> QED
  BY <1>1, <1>2, <1>3, <1>4 DEF Start

LEMMA StepRefines ==
    ASSUME RInv, NEW r \in Requests, Step(r)
    PROVE  [Atomic!Next]_Atomic!vars
<1>1. CASE Finish(r)
  BY <1>1, FinishRefines
<1>2. CASE \/ TopupRead(r) \/ WithdrawRead(r) \/ TransferRead(r)
           \/ TopupWebhookRead(r) \/ PayoutWebhookRead(r) \/ MarkProcessed(r)
  <2>1. UNCHANGED <<balances, transactions, sessions, events>>
    BY <1>2 DEF TopupRead, WithdrawRead, TransferRead, TopupWebhookRead,
                PayoutWebhookRead, MarkProcessed, Begin
  <2> QED
    BY <2>1, StutterRefines
<1>3. CASE \/ WithdrawInsufficient(r) \/ TransferRefused(r) \/ AlreadyProcessed(r)
           \/ Statements(r)
  <2>1. UNCHANGED <<balances, transactions, sessions, events>>
    BY <1>3 DEF WithdrawInsufficient, TransferRefused, AlreadyProcessed, Return, Rollback,
                Statements, UpdateBalance, Record, Execute, OptimisticLock,
                DuplicateReference
  <2> QED
    BY <2>1, StutterRefines
<1> QED
  BY <1>1, <1>2, <1>3 DEF Step

LEMMA NextRefines == RInv /\ [Next]_vars => [Atomic!Next]_Atomic!vars
<1> SUFFICES ASSUME RInv, [Next]_vars
             PROVE  [Atomic!Next]_Atomic!vars
  OBVIOUS
<1>1. ASSUME NEW r \in Requests, Fail(r)
      PROVE  UNCHANGED Atomic!vars
  BY <1>1, StutterRefines DEF Fail, Return, Rollback
<1>2. CASE UNCHANGED vars
  BY <1>2, StutterRefines DEF vars, ledgerVars
<1> QED
  BY <1>1, <1>2, StartRefines, StepRefines DEF Next, Terminating

(***************************************************************************)
(* ImplementsAtomic, for every number of requests, accounts and amounts:   *)
(* the concurrent handlers behave as if each took effect in one step.      *)
(***************************************************************************)
THEOREM Atomicity == Spec => ImplementsAtomic
<1>1. Init => Atomic!Init /\ Facts
  BY InitRefines
<1>2. Init => IInv
  BY InitEstablishesIInv
<1>3. IInv /\ Facts /\ [Next]_vars => IInv' /\ Facts'
  BY NextKeepsIInv, NextKeepsFacts DEF RInv
<1>4. IInv /\ Facts /\ [Next]_vars => [Atomic!Next]_Atomic!vars
  BY NextRefines DEF RInv
<1> QED
  BY <1>1, <1>2, <1>3, <1>4, PTL DEF Spec, ImplementsAtomic, Atomic!Spec

-----------------------------------------------------------------------------
(***************************************************************************)
(* A step of WalletsAtomic that moves money adds one row to the journal,   *)
(* whose reference is new.                                                 *)
(***************************************************************************)
Posts(t) ==
    /\ t \in Transaction
    /\ transactions' = transactions \cup {t}
    /\ t.reference \notin ReferencesOf(transactions)

LEMMA AtomicPosts ==
    ASSUME NEW t \in Transaction, NEW moved, Atomic!Post(t, moved)
    PROVE  Posts(t) /\ Money' = moved
BY DEF Atomic!Post, Atomic!Journalled, ReferencesOf, Money, Posts

LEMMA NewRow ==
    ASSUME TypeOK, AuditInv, NEW t, Posts(t)
    PROVE  /\ t \notin transactions /\ t.amount \in Int
           /\ Valued(transactions) /\ Valued(transactions')
           /\ transactions' \subseteq Transaction
<1>1. t \notin transactions /\ t.amount \in Int
  BY DEF Posts, ReferencesOf, Transaction, Int64s
<1>2. Valued(transactions)
  BY DEF TypeOK, LedgerTypeOK, Transaction, Int64s, AuditInv, Valued
<1>3. IsFiniteSet(transactions')
  BY <1>2, FS_AddElement DEF Posts, Valued
<1> QED
  BY <1>1, <1>2, <1>3 DEF TypeOK, LedgerTypeOK, Valued, Posts

(***************************************************************************)
(* The parts of the journal that explain a balance (PartGrows, each time). *)
(***************************************************************************)
LEMMA PartsGrow ==
    ASSUME TypeOK, AuditInv, NEW t, Posts(t), NEW a \in Customers
    PROVE  LET amount(condition) == IF condition THEN t.amount ELSE 0
               applied == To(a, With("applied", transactions))
               returned == From(a, With("void", Children))
               moved == From(a, With("applied", transactions \ Children))
               reserved == From(a, Requested)
               awaited == To(a, Requested)
               arrived == To(a, Children)
               settled == From(a, Children)
           IN  /\ /\ Total(applied) \in Int /\ Total(returned) \in Int
                  /\ Total(moved) \in Int /\ Total(reserved) \in Int
                  /\ Total(awaited) \in Int /\ Total(arrived) \in Int
                  /\ Total(settled) \in Int
               /\ Total(applied)' = Total(applied)
                    + amount(t.destination = a /\ t.status = "applied")
               /\ Total(returned)' = Total(returned)
                    + amount(t.source = a /\ t.status = "void" /\ t.parent # None)
               /\ Total(moved)' = Total(moved)
                    + amount(t.source = a /\ t.status = "applied" /\ t.parent = None)
               /\ Total(reserved)' = Total(reserved)
                    + amount(t.source = a /\ t.status = "inflight")
               /\ Total(awaited)' = Total(awaited)
                    + amount(t.destination = a /\ t.status = "inflight")
               /\ Total(arrived)' = Total(arrived)
                    + amount(t.destination = a /\ t.parent # None)
               /\ Total(settled)' = Total(settled)
                    + amount(t.source = a /\ t.parent # None)
<1> DEFINE amount(condition) == IF condition THEN t.amount ELSE 0
           T == transactions
           applied == To(a, With("applied", T))
           returned == From(a, With("void", Children))
           moved == From(a, With("applied", T \ Children))
           reserved == From(a, Requested)
           awaited == To(a, Requested)
           arrived == To(a, Children)
           settled == From(a, Children)
<1> USE DEF To, From, With, Children, Requested
<1>1. /\ Valued(T) /\ t \notin T /\ t.amount \in Int /\ T' = T \cup {t}
  BY NewRow DEF Posts
<1>2. /\ applied \in SUBSET T /\ returned \in SUBSET T /\ moved \in SUBSET T
      /\ reserved \in SUBSET T /\ awaited \in SUBSET T
      /\ arrived \in SUBSET T /\ settled \in SUBSET T
  OBVIOUS
<1>3. /\ applied' \in {applied, applied \cup {t}}
      /\ returned' \in {returned, returned \cup {t}}
      /\ moved' \in {moved, moved \cup {t}}
      /\ reserved' \in {reserved, reserved \cup {t}}
      /\ awaited' \in {awaited, awaited \cup {t}}
      /\ arrived' \in {arrived, arrived \cup {t}}
      /\ settled' \in {settled, settled \cup {t}}
  BY <1>1
<1>4. /\ t \in applied' <=> t.destination = a /\ t.status = "applied"
      /\ t \in returned' <=> t.source = a /\ t.status = "void" /\ t.parent # None
      /\ t \in moved' <=> t.source = a /\ t.status = "applied" /\ t.parent = None
      /\ t \in reserved' <=> t.source = a /\ t.status = "inflight"
      /\ t \in awaited' <=> t.destination = a /\ t.status = "inflight"
      /\ t \in arrived' <=> t.destination = a /\ t.parent # None
      /\ t \in settled' <=> t.source = a /\ t.parent # None
  BY <1>1
<1>5. ASSUME NEW B \in SUBSET T, NEW C, C \in {B, B \cup {t}}
      PROVE  /\ Total(B) \in Int
             /\ Total(C) = Total(B) + (IF t \in C THEN t.amount ELSE 0)
  BY <1>1, <1>5, PartGrows
<1> HIDE DEF T, applied, returned, moved, reserved, awaited, arrived, settled
<1>6. /\ Total(applied) \in Int /\ Total(returned) \in Int
      /\ Total(moved) \in Int /\ Total(reserved) \in Int
      /\ Total(awaited) \in Int /\ Total(arrived) \in Int
      /\ Total(settled) \in Int
  BY <1>2, <1>3, <1>5
<1>7. Total(applied') = Total(applied)
        + amount(t.destination = a /\ t.status = "applied")
  BY <1>2, <1>3, <1>4, <1>5
<1>8. Total(returned') = Total(returned)
        + amount(t.source = a /\ t.status = "void" /\ t.parent # None)
  BY <1>2, <1>3, <1>4, <1>5
<1>9. Total(moved') = Total(moved)
        + amount(t.source = a /\ t.status = "applied" /\ t.parent = None)
  BY <1>2, <1>3, <1>4, <1>5
<1>10. Total(reserved') = Total(reserved)
        + amount(t.source = a /\ t.status = "inflight")
  BY <1>2, <1>3, <1>4, <1>5
<1>11. Total(awaited') = Total(awaited)
        + amount(t.destination = a /\ t.status = "inflight")
  BY <1>2, <1>3, <1>4, <1>5
<1>12. Total(arrived') = Total(arrived)
        + amount(t.destination = a /\ t.parent # None)
  BY <1>2, <1>3, <1>4, <1>5
<1>13. Total(settled') = Total(settled)
        + amount(t.source = a /\ t.parent # None)
  BY <1>2, <1>3, <1>4, <1>5
<1> QED
  BY <1>6, <1>7, <1>8, <1>9, <1>10, <1>11, <1>12, <1>13
     DEF T, applied, returned, moved, reserved, awaited, arrived, settled

(***************************************************************************)
(* The balances change by what the new row says.                           *)
(***************************************************************************)
AccountedFor(t, a) ==
    LET amount(condition) == IF condition THEN t.amount ELSE 0
    IN  /\ balances'[a].balance = Int64(balances[a].balance
             + amount(t.destination = a /\ t.status = "applied")
             + amount(t.source = a /\ t.status = "void" /\ t.parent # None)
             - amount(t.source = a /\ t.status = "applied" /\ t.parent = None)
             - amount(t.source = a /\ t.status = "inflight"))
        /\ balances'[a].credit = Int64(balances[a].credit
             + amount(t.destination = a /\ t.status = "inflight")
             - amount(t.destination = a /\ t.parent # None))
        /\ balances'[a].debit = Int64(balances[a].debit
             + amount(t.source = a /\ t.status = "inflight")
             - amount(t.source = a /\ t.parent # None))

Accounted(t) == \A a \in Customers : AccountedFor(t, a)

LEMMA JournalStillExplains ==
    ASSUME TypeOK, AuditInv, NEW t, Posts(t), Accounted(t)
    PROVE  JournalExplainsBalances'
<1> SUFFICES ASSUME NEW a \in Customers
             PROVE
        /\ balances'[a].balance = Int64(Opening[a]
                         + (Total(To(a, With("applied", transactions)))'
                         + Total(From(a, With("void", Children)))'
                         - Total(From(a, With("applied", transactions \ Children)))'
                         - Total(From(a, Requested))'))
        /\ balances'[a].credit = Int64(Total(To(a, Requested))' - Total(To(a, Children))')
        /\ balances'[a].debit = Int64(Total(From(a, Requested))' - Total(From(a, Children))')
  BY DEF JournalExplainsBalances, Moved
<1>1. /\ balances[a].balance = Int64(Opening[a]
                      + (Total(To(a, With("applied", transactions)))
                      + Total(From(a, With("void", Children)))
                      - Total(From(a, With("applied", transactions \ Children)))
                      - Total(From(a, Requested))))
      /\ balances[a].credit = Int64(Total(To(a, Requested)) - Total(To(a, Children)))
      /\ balances[a].debit = Int64(Total(From(a, Requested)) - Total(From(a, Children)))
  BY DEF AuditInv, JournalExplainsBalances, Moved
<1> DEFINE amount(condition) == IF condition THEN t.amount ELSE 0
           applied == Total(To(a, With("applied", transactions)))
           returned == Total(From(a, With("void", Children)))
           moved == Total(From(a, With("applied", transactions \ Children)))
           reserved == Total(From(a, Requested))
           awaited == Total(To(a, Requested))
           arrived == Total(To(a, Children))
           settled == Total(From(a, Children))
           in == amount(t.destination = a /\ t.status = "applied")
           back == amount(t.source = a /\ t.status = "void" /\ t.parent # None)
           out == amount(t.source = a /\ t.status = "applied" /\ t.parent = None)
           held == amount(t.source = a /\ t.status = "inflight")
           due == amount(t.destination = a /\ t.status = "inflight")
           come == amount(t.destination = a /\ t.parent # None)
           gone == amount(t.source = a /\ t.parent # None)
<1>2. Opening[a] \in Int /\ t.amount \in Int
  BY OpeningAssumption, CustomersAreAccounts, NewRow DEF Int64s
<1>3. /\ in \in Int /\ back \in Int /\ out \in Int /\ held \in Int
      /\ due \in Int /\ come \in Int /\ gone \in Int
  BY <1>2
<1>4. /\ balances'[a].balance = Int64(balances[a].balance + in + back - out - held)
      /\ balances'[a].credit = Int64(balances[a].credit + due - come)
      /\ balances'[a].debit = Int64(balances[a].debit + held - gone)
  BY DEF Accounted, AccountedFor
<1>5. /\ applied \in Int /\ returned \in Int /\ moved \in Int /\ reserved \in Int
      /\ awaited \in Int /\ arrived \in Int /\ settled \in Int
      /\ applied' = applied + in /\ returned' = returned + back
      /\ moved' = moved + out /\ reserved' = reserved + held
      /\ awaited' = awaited + due /\ arrived' = arrived + come
      /\ settled' = settled + gone
  BY PartsGrow
<1>6. /\ balances[a].balance = Int64(Opening[a] + (applied + returned - moved - reserved))
      /\ balances[a].credit = Int64(awaited - arrived)
      /\ balances[a].debit = Int64(reserved - settled)
  BY <1>1
<1> HIDE DEF applied, returned, moved, reserved, awaited, arrived, settled,
             in, back, out, held, due, come, gone
<1>7. balances'[a].balance = Int64(Opening[a] + (applied' + returned' - moved' - reserved'))
  <2> DEFINE n == Opening[a] + (applied + returned - moved - reserved)
             d == in + back - out - held
  <2>1. n \in Int /\ d \in Int
    BY <1>2, <1>3, <1>5
  <2>2. balances'[a].balance = Int64(Int64(n) + d)
    <3>1. Int64(n) \in Int
      BY <2>1, Int64Type DEF Int64s
    <3>2. Int64(n) + in + back - out - held = Int64(n) + d
      BY <1>3, <3>1
    <3> QED
      BY <1>4, <1>6, <3>2
  <2>3. n + d = Opening[a] + (applied' + returned' - moved' - reserved')
    BY <1>2, <1>3, <1>5
  <2> HIDE DEF n, d
  <2> QED
    BY <2>1, <2>2, <2>3, Int64Sum
<1>8. balances'[a].credit = Int64(awaited' - arrived')
  <2> DEFINE n == awaited - arrived
             d == due - come
  <2>1. n \in Int /\ d \in Int
    BY <1>3, <1>5
  <2>2. balances'[a].credit = Int64(Int64(n) + d)
    <3>1. Int64(n) \in Int
      BY <2>1, Int64Type DEF Int64s
    <3>2. Int64(n) + due - come = Int64(n) + d
      BY <1>3, <3>1
    <3> QED
      BY <1>4, <1>6, <3>2
  <2>3. n + d = awaited' - arrived'
    BY <1>3, <1>5
  <2> HIDE DEF n, d
  <2> QED
    BY <2>1, <2>2, <2>3, Int64Sum
<1>9. balances'[a].debit = Int64(reserved' - settled')
  <2> DEFINE n == reserved - settled
             d == held - gone
  <2>1. n \in Int /\ d \in Int
    BY <1>3, <1>5
  <2>2. balances'[a].debit = Int64(Int64(n) + d)
    <3>1. Int64(n) \in Int
      BY <2>1, Int64Type DEF Int64s
    <3>2. Int64(n) + held - gone = Int64(n) + d
      BY <1>3, <3>1
    <3> QED
      BY <1>4, <1>6, <3>2
  <2>3. n + d = reserved' - settled'
    BY <1>3, <1>5
  <2> HIDE DEF n, d
  <2> QED
    BY <2>1, <2>2, <2>3, Int64Sum
<1> QED
  BY <1>7, <1>8, <1>9 DEF applied, returned, moved, reserved, awaited, arrived, settled

(***************************************************************************)
(* A new request or transfer: no settlement and no event names it yet.     *)
(***************************************************************************)
LEMMA ShapeStaysUnique ==
    ASSUME TypeOK, AuditInv, NEW t, Posts(t),
           t.source # t.destination, t.destination # Revenue
    PROVE  /\ IsFiniteSet(transactions') /\ ReferencesAreUnique' /\ EndsDiffer'
<1>1. IsFiniteSet(transactions')
  BY NewRow DEF Valued
<1>2. ReferencesAreUnique'
  BY DEF AuditInv, ReferencesAreUnique, Posts, ReferencesOf
<1>3. EndsDiffer'
  BY DEF AuditInv, EndsDiffer, Posts
<1> QED
  BY <1>1, <1>2, <1>3

LEMMA NewRequestIsAudited ==
    ASSUME TypeOK, AuditInv, NEW t, Posts(t), Accounted(t), events' = events,
           t.source # t.destination, t.destination # Revenue,
           t.parent = None, t.status \in {"inflight", "applied"},
           t.status = "inflight" =>
               \/ /\ t.reference.prefix = "topup"
                  /\ t.source = World /\ t.destination \in Customers
               \/ /\ t.reference.prefix = "withdrawal"
                  /\ t.source \in Customers /\ t.destination = World
    PROVE  AuditInv'
<1>1. /\ transactions' = transactions \cup {t} /\ t \in Transaction
      /\ \A p \in transactions : p.reference # t.reference /\ p.reference # None
      /\ t.reference # None
  BY NoneAssumption DEF Posts, ReferencesOf, TypeOK, LedgerTypeOK, Transaction
<1>2. /\ Requested' = IF t.status = "inflight" THEN Requested \cup {t} ELSE Requested
      /\ Children' = Children
  BY <1>1 DEF Requested, Children
<1>3. RequestsAreWellFormed'
  BY <1>2 DEF AuditInv, RequestsAreWellFormed
<1>4. SettlementsFollowRequests'
  <2>1. With("void", transactions)' = With("void", transactions)
    BY <1>1 DEF With
  <2> QED
    BY <1>2, <2>1 DEF AuditInv, SettlementsFollowRequests
<1>5. \A p \in Requested \cup {t} : ChildrenOf(p)' = ChildrenOf(p)
  BY <1>1 DEF ChildrenOf, Requested
<1>6. \A p, status : EventsOf(p, status)' = EventsOf(p, status)
  BY DEF EventsOf
<1>7. \A p \in Requested, status \in {"applied", "void"} :
          Cardinality(With(status, ChildrenOf(p))) = Cardinality(EventsOf(p, status))
  BY DEF AuditInv, SettlementsMatchEvents
<1>8. ChildrenOf(t) = {}
  <2>1. \A c \in Children : c.parent # t.reference
    BY <1>1 DEF AuditInv, SettlementsFollowRequests, Requested
  <2> QED
    BY <1>1, <2>1 DEF ChildrenOf, Children
<1>9. \A status : EventsOf(t, status) = {}
  BY <1>1 DEF EventsOf, AuditInv, SettlementsMatchEvents, Requested
<1>10. ASSUME NEW p \in Requested', NEW status \in {"applied", "void"}
       PROVE  Cardinality(With(status, ChildrenOf(p)')) = Cardinality(EventsOf(p, status)')
  <2>1. CASE p \in Requested
    BY <1>5, <1>6, <1>7, <2>1
  <2>2. CASE p = t
    <3>1. With(status, ChildrenOf(p)') = {} /\ EventsOf(p, status)' = {}
      BY <1>5, <1>6, <1>8, <1>9, <2>2 DEF With
    <3> QED
      BY <3>1
  <2> QED
    BY <1>2, <2>1, <2>2
<1>11. SettlementsMatchEvents'
  <2>1. \A e \in events' : \E p \in Requested' : ParentReference(e) = p.reference
    BY <1>2 DEF AuditInv, SettlementsMatchEvents
  <2>2. \A p, status : With(status, ChildrenOf(p))' = With(status, ChildrenOf(p)')
    BY DEF With
  <2> QED
    BY <1>10, <2>1, <2>2 DEF SettlementsMatchEvents
<1> QED
  BY <1>3, <1>4, <1>11, ShapeStaysUnique, JournalStillExplains DEF AuditInv

(***************************************************************************)
(* A settlement: one more child and one more event of the same request.    *)
(***************************************************************************)
LEMMA SettlementIsAudited ==
    ASSUME TypeOK, AuditInv, NEW t, Posts(t), Accounted(t),
           NEW e \in Event, e \notin events, events' = events \cup {e},
           NEW p \in Requested, p.reference = ParentReference(e),
           t.parent = p.reference, t.status = SettledStatus(e.status),
           t.source = p.source, t.destination = p.destination
    PROVE  AuditInv'
<1>1. /\ transactions' = transactions \cup {t} /\ t \notin transactions
      /\ p \in transactions /\ p.reference # None
      /\ t.status \in {"applied", "void"}
  BY NewRow, NoneAssumption DEF Posts, TypeOK, LedgerTypeOK, Transaction, SettledStatus, Requested
<1>2. Requested' = Requested /\ Children' = Children \cup {t}
  BY <1>1 DEF Requested, Children
<1>3. RequestsAreWellFormed'
  BY <1>2 DEF AuditInv, RequestsAreWellFormed
<1>4. SettlementsFollowRequests'
  <2>1. With("void", transactions)' \subseteq With("void", transactions) \cup {t}
    BY <1>1 DEF With
  <2> QED
    BY <1>2, <2>1 DEF AuditInv, SettlementsFollowRequests
<1>5. IsFiniteSet(transactions) /\ IsFiniteSet(events) /\ IsFiniteSet(events')
  BY FS_AddElement DEF AuditInv
<1>6. ASSUME NEW q \in Requested, NEW status \in {"applied", "void"}
      PROVE  Cardinality(With(status, ChildrenOf(q)))' = Cardinality(EventsOf(q, status))'
  <2> DEFINE settled == With(status, ChildrenOf(q))
             acted == EventsOf(q, status)
  <2>1. Cardinality(settled) = Cardinality(acted)
    BY <1>6 DEF AuditInv, SettlementsMatchEvents
  <2>2. /\ IsFiniteSet(settled) /\ IsFiniteSet(acted)
        /\ t \notin settled /\ e \notin acted
    <3>1. settled \subseteq transactions /\ acted \subseteq events
      BY DEF With, ChildrenOf, EventsOf
    <3> QED
      BY <1>1, <1>5, <3>1, FS_Subset
  <2>3. CASE q.reference = p.reference /\ status = t.status
    <3>1. settled' = settled \cup {t}
      BY <1>1, <2>3 DEF With, ChildrenOf
    <3>2. acted' = acted \cup {e}
      BY <2>3 DEF EventsOf
    <3>3. Cardinality(settled') = Cardinality(acted')
      <4> HIDE DEF settled, acted
      <4>1. Cardinality(settled \cup {t}) = Cardinality(settled) + 1
        BY <2>2, FS_AddElement
      <4>2. Cardinality(acted \cup {e}) = Cardinality(acted) + 1
        BY <2>2, FS_AddElement
      <4> QED
        BY <2>1, <3>1, <3>2, <4>1, <4>2, Zenon
    <3> QED
      BY <3>3
  <2>4. CASE ~ (q.reference = p.reference /\ status = t.status)
    <3>1. settled' = settled
      BY <1>1, <2>4 DEF With, ChildrenOf
    <3>2. acted' = acted
      BY <2>4 DEF EventsOf
    <3>3. Cardinality(settled') = Cardinality(acted')
      <4> HIDE DEF settled, acted
      <4> QED
        BY <2>1, <3>1, <3>2
    <3> QED
      BY <3>3
  <2> QED
    BY <2>3, <2>4
<1>7. SettlementsMatchEvents'
  <2>1. \A d \in events' : \E q \in Requested' : ParentReference(d) = q.reference
    BY <1>2 DEF AuditInv, SettlementsMatchEvents
  <2> QED
    BY <1>2, <1>6, <2>1 DEF SettlementsMatchEvents
<1>8. t.source # t.destination /\ t.destination # Revenue
  BY <1>1 DEF AuditInv, EndsDiffer
<1> QED
  BY <1>3, <1>4, <1>5, <1>7, <1>8, ShapeStaysUnique, JournalStillExplains DEF AuditInv

-----------------------------------------------------------------------------
(***************************************************************************)
(* The steps of WalletsAtomic, one by one.                                 *)
(***************************************************************************)
LEMMA MoneyAt ==
    ASSUME NEW a \in Accounts
    PROVE  /\ balances[a].balance = Money[a].balance
           /\ balances[a].credit = Money[a].credit
           /\ balances[a].debit = Money[a].debit
           /\ balances'[a].balance = Money'[a].balance
           /\ balances'[a].credit = Money'[a].credit
           /\ balances'[a].debit = Money'[a].debit
BY DEF Money, MoneyOf

LEMMA MoneyTypes ==
    ASSUME TypeOK
    PROVE  Money \in [Accounts -> [balance: Int64s, credit: Int64s, debit: Int64s]]
<1>1. \A a \in Accounts : balances[a] \in Row
  BY DEF TypeOK, LedgerTypeOK
<1> QED
  BY <1>1 DEF Money, MoneyOf, Row

LEMMA MoneyFields ==
    ASSUME NEW x \in [balance: Int64s, credit: Int64s, debit: Int64s], NEW m
    PROVE  LET reserved == [x EXCEPT !.balance = Int64(@ - m), !.debit = Int64(@ + m)]
               arrived == [x EXCEPT !.credit = Int64(@ - m), !.balance = Int64(@ + m)]
               dropped == [x EXCEPT !.credit = Int64(@ - m)]
               left == [x EXCEPT !.debit = Int64(@ - m)]
               undone == [x EXCEPT !.debit = Int64(@ - m), !.balance = Int64(@ + m)]
           IN  /\ reserved.balance = Int64(x.balance - m) /\ reserved.credit = x.credit
               /\ reserved.debit = Int64(x.debit + m)
               /\ arrived.balance = Int64(x.balance + m) /\ arrived.credit = Int64(x.credit - m)
               /\ arrived.debit = x.debit
               /\ dropped.balance = x.balance /\ dropped.credit = Int64(x.credit - m)
               /\ dropped.debit = x.debit
               /\ left.balance = x.balance /\ left.credit = x.credit
               /\ left.debit = Int64(x.debit - m)
               /\ undone.balance = Int64(x.balance + m) /\ undone.credit = x.credit
               /\ undone.debit = Int64(x.debit - m)
OBVIOUS

(***************************************************************************)
(* The columns of a balance are int64s, and an amount added to one may be  *)
(* taken as the journal keeps it.                                          *)
(***************************************************************************)
LEMMA FieldTypes ==
    ASSUME TypeOK, NEW a \in Customers
    PROVE  /\ a \in Accounts /\ a # World
           /\ Money[a] \in [balance: Int64s, credit: Int64s, debit: Int64s]
           /\ balances[a].balance \in Int /\ balances[a].credit \in Int
           /\ balances[a].debit \in Int
           /\ Int64(balances[a].balance) = balances[a].balance
           /\ Int64(balances[a].credit) = balances[a].credit
           /\ Int64(balances[a].debit) = balances[a].debit
<1>1. /\ a \in Accounts /\ a # World
      /\ Money[a] \in [balance: Int64s, credit: Int64s, debit: Int64s]
  BY AccountsAssumption, CustomersAreAccounts, MoneyTypes
<1>2. /\ balances[a].balance \in Int64s /\ balances[a].credit \in Int64s
      /\ balances[a].debit \in Int64s
  BY <1>1, MoneyAt
<1> QED
  BY <1>1, <1>2, Int64Keeps DEF Int64s

LEMMA FieldsAbsorb ==
    ASSUME TypeOK, NEW a \in Customers, NEW m \in Int, NEW n, n = Int64(m)
    PROVE  /\ n \in Int
           /\ Int64(balances[a].balance + m) = Int64(balances[a].balance + n)
           /\ Int64(balances[a].balance - m) = Int64(balances[a].balance - n)
           /\ Int64(balances[a].credit + m) = Int64(balances[a].credit + n)
           /\ Int64(balances[a].debit + m) = Int64(balances[a].debit + n)
<1>1. n \in Int
  BY Int64Type DEF Int64s
<1>2. ASSUME NEW x \in Int
      PROVE  Int64(x + m) = Int64(x + n) /\ Int64(x - m) = Int64(x - n)
  BY <1>2, Int64Absorbs
<1> DEFINE balance == balances[a].balance
           credit == balances[a].credit
           debit == balances[a].debit
<1>3. balance \in Int /\ credit \in Int /\ debit \in Int
  BY FieldTypes
<1> HIDE DEF balance, credit, debit
<1>4. /\ Int64(balance + m) = Int64(balance + n) /\ Int64(balance - m) = Int64(balance - n)
      /\ Int64(credit + m) = Int64(credit + n) /\ Int64(debit + m) = Int64(debit + n)
  BY <1>2, <1>3
<1> QED
  BY <1>1, <1>4 DEF balance, credit, debit

LEMMA RequestTopupIsAudited ==
    ASSUME TypeOK, AuditInv, NEW r \in Requests, NEW a \in Customers, NEW m \in Amounts,
           Atomic!RequestTopup(r, a, m)
    PROVE  AuditInv'
<1> DEFINE t == Transfers(Reference("topup", r), World, a, m, "inflight")
           moved == [Money EXCEPT ![a].credit = Int64(@ + m)]
<1>1. Atomic!Post(t, moved) /\ events' = events
  BY DEF Atomic!RequestTopup, Atomic!Transfers, Transfers, Atomic!Int64, Int64, Atomic!Reference, Reference, Money
<1>2. a \in Accounts /\ m \in Int /\ World # a /\ a # Revenue
  BY AmountsAssumption, AccountsAssumption, CustomersAreAccounts
<1>3. t \in Transaction
  BY <1>2, TransactionTypes, CustomersAreAccounts DEF Prefixes, Statuses
<1>4. /\ t.source = World /\ t.destination = a /\ t.parent = None /\ t.amount = Int64(m)
      /\ t.status = "inflight" /\ t.reference.prefix = "topup"
  BY DEF Transfers, Reference
<1> HIDE DEF t
<1>5. Posts(t) /\ Money' = moved
  BY <1>1, <1>3, AtomicPosts
<1>6. Accounted(t)
  <2> SUFFICES ASSUME NEW b \in Customers PROVE AccountedFor(t, b)
    BY DEF Accounted
  <2>1. b \in Accounts /\ Money[b] \in [balance: Int64s, credit: Int64s, debit: Int64s]
    BY FieldTypes
  <2>2. Money'[b] = IF b = a THEN [Money[b] EXCEPT !.credit = Int64(@ + m)] ELSE Money[b]
    BY <1>5, <2>1, MoneyTypes
  <2>3. Int64(balances[b].credit + m) = Int64(balances[b].credit + t.amount) /\ t.amount \in Int
    BY <1>2, <1>4, FieldsAbsorb
  <2>4. /\ balances'[b].balance = balances[b].balance /\ balances'[b].debit = balances[b].debit
        /\ balances'[b].credit = IF b = a THEN Int64(balances[b].credit + t.amount)
                                 ELSE balances[b].credit
    BY <2>1, <2>2, <2>3, MoneyAt
  <2> QED
    BY <1>4, <2>3, <2>4, FieldTypes DEF AccountedFor
<1> QED
  BY <1>1, <1>2, <1>4, <1>5, <1>6, NewRequestIsAudited

LEMMA ReserveWithdrawalIsAudited ==
    ASSUME TypeOK, AuditInv, NEW r \in Requests, NEW a \in Customers, NEW m \in Amounts,
           Atomic!ReserveWithdrawal(r, a, m)
    PROVE  AuditInv'
<1> DEFINE t == Transfers(Reference("withdrawal", r), a, World, m, "inflight")
           moved == [Money EXCEPT ![a].balance = Int64(@ - m), ![a].debit = Int64(@ + m)]
<1>1. Atomic!Post(t, moved) /\ events' = events
  BY DEF Atomic!ReserveWithdrawal, Atomic!Transfers, Transfers, Atomic!Int64, Int64, Atomic!Reference, Reference,
         Money
<1>2. a \in Accounts /\ m \in Int /\ World # a /\ World # Revenue
  BY AmountsAssumption, AccountsAssumption, CustomersAreAccounts
<1>3. t \in Transaction
  BY <1>2, TransactionTypes, CustomersAreAccounts DEF Prefixes, Statuses
<1>4. /\ t.source = a /\ t.destination = World /\ t.parent = None /\ t.amount = Int64(m)
      /\ t.status = "inflight" /\ t.reference.prefix = "withdrawal"
  BY DEF Transfers, Reference
<1> HIDE DEF t
<1>5. Posts(t) /\ Money' = moved
  BY <1>1, <1>3, AtomicPosts
<1>6. Accounted(t)
  <2> SUFFICES ASSUME NEW b \in Customers PROVE AccountedFor(t, b)
    BY DEF Accounted
  <2>1. b \in Accounts /\ Money[b] \in [balance: Int64s, credit: Int64s, debit: Int64s]
    BY FieldTypes
  <2>2. Money'[b] = IF b = a THEN [Money[b] EXCEPT !.balance = Int64(@ - m), !.debit = Int64(@ + m)]
                    ELSE Money[b]
    BY <1>5, <2>1, MoneyTypes
  <2>3. /\ Int64(balances[b].balance - m) = Int64(balances[b].balance - t.amount)
        /\ Int64(balances[b].debit + m) = Int64(balances[b].debit + t.amount)
        /\ t.amount \in Int
    BY <1>2, <1>4, FieldsAbsorb
  <2>4. /\ balances'[b].balance = IF b = a THEN Int64(balances[b].balance - t.amount)
                                  ELSE balances[b].balance
        /\ balances'[b].credit = balances[b].credit
        /\ balances'[b].debit = IF b = a THEN Int64(balances[b].debit + t.amount)
                                ELSE balances[b].debit
    <3>1. CASE b = a
      <4> DEFINE x == Money[b]
                 y == [x EXCEPT !.balance = Int64(@ - m), !.debit = Int64(@ + m)]
      <4>1. Money'[b] = y
        BY <2>2, <3>1
      <4>2. y.balance = Int64(x.balance - m) /\ y.credit = x.credit /\ y.debit = Int64(x.debit + m)
        BY <2>1, MoneyFields
      <4> HIDE DEF y
      <4> QED
        BY <2>1, <2>3, <3>1, <4>1, <4>2, MoneyAt
    <3>2. CASE b # a
      BY <2>1, <2>2, <3>2, MoneyAt
    <3> QED
      BY <3>1, <3>2
  <2> QED
    BY <1>2, <1>4, <2>3, <2>4, FieldTypes DEF AccountedFor
<1> QED
  BY <1>1, <1>2, <1>4, <1>5, <1>6, NewRequestIsAudited

LEMMA TransferIsAudited ==
    ASSUME TypeOK, AuditInv, NEW a \in Customers, NEW to \in Customers, NEW m \in Amounts,
           NEW ref \in ClientRefs, Atomic!Transfer(a, to, m, ref)
    PROVE  AuditInv'
<1> DEFINE t == Transfers(ref, a, to, m, "applied")
           moved == [Money EXCEPT ![a].balance = Int64(@ - m), ![to].balance = Int64(@ + m)]
<1>1. Atomic!Post(t, moved) /\ events' = events /\ a # to
  BY DEF Atomic!Transfer, Atomic!Transfers, Transfers, Atomic!Int64, Int64, Atomic!Reference, Reference, Money
<1>2. a \in Accounts /\ to \in Accounts /\ m \in Int /\ to # Revenue
  BY AmountsAssumption, AccountsAssumption, CustomersAreAccounts
<1>3. t \in Transaction
  BY <1>2, TransactionTypes, ClientRefsAssumption DEF Statuses
<1>4. /\ t.source = a /\ t.destination = to /\ t.parent = None /\ t.amount = Int64(m)
      /\ t.status = "applied"
  BY DEF Transfers
<1> HIDE DEF t
<1>5. Posts(t) /\ Money' = moved
  BY <1>1, <1>3, AtomicPosts
<1>6. Accounted(t)
  <2> SUFFICES ASSUME NEW b \in Customers PROVE AccountedFor(t, b)
    BY DEF Accounted
  <2>1. b \in Accounts /\ Money[b] \in [balance: Int64s, credit: Int64s, debit: Int64s]
    BY FieldTypes
  <2>2. Money'[b] = IF b = a THEN [Money[b] EXCEPT !.balance = Int64(@ - m)]
                    ELSE IF b = to THEN [Money[b] EXCEPT !.balance = Int64(@ + m)]
                    ELSE Money[b]
    BY <1>1, <1>2, <1>5, <2>1, MoneyTypes
  <2>3. /\ Int64(balances[b].balance - m) = Int64(balances[b].balance - t.amount)
        /\ Int64(balances[b].balance + m) = Int64(balances[b].balance + t.amount)
        /\ t.amount \in Int
    BY <1>2, <1>4, FieldsAbsorb
  <2>4. /\ balances'[b].balance = IF b = a THEN Int64(balances[b].balance - t.amount)
                                  ELSE IF b = to THEN Int64(balances[b].balance + t.amount)
                                  ELSE balances[b].balance
        /\ balances'[b].credit = balances[b].credit
        /\ balances'[b].debit = balances[b].debit
    BY <2>1, <2>2, <2>3, MoneyAt
  <2> QED
    BY <1>1, <1>2, <1>4, <2>3, <2>4, FieldTypes DEF AccountedFor
<1> QED
  BY <1>1, <1>2, <1>4, <1>5, <1>6, NewRequestIsAudited

(***************************************************************************)
(* The four ways in which an event settles a request.                      *)
(***************************************************************************)
LEMMA SettleIsAudited ==
    ASSUME TypeOK, AuditInv, NEW r \in Requests, NEW e \in Atomic!Event, Atomic!Settle(r, e)
    PROVE  AuditInv'
<1> DEFINE status == SettledStatus(e.status)
           t(q) == SettlementOf(q, Reference(e.prefix, r), status)
<1>1. /\ e \notin events /\ events' = events \cup {e}
      /\ \E q \in transactions :
            /\ q.reference = ParentReference(e)
            /\ q.status = "inflight"
            /\ Atomic!Post(t(q), Atomic!Settled(e, q))
  BY DEF Atomic!Settle, Atomic!SettlementOf, SettlementOf, Atomic!Reference, Reference,
         ParentReference, SettledStatus
<1>2. PICK p \in transactions :
            /\ p.reference = ParentReference(e)
            /\ p.status = "inflight"
            /\ Atomic!Post(t(p), Atomic!Settled(e, p))
  BY <1>1
<1>3. p \in Requested /\ p \in Transaction
  BY <1>2 DEF Requested, TypeOK, LedgerTypeOK
<1>4. /\ e \in Event /\ e.prefix \in {"topup", "withdrawal"}
      /\ e.status \in {"succeeded", "failed"}
      /\ status = IF e.status = "succeeded" THEN "applied" ELSE "void"
  BY DEF Event, Atomic!Event, GatewayStatuses, SettledStatus
<1>5. t(p) \in Transaction
  BY <1>3, <1>4, TransactionTypes DEF Prefixes, Statuses
<1>6. /\ t(p).source = p.source /\ t(p).destination = p.destination
      /\ t(p).parent = p.reference /\ t(p).amount = p.amount /\ t(p).status = status
      /\ p.reference # None /\ p.amount \in Int
  BY <1>3, NoneAssumption DEF SettlementOf, Transaction, Int64s
<1>7. p.reference.prefix = e.prefix
  BY <1>2 DEF ParentReference, Reference
<1>8. \/ /\ e.prefix = "topup"
         /\ p.source = World /\ p.destination \in Customers
      \/ /\ e.prefix = "withdrawal"
         /\ p.source \in Customers /\ p.destination = World
  BY <1>3, <1>7 DEF AuditInv, RequestsAreWellFormed
<1>9. Posts(t(p)) /\ Money' = Atomic!Settled(e, p)
  BY <1>2, <1>5, AtomicPosts
<1> HIDE DEF t, status
<1>10. Accounted(t(p))
  <2> SUFFICES ASSUME NEW b \in Customers PROVE AccountedFor(t(p), b)
    BY DEF Accounted
  <2> DEFINE m == p.amount
  <2>1. /\ b \in Accounts /\ Money[b] \in [balance: Int64s, credit: Int64s, debit: Int64s]
        /\ balances[b].balance \in Int /\ balances[b].credit \in Int
        /\ balances[b].debit \in Int /\ b # World
    BY FieldTypes
  <2>2. CASE e.prefix = "topup"
    <3>1. p.destination \in Accounts /\ p.source = World
      BY <1>8, <2>2, CustomersAreAccounts
    <3>2. Money'[b] = IF b # p.destination THEN Money[b]
                      ELSE IF e.status = "succeeded"
                      THEN [Money[b] EXCEPT !.credit = Int64(@ - m), !.balance = Int64(@ + m)]
                      ELSE [Money[b] EXCEPT !.credit = Int64(@ - m)]
      BY <1>4, <1>9, <2>1, <2>2, <3>1, MoneyTypes DEF Atomic!Settled, Atomic!Int64, Int64, Money
    <3>3. /\ balances'[b].balance = IF b = p.destination /\ e.status = "succeeded" THEN Int64(balances[b].balance + m)
                                  ELSE balances[b].balance
          /\ balances'[b].credit = IF b = p.destination THEN Int64(balances[b].credit - m)
                                  ELSE balances[b].credit
          /\ balances'[b].debit = balances[b].debit
      <4>1. CASE b = p.destination /\ e.status = "succeeded"
        <5> DEFINE x == Money[b]
                   y == [x EXCEPT !.credit = Int64(@ - m), !.balance = Int64(@ + m)]
        <5>1. Money'[b] = y
          BY <3>2, <4>1
        <5>2. y.balance = Int64(x.balance + m) /\ y.credit = Int64(x.credit - m) /\ y.debit = x.debit
          BY <2>1, MoneyFields
        <5> HIDE DEF y
        <5> QED
          BY <1>6, <2>1, <4>1, <5>1, <5>2, MoneyAt
      <4>2. CASE b = p.destination /\ e.status = "failed"
        BY <1>6, <2>1, <3>2, <4>2, MoneyAt, MoneyFields
      <4>3. CASE b # p.destination
        BY <2>1, <3>2, <4>3, MoneyAt
      <4> QED
        BY <1>4, <4>1, <4>2, <4>3
    <3> QED
      BY <1>4, <1>6, <2>1, <3>1, <3>3, FieldTypes DEF AccountedFor
  <2>3. CASE e.prefix = "withdrawal"
    <3>1. p.source \in Accounts /\ p.destination = World
      BY <1>8, <2>3, CustomersAreAccounts
    <3>2. Money'[b] = IF b # p.source THEN Money[b]
                      ELSE IF e.status = "succeeded"
                      THEN [Money[b] EXCEPT !.debit = Int64(@ - m)]
                      ELSE [Money[b] EXCEPT !.debit = Int64(@ - m), !.balance = Int64(@ + m)]
      BY <1>4, <1>9, <2>1, <2>3, <3>1, MoneyTypes DEF Atomic!Settled, Atomic!Int64, Int64, Money
    <3>3. /\ balances'[b].balance = IF b = p.source /\ e.status = "failed" THEN Int64(balances[b].balance + m)
                                  ELSE balances[b].balance
          /\ balances'[b].credit = balances[b].credit
          /\ balances'[b].debit = IF b = p.source THEN Int64(balances[b].debit - m)
                                  ELSE balances[b].debit
      <4>1. CASE b = p.source /\ e.status = "succeeded"
        BY <1>6, <2>1, <3>2, <4>1, MoneyAt, MoneyFields
      <4>2. CASE b = p.source /\ e.status = "failed"
        <5> DEFINE x == Money[b]
                   y == [x EXCEPT !.debit = Int64(@ - m), !.balance = Int64(@ + m)]
        <5>1. Money'[b] = y
          BY <3>2, <4>2
        <5>2. y.balance = Int64(x.balance + m) /\ y.credit = x.credit /\ y.debit = Int64(x.debit - m)
          BY <2>1, MoneyFields
        <5> HIDE DEF y
        <5> QED
          BY <1>6, <2>1, <4>2, <5>1, <5>2, MoneyAt
      <4>3. CASE b # p.source
        BY <2>1, <3>2, <4>3, MoneyAt
      <4> QED
        BY <1>4, <4>1, <4>2, <4>3
    <3> QED
      BY <1>4, <1>6, <2>1, <3>1, <3>3, FieldTypes DEF AccountedFor
  <2> QED
    BY <1>4, <2>2, <2>3
<1> QED
  BY <1>1, <1>2, <1>3, <1>4, <1>6, <1>9, <1>10, SettlementIsAudited DEF status

(***************************************************************************)
(* A step that leaves money, journal and events alone.                     *)
(***************************************************************************)
LEMMA NothingMovesIsAudited ==
    ASSUME TypeOK, AuditInv, Money' = Money, UNCHANGED <<transactions, events>>
    PROVE  AuditInv'
<1>1. \A a \in Customers : /\ balances'[a].balance = balances[a].balance
                           /\ balances'[a].credit = balances[a].credit
                           /\ balances'[a].debit = balances[a].debit
  BY MoneyAt, CustomersAreAccounts
<1>2. JournalExplainsBalances'
  BY <1>1 DEF AuditInv, JournalExplainsBalances, Moved, To, From, With, Children,
                 Requested
<1>3. SettlementsMatchEvents' /\ SettlementsFollowRequests'
  BY DEF AuditInv, SettlementsMatchEvents, SettlementsFollowRequests, EventsOf, ChildrenOf,
         With, Children, Requested
<1> QED
  BY <1>2, <1>3 DEF AuditInv, ReferencesAreUnique, RequestsAreWellFormed, EndsDiffer, Requested

LEMMA AtomicStepIsAudited ==
    ASSUME TypeOK, AuditInv, [Atomic!Next]_Atomic!vars
    PROVE  AuditInv'
<1>1. ASSUME NEW r \in Requests, NEW prefix, Atomic!Initiate(prefix, r)
      PROVE  AuditInv'
  <2>1. Money' = Money /\ UNCHANGED <<transactions, events>>
    BY <1>1 DEF Atomic!Initiate, Money
  <2> QED
    BY <2>1, NothingMovesIsAudited
<1>2. CASE UNCHANGED Atomic!vars
  <2>1. Money' = Money /\ UNCHANGED <<transactions, events>>
    BY <1>2 DEF Atomic!vars, Money
  <2> QED
    BY <2>1, NothingMovesIsAudited
<1> QED
  BY <1>1, <1>2, RequestTopupIsAudited, ReserveWithdrawalIsAudited, TransferIsAudited,
     SettleIsAudited
     DEF Atomic!Next

LEMMA InitIsAudited == Init => AuditInv
<1> SUFFICES ASSUME Init PROVE AuditInv
  OBVIOUS
<1>1. /\ balances = [a \in Accounts |-> OpeningRow(a)]
      /\ transactions = {} /\ events = {}
  BY DEF Init, LedgerInit
<1>2. Requested = {} /\ Children = {}
  BY <1>1 DEF Requested, Children
<1>3. JournalExplainsBalances
  <2>1. ASSUME NEW a \in Customers
        PROVE  /\ balances[a].balance = Opening[a] /\ balances[a].credit = 0
               /\ balances[a].debit = 0 /\ Opening[a] \in Int64s /\ Opening[a] \in Int
    BY <1>1, CustomersAreAccounts, OpeningAssumption DEF OpeningRow, Int64s
  <2>2. ASSUME NEW a
        PROVE  /\ To(a, With("applied", transactions)) = {}
               /\ From(a, With("void", Children)) = {}
               /\ From(a, With("applied", transactions \ Children)) = {}
               /\ From(a, Requested) = {} /\ To(a, Requested) = {}
               /\ To(a, Children) = {} /\ From(a, Children) = {}
    BY <1>1, <1>2 DEF To, From, With
  <2> QED
    <3>1. Int64(0) = 0
      BY WordAssumption, Int64Keeps DEF Int64s
    <3>2. ASSUME NEW a \in Customers
          PROVE  Int64(Opening[a] + Moved(a)) = Opening[a]
      <4>1. Moved(a) = 0
        BY <2>2, TotalEmpty DEF Moved
      <4>2. Opening[a] + Moved(a) = Opening[a]
        BY <2>1, <3>2, <4>1
      <4> QED
        BY <2>1, <3>2, <4>2, Int64Keeps
    <3> QED
      BY <2>1, <2>2, <3>1, <3>2, TotalEmpty DEF JournalExplainsBalances
<1>4. SettlementsMatchEvents
  BY <1>1, <1>2 DEF SettlementsMatchEvents
<1> QED
  BY <1>1, <1>2, <1>3, <1>4, FS_EmptySet
     DEF AuditInv, ReferencesAreUnique, RequestsAreWellFormed, SettlementsFollowRequests,
         EndsDiffer, With

(***************************************************************************)
(* The audit never fails: it holds at every abstract step, and every step  *)
(* of the handlers is one.                                                 *)
(***************************************************************************)
LEMMA Audited == Spec => []AuditInv
<1>1. Init => RInv /\ AuditInv
  BY InitEstablishesIInv, InitRefines, InitIsAudited DEF RInv
<1>2. RInv /\ AuditInv /\ [Next]_vars => RInv' /\ AuditInv'
  BY NextKeepsIInv, NextKeepsFacts, NextRefines, AtomicStepIsAudited DEF RInv, IInv
<1> QED
  BY <1>1, <1>2, PTL DEF Spec

(***************************************************************************)
(* JournalExplainsBalances, for any number of concurrent requests: what a  *)
(* customer holds, awaits and has reserved is at every moment the sum of   *)
(* what the recorded transactions say.                                     *)
(***************************************************************************)
THEOREM JournalAgrees == Spec => []JournalExplainsBalances
<1>1. AuditInv => JournalExplainsBalances
  BY DEF AuditInv
<1> QED
  BY <1>1, Audited, PTL

(***************************************************************************)
(* SettlementsMatchEvents, however many events the gateway sends and       *)
(* however often it delivers each: a payment or payout has one settlement  *)
(* for every event acted upon, and no other.                               *)
(***************************************************************************)
THEOREM EventsSettleOnce == Spec => []SettlementsMatchEvents
<1>1. AuditInv => SettlementsMatchEvents
  BY DEF AuditInv
<1> QED
  BY <1>1, Audited, PTL

-----------------------------------------------------------------------------
(***************************************************************************)
(* Deliveries: the gateway delivers again, and a deliverer whose delivery  *)
(* failed starts over.  Every other step is one of Wallets.                *)
(***************************************************************************)
LEMMA DeliveryStep ==
    ASSUME [DeliveriesNext]_deliveryVars
    PROVE  [Next]_vars \/ \E d \in Deliverers : Again(d)
<1>1. \A r \in Clients \cup Deliverers : r \in Requests
  BY DeliverersAssumption DEF Clients
<1>2. ASSUME NEW r \in Requests, Start(r) \/ Step(r) \/ Fail(r)
      PROVE  Next
  BY <1>2 DEF Next
<1>3. ASSUME NEW r \in Clients, StartClient(r)
      PROVE  Start(r)
  BY <1>3 DEF StartClient, Start
<1>4. ASSUME NEW d \in Deliverers, StepDelivery(d)
      PROVE  Step(d)
  BY <1>4 DEF StepDelivery, FinishDelivery, Step
<1>5. ASSUME NEW e \in Outcomes, Deliver(e)
      PROVE  \E d \in Deliverers : Start(d)
  <2> DEFINE d == CHOOSE x \in Deliverers : pc[x] = "idle"
  <2>1. d \in Deliverers /\ Webhook(d, e)
    BY <1>5 DEF Deliver
  <2> HIDE DEF d
  <2>2. Start(d)
    BY <2>1, OutcomesAssumption DEF Start
  <2> QED
    BY <2>1, <2>2
<1>6. CASE UNCHANGED deliveryVars
  BY <1>6 DEF deliveryVars
<1> QED
  BY <1>1, <1>2, <1>3, <1>4, <1>5, <1>6
     DEF DeliveriesNext, StepClient, FailDelivery, TimeoutOf, Timeout, Emit,
         DeliveriesTerminating, deliveryVars

(***************************************************************************)
(* Starting over: nothing is left of the delivery that failed.             *)
(***************************************************************************)
LEMMA AgainKeepsRInv ==
    ASSUME RInv, NEW d \in Deliverers, Again(d)
    PROVE  RInv'
<1>1. /\ d \in Requests /\ pc[d] = "failed" /\ pc' = [pc EXCEPT ![d] = "idle"]
      /\ UNCHANGED <<balances, transactions, plan, step, call, sessions, events>>
  BY DeliverersAssumption DEF Again
<1>2. pc'[d] = "idle" /\ \A o \in Requests \ {d} : pc'[o] = pc[o]
  BY <1>1 DEF RInv, IInv, TypeOK
<1>3. LedgerInv'
  BY <1>1, LedgerUnchanged DEF RInv, IInv
<1>4. TypeOK'
  BY <1>1, <1>3 DEF RInv, IInv, TypeOK, LedgerInv, Phases
<1>5. CallsFollowPhases' /\ step'[d] = 0
  BY <1>1, <1>2 DEF RInv, IInv, CallsFollowPhases, Sufficient
<1>6. TransferReadsAreOld' /\ PlansAreCovered'
  BY <1>1, <1>2 DEF RInv, IInv, TransferReadsAreOld, UpToDate, PlansAreCovered, Spends,
                    Planned, Updates
<1>7. Facts'
  <2>1. Justified(d)' /\ ~ Marked(d)'
    BY <1>2 DEF Justified, Marked
  <2>2. Inserted(d)' = Inserted(d)
    BY <1>1 DEF Inserted, Inserts, Executed
  <2> QED
    BY <1>1, <1>2, <2>1, <2>2, SilentStepKeepsFacts
<1> QED
  BY <1>3, <1>4, <1>5, <1>6, <1>7 DEF RInv, IInv

LEMMA AgainRefines ==
    ASSUME NEW d \in Deliverers, Again(d)
    PROVE  UNCHANGED Atomic!vars
BY StutterRefines DEF Again

(***************************************************************************)
(* ImplementsAtomic with deliveries: however often the gateway tries, each *)
(* request and each event takes effect in one step, once.                  *)
(***************************************************************************)
THEOREM DeliveriesAtomicity == DeliveriesSpec => ImplementsAtomic
<1>1. DeliveriesInit => Atomic!Init /\ RInv
  BY InitEstablishesIInv, InitRefines DEF DeliveriesInit, RInv
<1>2. RInv /\ [DeliveriesNext]_deliveryVars => RInv'
  BY DeliveryStep, NextKeepsIInv, NextKeepsFacts, AgainKeepsRInv DEF RInv
<1>3. RInv /\ [DeliveriesNext]_deliveryVars => [Atomic!Next]_Atomic!vars
  BY DeliveryStep, NextRefines, AgainRefines
<1> QED
  BY <1>1, <1>2, <1>3, PTL DEF DeliveriesSpec, ImplementsAtomic, Atomic!Spec

LEMMA DeliveriesAudited == DeliveriesSpec => [](RInv /\ AuditInv)
<1>1. DeliveriesInit => RInv /\ AuditInv
  BY InitEstablishesIInv, InitRefines, InitIsAudited DEF DeliveriesInit, RInv
<1>2. RInv /\ AuditInv /\ [DeliveriesNext]_deliveryVars => RInv' /\ AuditInv'
  <2> SUFFICES ASSUME RInv, AuditInv, [DeliveriesNext]_deliveryVars
               PROVE  RInv' /\ AuditInv'
    OBVIOUS
  <2>1. RInv'
    BY DeliveryStep, NextKeepsIInv, NextKeepsFacts, AgainKeepsRInv DEF RInv
  <2>2. [Atomic!Next]_Atomic!vars
    BY DeliveryStep, NextRefines, AgainRefines
  <2> QED
    BY <2>1, <2>2, AtomicStepIsAudited DEF RInv, IInv
<1> QED
  BY <1>1, <1>2, PTL DEF DeliveriesSpec

(***************************************************************************)
(* A deliverer at work is in a webhook handler, so what FinishDelivery     *)
(* acknowledges is the event that its commit marks as processed.           *)
(***************************************************************************)
DeliverersDeliver ==
    \A d \in Deliverers : pc[d] \notin {"idle"} \cup Ended => call[d].op = "webhook"

GatewayInv == DeliverersDeliver /\ acknowledged \subseteq events

LEMMA OthersLeaveCalls ==
    ASSUME IInv, NEW d \in Requests, NEW r \in Requests \ {d},
           Start(r) \/ Step(r) \/ Fail(r)
    PROVE  pc'[d] = pc[d] /\ call'[d] = call[d]
<1>1. pc \in [Requests -> Phases] /\ call \in [Requests -> Call]
  BY DEF IInv, TypeOK
<1>2. ASSUME Return(r)
      PROVE  pc'[d] = pc[d] /\ call'[d] = call[d]
  BY <1>1, <1>2 DEF Return, Rollback, Leave
<1>3. ASSUME Start(r)
      PROVE  pc'[d] = pc[d] /\ call'[d] = call[d]
  BY <1>1, <1>3 DEF Start, Topup, Withdraw, Transfer, Webhook, Enter
<1>4. ASSUME Statements(r)
      PROVE  pc'[d] = pc[d] /\ call'[d] = call[d]
  BY <1>1, <1>4 DEF Statements, UpdateBalance, Record, Execute,
                    OptimisticLock, DuplicateReference, Rollback, Leave
<1>5. ASSUME Finish(r)
      PROVE  pc'[d] = pc[d] /\ call'[d] = call[d]
  BY <1>1, <1>5 DEF Finish, Commit, Leave
<1>6. ASSUME \/ TopupRead(r) \/ WithdrawRead(r) \/ TransferRead(r)
             \/ TopupWebhookRead(r) \/ PayoutWebhookRead(r) \/ MarkProcessed(r)
      PROVE  pc'[d] = pc[d] /\ call'[d] = call[d]
  BY <1>1, <1>6 DEF TopupRead, WithdrawRead, TransferRead, TopupWebhookRead,
                    PayoutWebhookRead, MarkProcessed, Begin
<1> QED
  BY <1>2, <1>3, <1>4, <1>5, <1>6
     DEF Step, Fail, WithdrawInsufficient, TransferRefused, AlreadyProcessed

LEMMA DeliverersKeepDelivering ==
    ASSUME IInv, [DeliveriesNext]_deliveryVars, DeliverersDeliver
    PROVE  DeliverersDeliver'
<1> SUFFICES ASSUME NEW d \in Deliverers, pc'[d] \notin {"idle"} \cup Ended
             PROVE  call'[d].op = "webhook"
  BY DEF DeliverersDeliver
<1>1. d \in Requests /\ pc \in [Requests -> Phases] /\ call \in [Requests -> Call]
  BY DeliverersAssumption DEF IInv, TypeOK
<1>2. CASE pc'[d] = pc[d] /\ call'[d] = call[d]
  BY <1>2 DEF DeliverersDeliver
<1>3. ASSUME NEW r \in Requests \ {d}, Start(r) \/ Step(r) \/ Fail(r)
      PROVE  pc'[d] = pc[d] /\ call'[d] = call[d]
  BY <1>1, <1>3, OthersLeaveCalls
<1>4. ~ Return(d) /\ ~ Rollback(d)
  BY <1>1 DEF Return, Rollback, Ended
<1>5. ASSUME StepDelivery(d)
      PROVE  call'[d].op = "webhook"
  <2>1. ~ Finish(d)
    BY <1>1 DEF Finish, Commit, Ended
  <2>2. ~ (AlreadyProcessed(d) \/ OptimisticLock(d) \/ DuplicateReference(d))
    BY <1>4 DEF AlreadyProcessed, OptimisticLock, DuplicateReference
  <2>3. call' = call /\ pc[d] \notin {"idle"} \cup Ended
    BY <1>5, <2>1, <2>2
       DEF StepDelivery, FinishDelivery, Statements, MarkProcessed, TopupWebhookRead,
           PayoutWebhookRead, UpdateBalance, Record, Pending, Ended
  <2> QED
    BY <2>3 DEF DeliverersDeliver
<1>6. ASSUME FailDelivery(d) \/ TimeoutOf(d) \/ Again(d)
      PROVE  FALSE
  BY <1>1, <1>4, <1>6 DEF FailDelivery, TimeoutOf, Timeout, Fail, Again
<1>7. ASSUME NEW o \in Deliverers \ {d}, Again(o)
      PROVE  pc'[d] = pc[d] /\ call'[d] = call[d]
  BY <1>1, <1>7 DEF Again
<1>8. ASSUME NEW e \in Outcomes, Deliver(e)
      PROVE  call'[d].op = "webhook"
  <2> DEFINE o == CHOOSE x \in Deliverers : pc[x] = "idle"
  <2>1. o \in Deliverers /\ o \in Requests /\ Webhook(o, e)
    BY <1>8, DeliverersAssumption DEF Deliver
  <2> HIDE DEF o
  <2>2. CASE o = d
    BY <1>1, <2>1, <2>2 DEF Webhook, Enter
  <2>3. CASE o # d
    <3>1. Start(o)
      BY <2>1, OutcomesAssumption DEF Start
    <3> QED
      BY <1>2, <1>3, <2>1, <2>3, <3>1
  <2> QED
    BY <2>2, <2>3
<1>9. ASSUME NEW r \in Clients, StartClient(r) \/ StepClient(r) \/ Fail(r)
      PROVE  pc'[d] = pc[d] /\ call'[d] = call[d]
  <2>1. r \in Requests \ {d} /\ (Start(r) \/ Step(r) \/ Fail(r))
    BY <1>9 DEF Clients, StartClient, StepClient, Start
  <2> QED
    BY <1>3, <2>1
<1>10. ASSUME NEW o \in Deliverers \ {d}, StepDelivery(o) \/ FailDelivery(o) \/ TimeoutOf(o)
       PROVE  pc'[d] = pc[d] /\ call'[d] = call[d]
  <2>1. o \in Requests \ {d} /\ (Step(o) \/ Fail(o))
    BY <1>10, DeliverersAssumption
       DEF StepDelivery, FinishDelivery, Step, FailDelivery, TimeoutOf, Timeout
  <2> QED
    BY <1>3, <2>1
<1>11. ASSUME UNCHANGED vars
       PROVE  pc'[d] = pc[d] /\ call'[d] = call[d]
  BY <1>11 DEF vars, ledgerVars
<1> QED
  BY <1>2, <1>5, <1>6, <1>7, <1>8, <1>9, <1>10, <1>11
     DEF DeliveriesNext, Emit, DeliveriesTerminating, deliveryVars

LEMMA AcknowledgedAreRecorded ==
    ASSUME [DeliveriesNext]_deliveryVars, DeliverersDeliver, acknowledged \subseteq events
    PROVE  acknowledged' \subseteq events'
<1>1. events \subseteq events'
  <2>1. ASSUME NEW r, Step(r) \/ Fail(r)
        PROVE  events \subseteq events'
    BY <2>1
       DEF Step, Fail, Return, Finish, Statements, TopupRead, WithdrawRead, TransferRead,
           WithdrawInsufficient, TransferRefused, AlreadyProcessed, MarkProcessed,
           TopupWebhookRead, PayoutWebhookRead
  <2>2. ASSUME NEW r, Start(r)
        PROVE  events \subseteq events'
    BY <2>2 DEF Start, Topup, Withdraw, Transfer, Webhook
  <2>3. CASE \E d \in Deliverers : Again(d)
    BY <2>3 DEF Again
  <2> QED
    BY <2>1, <2>2, <2>3, DeliveryStep DEF Next, Terminating, vars
<1>2. ASSUME NEW d \in Deliverers, FinishDelivery(d)
      PROVE  acknowledged' \subseteq events'
  <2>1. pc[d] = "writing" /\ call[d].op = "webhook"
    BY <1>2 DEF FinishDelivery, Finish, Commit, DeliverersDeliver, Ended
  <2>2. events' = events \cup {call[d].event}
    BY <1>2, <2>1 DEF FinishDelivery, Finish
  <2> QED
    BY <1>2, <2>2 DEF FinishDelivery
<1>3. CASE acknowledged' = acknowledged
  BY <1>1, <1>3
<1> QED
  BY <1>2, <1>3
     DEF DeliveriesNext, StartClient, StepClient, StepDelivery, FailDelivery, Again, TimeoutOf,
         Emit, Deliver, DeliveriesTerminating, gatewayVars, deliveryVars

(***************************************************************************)
(* An event that was recorded is counted, so there is a row to count.      *)
(***************************************************************************)
LEMMA AuditFindsSettlements ==
    ASSUME AuditInv, acknowledged \subseteq events
    PROVE  RecordedAreSettled
<1> SUFFICES ASSUME NEW e \in events
             PROVE  Settlements(e) # {}
  BY DEF RecordedAreSettled
<1> DEFINE status == SettledStatus(e.status)
<1>1. PICK p \in Requested : ParentReference(e) = p.reference
  BY DEF AuditInv, SettlementsMatchEvents
<1>2. status \in {"applied", "void"} /\ e \in EventsOf(p, status)
  BY <1>1 DEF SettledStatus, EventsOf
<1>3. IsFiniteSet(EventsOf(p, status)) /\ EventsOf(p, status) # {}
  BY <1>2, FS_Subset DEF AuditInv, EventsOf
<1>4. Cardinality(EventsOf(p, status)) # 0
  BY <1>3, FS_EmptySet
<1>5. Cardinality(With(status, ChildrenOf(p))) # 0
  BY <1>2, <1>4 DEF AuditInv, SettlementsMatchEvents
<1>6. With(status, ChildrenOf(p)) # {}
  BY <1>5, FS_EmptySet
<1> QED
  BY <1>1, <1>6 DEF With, ChildrenOf, Settlements

(***************************************************************************)
(* RecordedAreSettled, for any number of clients, deliverers, outcomes and *)
(* faults: what the gateway will not get through again has its settlement. *)
(***************************************************************************)
THEOREM DeliveriesSettle == DeliveriesSpec => []RecordedAreSettled
<1>1. DeliveriesInit => GatewayInv
  BY DeliverersAssumption DEF GatewayInv, DeliveriesInit, Init, LedgerInit, DeliverersDeliver
<1>2. RInv /\ GatewayInv /\ [DeliveriesNext]_deliveryVars => GatewayInv'
  BY DeliverersKeepDelivering, AcknowledgedAreRecorded DEF RInv, GatewayInv
<1>3. AuditInv /\ GatewayInv => RecordedAreSettled
  BY AuditFindsSettlements DEF GatewayInv
<1> QED
  BY <1>1, <1>2, <1>3, DeliveriesAudited, PTL DEF DeliveriesSpec

(***************************************************************************)
(* The audit of Wallets under deliveries that are repeated, fail, time out *)
(* or are answered in vain: the journal explains the balances, and         *)
(* settlements match events.                                               *)
(***************************************************************************)
THEOREM DeliveriesAccount ==
    DeliveriesSpec => [](JournalExplainsBalances /\ SettlementsMatchEvents)
<1>1. AuditInv => JournalExplainsBalances /\ SettlementsMatchEvents
  BY DEF AuditInv
<1> QED
  BY <1>1, DeliveriesAudited, PTL
=============================================================================
