---------------------------- MODULE WalletsProofs ----------------------------
(***************************************************************************)
(* The wallet service's types, its version discipline, the absence of lost *)
(* updates and the cover of every payment, for every number of requests,   *)
(* accounts and amounts.                                                   *)
(***************************************************************************)
EXTENDS Wallets, LedgerProofs

LEMMA CallTypes ==
    ASSUME TypeOK, NEW r \in Requests
    PROVE  /\ call[r] \in Call
           /\ pc[r] \in Phases
           /\ \A a \in Accounts : balances[a] \in Row
           /\ step[r] \in Nat
           /\ plan[r] \in Seq(Statement)
BY DEF TypeOK, LedgerTypeOK

(***************************************************************************)
(* The rows the services plan to store are rows.                           *)
(***************************************************************************)
LEMMA RowEffects ==
    ASSUME NEW row \in Row, NEW m \in Int, NEW status
    PROVE  /\ [row EXCEPT !.credit = Int64(@ + m)] \in Row
           /\ [row EXCEPT !.balance = Int64(@ - m), !.debit = Int64(@ + m)] \in Row
           /\ [row EXCEPT !.balance = Int64(@ - m)] \in Row
           /\ [row EXCEPT !.balance = Int64(@ + m)] \in Row
           /\ TopupSettled(row, m, status) \in Row
           /\ PayoutSettled(row, m, status) \in Row
<1>1. row.balance \in Int /\ row.credit \in Int /\ row.debit \in Int
  BY DEF Row, Int64s
<1>2. /\ row.balance - m \in Int /\ row.balance + m \in Int
      /\ row.credit + m \in Int /\ row.credit - m \in Int
      /\ row.debit + m \in Int /\ row.debit - m \in Int
  BY <1>1
<1>3. /\ Int64(row.balance - m) \in Int64s /\ Int64(row.balance + m) \in Int64s
      /\ Int64(row.credit + m) \in Int64s /\ Int64(row.credit - m) \in Int64s
      /\ Int64(row.debit + m) \in Int64s /\ Int64(row.debit - m) \in Int64s
  BY <1>2, Int64Type
<1>4. /\ [row EXCEPT !.credit = Int64(@ + m)] \in Row
      /\ [row EXCEPT !.balance = Int64(@ - m), !.debit = Int64(@ + m)] \in Row
      /\ [row EXCEPT !.balance = Int64(@ - m)] \in Row
      /\ [row EXCEPT !.balance = Int64(@ + m)] \in Row
  BY <1>3 DEF Row
<1>5. TopupSettled(row, m, status) \in Row
  BY <1>3 DEF Row, TopupSettled
<1>6. PayoutSettled(row, m, status) \in Row
  BY <1>3 DEF Row, PayoutSettled
<1> QED
  BY <1>4, <1>5, <1>6

LEMMA InitEstablishesIInv == Init => IInv
<1> SUFFICES ASSUME Init PROVE IInv
  OBVIOUS
<1>1. /\ balances = [a \in Accounts |-> OpeningRow(a)] /\ transactions = {}
      /\ pc = [r \in Requests |-> "idle"] /\ plan = [r \in Requests |-> << >>]
      /\ step = [r \in Requests |-> 0] /\ call = [r \in Requests |-> NoCall]
      /\ sessions = {} /\ events = {}
  BY DEF Init, LedgerInit
<1>2. \A a \in Accounts : OpeningRow(a) \in Row
  BY OpeningAssumption, WordAssumption DEF OpeningRow, Row, Int64s
<1>3. \A r \in Requests : Planned(r) = {} /\ Executed(r) = {}
  BY <1>1 DEF Planned, Executed
<1>4. LedgerTypeOK
  BY <1>1, <1>2 DEF LedgerTypeOK
<1>5. TypeOK
  BY <1>1, <1>4 DEF TypeOK, Phases, Ended, Call, NoCall
<1>6. LedgerInv
  BY <1>1, <1>3, <1>4 DEF LedgerInv, StepsAreInPlan, ReadsAreOld, Updates,
                          ExecutedReadsAreCurrent, LocksAreExclusive, Locked
<1>7. TransferReadsAreOld /\ CallsFollowPhases
  BY <1>1 DEF TransferReadsAreOld, CallsFollowPhases, NoCall
<1>8. PlansAreCovered
  BY <1>1 DEF PlansAreCovered
<1> QED
  BY <1>5, <1>6, <1>7, <1>8 DEF IInv

-----------------------------------------------------------------------------
(***************************************************************************)
(* A request that starts: Topup, Withdraw, Transfer, Webhook.              *)
(***************************************************************************)
LEMMA EnterKeepsIInv ==
    ASSUME IInv, NEW r \in Requests, pc[r] = "idle",
           NEW phase \in Phases, NEW c \in Call, Enter(r, phase, c),
           UNCHANGED <<balances, transactions, plan, step, events>>,
           sessions' \subseteq Session,
           phase # "writing",
           phase = "initiated" => c \in GatewayCall,
           phase = "sourceRead" => c \in TransferCall /\ Sufficient(c.read, c.amount),
           phase \in {"parentRead", "marked"} => c \in WebhookCall,
           c.op = "transfer" => UpToDate(c.read, c.account)
    PROVE  IInv'
<1>1. /\ pc' = [pc EXCEPT ![r] = phase] /\ call' = [call EXCEPT ![r] = c]
  BY DEF Enter
<1>2. /\ pc'[r] = phase /\ call'[r] = c
      /\ \A o \in Requests \ {r} : pc'[o] = pc[o] /\ call'[o] = call[o]
  BY <1>1 DEF IInv, TypeOK
<1>3. LedgerInv'
  BY LedgerUnchanged DEF IInv
<1>4. TypeOK'
  BY <1>1, <1>3 DEF IInv, TypeOK, LedgerInv
<1>5. TransferReadsAreOld'
  BY <1>2 DEF IInv, TransferReadsAreOld, UpToDate
<1>6. CallsFollowPhases'
  BY <1>2 DEF IInv, CallsFollowPhases, Sufficient
<1>7. PlansAreCovered'
  BY <1>2 DEF IInv, PlansAreCovered, Planned, Updates, Spends
<1> QED
  BY <1>3, <1>4, <1>5, <1>6, <1>7 DEF IInv

LEMMA StartKeepsIInv ==
    ASSUME IInv, NEW r \in Requests, Start(r)
    PROVE  IInv'
<1> USE DEF Phases, Ended
<1>1. CASE \E a \in Customers, m \in Amounts : Topup(r, a, m)
  <2> PICK a \in Customers, m \in Amounts : Topup(r, a, m)
    BY <1>1
  <2> DEFINE c == [op |-> "topup", account |-> a, amount |-> m]
  <2>1. c \in GatewayCall /\ c \in Call /\ c.op # "transfer"
    BY DEF GatewayCall, Call
  <2>2. sessions' \subseteq Session
    BY DEF Topup, IInv, TypeOK, Session
  <2> QED
    BY <2>1, <2>2, EnterKeepsIInv DEF Topup
<1>2. CASE \E a \in Customers, m \in Amounts : Withdraw(r, a, m)
  <2> PICK a \in Customers, m \in Amounts : Withdraw(r, a, m)
    BY <1>2
  <2> DEFINE c == [op |-> "withdrawal", account |-> a, amount |-> m]
  <2>1. c \in GatewayCall /\ c \in Call /\ c.op # "transfer"
    BY DEF GatewayCall, Call
  <2>2. sessions' \subseteq Session
    BY DEF Withdraw, IInv, TypeOK, Session
  <2> QED
    BY <2>1, <2>2, EnterKeepsIInv DEF Withdraw
<1>3. CASE \E a \in Customers, to \in Customers \cup Merchants, m \in Amounts,
              ref \in ClientRefs : Transfer(r, a, to, m, ref)
  <2> PICK a \in Customers, to \in Customers \cup Merchants, m \in Amounts,
           ref \in ClientRefs : Transfer(r, a, to, m, ref)
    BY <1>3
  <2> DEFINE c == [op |-> "transfer", account |-> a, to |-> to, amount |-> m,
                   reference |-> ref, read |-> balances[a]]
  <2>1. balances[a] \in Row /\ balances[a].version \in Nat
    BY CustomersAreAccounts, CallTypes DEF IInv, Row
  <2>2. c \in TransferCall /\ c \in Call
    BY <2>1, ClientRefsAssumption DEF TransferCall, Call
  <2>3. UpToDate(c.read, c.account) /\ Sufficient(c.read, c.amount)
    BY <2>1, CurrentRowIsUpToDate DEF Transfer
  <2> QED
    BY <2>2, <2>3, EnterKeepsIInv DEF Transfer, IInv, TypeOK
<1>4. CASE \E e \in Event : Webhook(r, e)
  <2> PICK e \in Event : Webhook(r, e)
    BY <1>4
  <2> PICK parent \in transactions :
           Enter(r, "parentRead", [op |-> "webhook", event |-> e, parent |-> parent])
    BY DEF Webhook
  <2> DEFINE c == [op |-> "webhook", event |-> e, parent |-> parent]
  <2>1. c \in WebhookCall /\ c \in Call /\ c.op # "transfer"
    BY DEF WebhookCall, Call, IInv, TypeOK, LedgerTypeOK
  <2> QED
    BY <2>1, EnterKeepsIInv DEF Webhook, IInv, TypeOK
<1> QED
  BY <1>1, <1>2, <1>3, <1>4 DEF Start

-----------------------------------------------------------------------------
(***************************************************************************)
(* A request that has read and checked all it needs: the five plans.       *)
(***************************************************************************)
LEMMA BeginKeepsIInv ==
    ASSUME IInv, NEW r \in Requests, pc[r] # "writing",
           NEW statements \in Seq(Statement), Begin(r, statements),
           UNCHANGED <<call, sessions, events>>,
           \A i \in 1..Len(statements) : statements[i].table = "balances" =>
               /\ UpToDate(statements[i].read, statements[i].account)
               /\ call[r].op \in {"withdrawal", "transfer"}
                     /\ statements[i].account = call[r].account
                     => Spends(statements[i], call[r]),
           call[r].op \in {"withdrawal", "transfer"} =>
               /\ call[r] \in GatewayCall \cup TransferCall
               /\ \E i \in 1..Len(statements) :
                     /\ statements[i].table = "balances"
                     /\ statements[i].account = call[r].account
    PROVE  IInv'
<1>1. /\ balances' = balances /\ transactions' = transactions /\ step' = step
      /\ plan' = [plan EXCEPT ![r] = statements]
      /\ pc' = [pc EXCEPT ![r] = "writing"]
  BY DEF Begin
<1>2. /\ plan'[r] = statements /\ pc'[r] = "writing"
      /\ \A o \in Requests \ {r} : plan'[o] = plan[o] /\ pc'[o] = pc[o]
  BY <1>1 DEF IInv, TypeOK, LedgerTypeOK
<1>3. step[r] = 0
  BY DEF IInv, CallsFollowPhases
<1>4. LedgerInv'
  BY <1>3, BeginPreservesLedger DEF IInv
<1>5. TypeOK'
  BY <1>1, <1>4 DEF IInv, TypeOK, LedgerInv, Phases
<1>6. TransferReadsAreOld'
  BY <1>1 DEF IInv, TransferReadsAreOld, UpToDate
<1>7. CallsFollowPhases'
  BY <1>1, <1>2 DEF IInv, CallsFollowPhases, Sufficient
<1>8. PlansAreCovered'
  <2> SUFFICES ASSUME NEW o \in Requests, pc'[o] = "writing",
                      call[o].op \in {"withdrawal", "transfer"}
               PROVE  LET own == {s \in Updates(Planned(o))' : s.account = call[o].account}
                      IN  /\ call[o] \in GatewayCall \cup TransferCall
                          /\ own # {}
                          /\ \A s \in own : Spends(s, call[o])
    BY DEF PlansAreCovered, Spends
  <2>1. CASE o = r
    <3>1. Updates(Planned(r))' =
            {s \in {statements[i] : i \in 1..Len(statements)} : s.table = "balances"}
      BY <1>2 DEF Planned, Updates
    <3> QED
      BY <2>1, <3>1
  <2>2. CASE o # r
    <3>1. pc[o] = "writing" /\ Updates(Planned(o))' = Updates(Planned(o))
      BY <1>2, <2>2 DEF Planned, Updates
    <3> QED
      BY <3>1 DEF IInv, PlansAreCovered
  <2> QED
    BY <2>1, <2>2
<1> QED
  BY <1>4, <1>5, <1>6, <1>7, <1>8 DEF IInv

(***************************************************************************)
(* The plans with one update.                                              *)
(***************************************************************************)
LEMMA OneUpdateKeepsIInv ==
    ASSUME IInv, NEW r \in Requests, pc[r] # "writing",
           NEW t \in Transaction, NEW a \in Accounts, NEW row \in Row,
           Begin(r, << Insert(t), Update(a, balances[a], row) >>),
           UNCHANGED <<call, sessions, events>>,
           call[r].op # "transfer",
           call[r].op = "withdrawal" =>
               /\ call[r] \in GatewayCall /\ a = call[r].account
               /\ balances[a].balance >= call[r].amount
               /\ row.balance = Int64(balances[a].balance - call[r].amount)
    PROVE  IInv'
<1> DEFINE p == << Insert(t), Update(a, balances[a], row) >>
<1>1. balances[a] \in Row
  BY CallTypes DEF IInv
<1>2. p \in Seq(Statement) /\ Len(p) = 2
  BY <1>1, StatementTypes
<1>3. UpToDate(balances[a], a)
  BY <1>1, CurrentRowIsUpToDate DEF Row
<1>4. /\ p[1].table = "transactions"
      /\ p[2].account = a /\ p[2].read = balances[a] /\ p[2].row = row
  BY <1>1, StatementTypes
<1>5. p[2].table = "balances"
  BY <1>1, StatementTypes
<1>6. \A i \in 1..Len(p) : p[i].table = "balances" => i = 2
  BY <1>2, <1>4
<1> HIDE DEF p
<1>7. \A i \in 1..Len(p) : p[i].table = "balances" =>
          /\ UpToDate(p[i].read, p[i].account)
          /\ call[r].op \in {"withdrawal", "transfer"} /\ p[i].account = call[r].account
                => Spends(p[i], call[r])
  BY <1>3, <1>4, <1>6 DEF Spends
<1>8. call[r].op \in {"withdrawal", "transfer"} =>
          /\ call[r] \in GatewayCall \cup TransferCall
          /\ \E i \in 1..Len(p) : p[i].table = "balances" /\ p[i].account = call[r].account
  BY <1>2, <1>4, <1>5
<1> QED
  BY <1>2, <1>7, <1>8, BeginKeepsIInv DEF p

LEMMA TopupReadKeepsIInv ==
    ASSUME IInv, NEW r \in Requests, TopupRead(r)
    PROVE  IInv'
<1> DEFINE a == call[r].account
           m == call[r].amount
<1>1. /\ pc[r] = "initiated" /\ call[r].op = "topup"
      /\ Begin(r, TopupPlan(r, a, m, balances[a]))
      /\ UNCHANGED <<call, sessions, events>>
  BY DEF TopupRead
<1>2. a \in Accounts /\ m \in Int
  BY <1>1, CustomersAreAccounts, AmountsAssumption DEF IInv, CallsFollowPhases, GatewayCall
<1>3. balances[a] \in Row
  BY <1>2, CallTypes DEF IInv
<1> HIDE DEF a, m
<1> DEFINE row == [balances[a] EXCEPT !.credit = Int64(@ + m)]
           t == Transfers(Reference("topup", r), World, a, m, "inflight")
<1>4. row \in Row
  BY <1>2, <1>3, RowEffects
<1>5. t \in Transaction
  BY <1>2, TransactionTypes, CustomersAreAccounts DEF Prefixes, Statuses
<1>6. Begin(r, << Insert(t), Update(a, balances[a], row) >>)
  BY <1>1 DEF TopupPlan
<1> HIDE DEF row, t
<1> QED
  BY <1>1, <1>2, <1>4, <1>5, <1>6, OneUpdateKeepsIInv

LEMMA WithdrawReadKeepsIInv ==
    ASSUME IInv, NEW r \in Requests, WithdrawRead(r)
    PROVE  IInv'
<1> DEFINE a == call[r].account
           m == call[r].amount
<1>1. /\ pc[r] = "initiated" /\ call[r].op = "withdrawal"
      /\ Begin(r, WithdrawPlan(r, a, m, balances[a]))
      /\ balances[a].balance >= m
      /\ UNCHANGED <<call, sessions, events>>
  BY DEF WithdrawRead, Sufficient
<1>2. call[r] \in GatewayCall /\ a \in Accounts /\ m \in Int
  BY <1>1, CustomersAreAccounts, AmountsAssumption DEF IInv, CallsFollowPhases, GatewayCall
<1>3. balances[a] \in Row
  BY <1>2, CallTypes DEF IInv
<1>4. a = call[r].account /\ m = call[r].amount
  OBVIOUS
<1> HIDE DEF a, m
<1> DEFINE row == [balances[a] EXCEPT !.balance = Int64(@ - m), !.debit = Int64(@ + m)]
           t == Transfers(Reference("withdrawal", r), a, World, m, "inflight")
<1>5. row \in Row
  BY <1>2, <1>3, RowEffects
<1>6. row.balance = Int64(balances[a].balance - m)
  BY <1>3 DEF Row
<1>7. t \in Transaction
  BY <1>2, TransactionTypes, CustomersAreAccounts DEF Prefixes, Statuses
<1>8. Begin(r, << Insert(t), Update(a, balances[a], row) >>)
  BY <1>1 DEF WithdrawPlan
<1> HIDE DEF row, t
<1> QED
  BY <1>1, <1>2, <1>4, <1>5, <1>6, <1>7, <1>8, OneUpdateKeepsIInv

LEMMA WebhookReadKeepsIInv ==
    ASSUME IInv, NEW r \in Requests, TopupWebhookRead(r) \/ PayoutWebhookRead(r)
    PROVE  IInv'
<1> DEFINE parent == call[r].parent
           status == SettledStatus(call[r].event.status)
           m == parent.amount
<1>1. pc[r] = "marked" /\ UNCHANGED <<call, sessions, events>>
  BY DEF TopupWebhookRead, PayoutWebhookRead
<1>2. parent \in Transaction /\ status \in Statuses /\ call[r].op = "webhook"
  BY <1>1 DEF IInv, CallsFollowPhases, WebhookCall, SettledStatus, Statuses
<1>3. /\ m \in Int /\ parent.source \in Accounts /\ parent.destination \in Accounts
      /\ balances[parent.source] \in Row /\ balances[parent.destination] \in Row
  BY <1>2, CallTypes DEF IInv, Transaction, Int64s
<1>4. CASE TopupWebhookRead(r)
  <2> DEFINE a == parent.destination
             row == TopupSettled(balances[a], m, status)
             t == SettlementOf(parent, Reference("topup", r), status)
  <2>1. Begin(r, << Insert(t), Update(a, balances[a], row) >>)
    BY <1>4 DEF TopupWebhookRead, TopupWebhookPlan
  <2>2. row \in Row
    BY <1>3, RowEffects
  <2>3. t \in Transaction
    BY <1>2, TransactionTypes DEF Prefixes
  <2> HIDE DEF row, t
  <2> QED
    BY <1>1, <1>2, <1>3, <2>1, <2>2, <2>3, OneUpdateKeepsIInv
<1>5. CASE PayoutWebhookRead(r)
  <2> DEFINE a == parent.source
             row == PayoutSettled(balances[a], m, status)
             t == SettlementOf(parent, Reference("withdrawal", r), status)
  <2>1. Begin(r, << Insert(t), Update(a, balances[a], row) >>)
    BY <1>5 DEF PayoutWebhookRead, PayoutWebhookPlan
  <2>2. row \in Row
    BY <1>3, RowEffects
  <2>3. t \in Transaction
    BY <1>2, TransactionTypes DEF Prefixes
  <2> HIDE DEF row, t
  <2> QED
    BY <1>1, <1>2, <1>3, <2>1, <2>2, <2>3, OneUpdateKeepsIInv
<1> QED
  BY <1>4, <1>5

(***************************************************************************)
(* The plan with two updates: the source as read earlier, the destination  *)
(* as it is now.                                                           *)
(***************************************************************************)
LEMMA TransferReadKeepsIInv ==
    ASSUME IInv, NEW r \in Requests, TransferRead(r)
    PROVE  IInv'
<1> DEFINE c == call[r]
           toRead == balances[c.to]
           t == Transfers(c.reference, c.account, c.to, c.amount, "applied")
           debited == [c.read EXCEPT !.balance = Int64(@ - c.amount)]
           credited == [toRead EXCEPT !.balance = Int64(@ + c.amount)]
           p == << Insert(t), Update(c.account, c.read, debited),
                   Update(c.to, toRead, credited) >>
<1>1. /\ pc[r] = "sourceRead" /\ Begin(r, p) /\ c.to # c.account
      /\ UNCHANGED <<call, sessions, events>>
  BY DEF TransferRead, TransferPlan, TransferAllowed
<1>2. c \in TransferCall /\ c.read.balance >= c.amount
  BY <1>1 DEF IInv, CallsFollowPhases, Sufficient
<1>3. /\ c.account \in Accounts /\ c.to \in Accounts /\ c.amount \in Int
      /\ c.reference \in References /\ c.read \in Row /\ c.op = "transfer"
  BY <1>2, CustomersAreAccounts, AmountsAssumption DEF TransferCall
<1>4. UpToDate(c.read, c.account)
  BY <1>3 DEF IInv, TransferReadsAreOld
<1>5. toRead \in Row /\ UpToDate(toRead, c.to)
  BY <1>3, CallTypes, CurrentRowIsUpToDate DEF IInv, Row
<1>6. debited \in Row /\ credited \in Row
  BY <1>3, <1>5, RowEffects
<1>7. debited.balance = Int64(c.read.balance - c.amount)
  BY <1>3 DEF Row
<1>8. t \in Transaction
  BY <1>3, TransactionTypes DEF Statuses
<1>9. c = call[r]
  OBVIOUS
<1> HIDE DEF c, toRead, t, debited, credited
<1>10. /\ p \in Seq(Statement) /\ Len(p) = 3
       /\ p[1].table = "transactions" /\ p[2].table = "balances"
       /\ p[2].account = c.account /\ p[2].read = c.read /\ p[2].row = debited
       /\ p[3].account = c.to /\ p[3].read = toRead /\ p[3].row = credited
  BY <1>3, <1>5, <1>6, <1>8, StatementTypes
<1> HIDE DEF p
<1>11. \A i \in 1..Len(p) : p[i].table = "balances" =>
          /\ UpToDate(p[i].read, p[i].account)
          /\ p[i].account = c.account => Spends(p[i], c)
  <2> SUFFICES ASSUME NEW i \in 1..Len(p), p[i].table = "balances"
               PROVE  /\ UpToDate(p[i].read, p[i].account)
                      /\ p[i].account = c.account => Spends(p[i], c)
    OBVIOUS
  <2>1. i = 2 \/ i = 3
    BY <1>10
  <2> QED
    BY <1>1, <1>2, <1>4, <1>5, <1>7, <1>10, <2>1 DEF Spends
<1>12. \E i \in 1..Len(p) : p[i].table = "balances" /\ p[i].account = c.account
  BY <1>10
<1> QED
  BY <1>1, <1>2, <1>9, <1>10, <1>11, <1>12, BeginKeepsIInv

-----------------------------------------------------------------------------
(***************************************************************************)
(* The other steps.                                                        *)
(***************************************************************************)
LEMMA MarkProcessedKeepsIInv ==
    ASSUME IInv, NEW r \in Requests, MarkProcessed(r)
    PROVE  IInv'
<1>1. /\ UNCHANGED <<balances, transactions, plan, step, call, sessions, events>>
      /\ pc' = [pc EXCEPT ![r] = "marked"] /\ pc[r] = "parentRead"
  BY DEF MarkProcessed
<1>2. pc'[r] = "marked" /\ \A o \in Requests \ {r} : pc'[o] = pc[o]
  BY <1>1 DEF IInv, TypeOK
<1>3. LedgerInv'
  BY <1>1, LedgerUnchanged DEF IInv
<1>4. TypeOK'
  BY <1>1, <1>3 DEF IInv, TypeOK, LedgerInv, Phases
<1>5. TransferReadsAreOld'
  BY <1>1 DEF IInv, TransferReadsAreOld, UpToDate
<1>6. CallsFollowPhases'
  BY <1>1, <1>2 DEF IInv, CallsFollowPhases, Sufficient
<1>7. PlansAreCovered'
  BY <1>1, <1>2 DEF IInv, PlansAreCovered, Planned, Updates, Spends
<1> QED
  BY <1>3, <1>4, <1>5, <1>6, <1>7 DEF IInv

(***************************************************************************)
(* A request that ends: its transaction, if any, is rolled back or         *)
(* committed, and its locals are gone.                                     *)
(***************************************************************************)
LEMMA EndKeepsIInv ==
    ASSUME IInv, NEW r \in Requests, NEW phase \in Ended,
           Ends(r), Leave(r), pc' = [pc EXCEPT ![r] = phase],
           LedgerInv',
           sessions' \subseteq Session, events' \subseteq Event,
           \A a \in Accounts, read \in Row : UpToDate(read, a) => UpToDate(read, a)'
    PROVE  IInv'
<1>1. /\ call'[r] = NoCall /\ pc'[r] = phase /\ step'[r] = 0
      /\ \A o \in Requests \ {r} :
            call'[o] = call[o] /\ pc'[o] = pc[o] /\ step'[o] = step[o]
  BY DEF IInv, TypeOK, LedgerTypeOK, Leave, Ends
<1>2. TypeOK'
  BY DEF IInv, TypeOK, LedgerInv, Leave, Phases, Call
<1>3. TransferReadsAreOld'
  <2> SUFFICES ASSUME NEW o \in Requests, call'[o].op = "transfer"
               PROVE  UpToDate(call[o].read, call[o].account)' /\ call'[o] = call[o]
    BY DEF TransferReadsAreOld
  <2>1. o # r /\ call'[o] = call[o]
    BY <1>1 DEF NoCall
  <2>2. call[o] \in TransferCall
    BY <2>1, CallTypes DEF IInv, Call, NoCall, GatewayCall, TransferCall, WebhookCall
  <2>3. call[o].read \in Row /\ call[o].account \in Accounts
    BY <2>2, CustomersAreAccounts DEF TransferCall
  <2>4. UpToDate(call[o].read, call[o].account)
    BY <2>1 DEF IInv, TransferReadsAreOld
  <2> QED
    BY <2>1, <2>3, <2>4 DEF UpToDate
<1>4. CallsFollowPhases'
  BY <1>1 DEF IInv, CallsFollowPhases, Sufficient, Ended
<1>5. PlansAreCovered'
  <2>1. \A o \in Requests \ {r} : Planned(o)' = Planned(o)
    BY EndReleases DEF IInv, LedgerInv
  <2> QED
    BY <1>1, <2>1 DEF IInv, PlansAreCovered, Updates, Spends, Ended
<1> QED
  BY <1>2, <1>3, <1>4, <1>5 DEF IInv

LEMMA RollbackKeepsIInv ==
    ASSUME IInv, NEW r \in Requests, Rollback(r), Leave(r),
           UNCHANGED <<sessions, events>>
    PROVE  IInv'
<1>1. /\ Ends(r) /\ pc' = [pc EXCEPT ![r] = "failed"]
      /\ balances' = balances
  BY DEF Rollback, Ends
<1>2. LedgerInv'
  BY RollbackPreservesLedger DEF IInv
<1>3. "failed" \in Ended /\ sessions' \subseteq Session /\ events' \subseteq Event
  BY DEF Ended, IInv, TypeOK
<1>4. \A a \in Accounts, read \in Row : UpToDate(read, a) => UpToDate(read, a)'
  BY <1>1 DEF UpToDate
<1> QED
  BY <1>1, <1>2, <1>3, <1>4, EndKeepsIInv

LEMMA ExecuteKeepsIInv ==
    ASSUME IInv, NEW r \in Requests, UpdateBalance(r) \/ Record(r),
           UNCHANGED <<call, sessions, events>>
    PROVE  IInv'
<1>1. Pending(r) /\ Execute(r)
  BY DEF UpdateBalance, Record
<1>2. /\ balances' = balances /\ pc' = pc /\ plan' = plan
      /\ step' = [step EXCEPT ![r] = @ + 1] /\ pc[r] = "writing"
  BY <1>1 DEF Execute, Pending
<1>3. LedgerInv'
  BY UpdatePreservesLedger, RecordPreservesLedger DEF IInv
<1>4. TypeOK'
  BY <1>2, <1>3 DEF IInv, TypeOK, LedgerInv
<1>5. TransferReadsAreOld'
  BY <1>2 DEF IInv, TransferReadsAreOld, UpToDate
<1>6. CallsFollowPhases'
  <2>1. \A o \in Requests : pc[o] # "writing" => step'[o] = step[o]
    BY <1>2 DEF IInv, TypeOK, LedgerTypeOK
  <2> QED
    BY <1>2, <2>1 DEF IInv, CallsFollowPhases, Sufficient
<1>7. PlansAreCovered'
  BY <1>2 DEF IInv, PlansAreCovered, Planned, Updates, Spends
<1> QED
  BY <1>3, <1>4, <1>5, <1>6, <1>7 DEF IInv

LEMMA FinishKeepsIInv ==
    ASSUME IInv, NEW r \in Requests, Finish(r)
    PROVE  IInv'
<1>1. Commit(r) /\ Leave(r)
  BY DEF Finish
<1>2. Ends(r) /\ pc' = [pc EXCEPT ![r] = "done"]
  BY <1>1 DEF Commit, Ends
<1>3. LedgerInv'
  BY <1>1, CommitPreservesLedger DEF IInv
<1>4. "done" \in Ended /\ sessions' \subseteq Session
  BY DEF Ended, IInv, TypeOK, Finish
<1>5. events' \subseteq Event
  <2>1. CASE call[r].op = "webhook"
    <3>1. call[r] \in WebhookCall
      BY <2>1, CallTypes DEF IInv, Call, NoCall, GatewayCall, TransferCall, WebhookCall
    <3> QED
      BY <2>1, <3>1 DEF Finish, IInv, TypeOK, WebhookCall
  <2>2. CASE call[r].op # "webhook"
    BY <2>2 DEF Finish, IInv, TypeOK
  <2> QED
    BY <2>1, <2>2
<1>6. \A a \in Accounts, read \in Row : UpToDate(read, a) => UpToDate(read, a)'
  BY <1>1, CommitKeepsReadsOld DEF IInv
<1> QED
  BY <1>1, <1>2, <1>3, <1>4, <1>5, <1>6, EndKeepsIInv

LEMMA StepKeepsIInv ==
    ASSUME IInv, NEW r \in Requests, Step(r)
    PROVE  IInv'
<1>1. CASE WithdrawInsufficient(r) \/ TransferRefused(r) \/ AlreadyProcessed(r)
  BY <1>1, RollbackKeepsIInv
     DEF WithdrawInsufficient, TransferRefused, AlreadyProcessed, Return
<1>2. CASE Statements(r)
  BY <1>2, RollbackKeepsIInv, ExecuteKeepsIInv
     DEF Statements, OptimisticLock, DuplicateReference
<1> QED
  BY <1>1, <1>2, TopupReadKeepsIInv, WithdrawReadKeepsIInv, TransferReadKeepsIInv,
     WebhookReadKeepsIInv, MarkProcessedKeepsIInv, FinishKeepsIInv DEF Step

LEMMA NextKeepsIInv == IInv /\ [Next]_vars => IInv'
<1> SUFFICES ASSUME IInv, [Next]_vars
             PROVE  IInv'
  OBVIOUS
<1>1. ASSUME NEW r \in Requests, Start(r)
      PROVE  IInv'
  BY <1>1, StartKeepsIInv
<1>2. ASSUME NEW r \in Requests, Step(r)
      PROVE  IInv'
  BY <1>2, StepKeepsIInv
<1>3. ASSUME NEW r \in Requests, Fail(r)
      PROVE  IInv'
  BY <1>3, RollbackKeepsIInv DEF Fail, Return
<1>4. CASE UNCHANGED vars
  <2>1. /\ UNCHANGED <<balances, transactions, pc, plan, step>>
        /\ UNCHANGED <<call, sessions, events>>
    BY <1>4 DEF vars, ledgerVars
  <2>2. LedgerInv'
    BY <2>1, LedgerUnchanged DEF IInv
  <2> QED
    BY <2>1, <2>2 DEF IInv, TypeOK, LedgerInv, TransferReadsAreOld, UpToDate,
       CallsFollowPhases, Sufficient, PlansAreCovered, Planned, Updates, Spends
<1> QED
  BY <1>1, <1>2, <1>3, <1>4 DEF Next, Terminating

THEOREM Invariance == Spec => []IInv
<1>1. Init => IInv
  BY InitEstablishesIInv
<1>2. IInv /\ [Next]_vars => IInv'
  BY NextKeepsIInv
<1> QED
  BY <1>1, <1>2, PTL DEF Spec

-----------------------------------------------------------------------------
(***************************************************************************)
(* Type correctness of the wallet service.                                 *)
(***************************************************************************)
THEOREM TypeCorrect == Spec => []TypeOK
<1>1. IInv => TypeOK
  BY DEF IInv
<1> QED
  BY <1>1, Invariance, PTL

(***************************************************************************)
(* The version column and the row locks protect every read a request bases *)
(* its updates on.                                                         *)
(***************************************************************************)
THEOREM VersionDiscipline == Spec => []VersionsGuardReads
<1>1. IInv => VersionsGuardReads
  BY DEF IInv, LedgerInv, VersionsGuardReads
<1> QED
  BY <1>1, Invariance, PTL

-----------------------------------------------------------------------------
(***************************************************************************)
(* Only Finish ends a request successfully, and only its own.              *)
(***************************************************************************)
LEMMA OnlyFinishCommits ==
    ASSUME IInv, Next, NEW r \in Requests, Commits(r)
    PROVE  Finish(r)
<1>1. pc[r] = "writing" /\ pc'[r] = "done"
  BY DEF Commits
<1>2. pc \in [Requests -> Phases]
  BY DEF IInv, TypeOK
<1>3. ASSUME NEW o \in Requests, Start(o)
      PROVE  FALSE
  BY <1>1, <1>2, <1>3 DEF Start, Topup, Withdraw, Transfer, Webhook, Enter
<1>4. ASSUME NEW o \in Requests, Rollback(o)
      PROVE  FALSE
  BY <1>1, <1>2, <1>4 DEF Rollback
<1>5. ASSUME NEW o \in Requests, Execute(o)
      PROVE  FALSE
  BY <1>1, <1>5 DEF Execute
<1>6. ASSUME NEW o \in Requests, NEW statements, Begin(o, statements)
      PROVE  FALSE
  BY <1>1, <1>2, <1>6 DEF Begin
<1>7. ASSUME NEW o \in Requests, Finish(o)
      PROVE  o = r
  BY <1>1, <1>2, <1>7 DEF Finish, Commit
<1>8. ASSUME NEW o \in Requests, Step(o)
      PROVE  Finish(o)
  <2>1. ~ MarkProcessed(o)
    BY <1>1, <1>2 DEF MarkProcessed
  <2>2. ~ (WithdrawInsufficient(o) \/ TransferRefused(o) \/ AlreadyProcessed(o))
    BY <1>4 DEF WithdrawInsufficient, TransferRefused, AlreadyProcessed, Return
  <2>3. ~ Statements(o)
    BY <1>4, <1>5 DEF Statements, UpdateBalance, Record, OptimisticLock,
                      DuplicateReference
  <2>4. ~ (TopupRead(o) \/ WithdrawRead(o) \/ TransferRead(o)
              \/ TopupWebhookRead(o) \/ PayoutWebhookRead(o))
    BY <1>6 DEF TopupRead, WithdrawRead, TransferRead, TopupWebhookRead,
                PayoutWebhookRead
  <2> QED
    BY <1>8, <2>1, <2>2, <2>3, <2>4 DEF Step
<1>9. ASSUME NEW o \in Requests, Fail(o)
      PROVE  FALSE
  BY <1>4, <1>9 DEF Fail, Return
<1>10. ~ Terminating
  BY <1>1 DEF Terminating, vars, ledgerVars
<1> QED
  BY <1>3, <1>7, <1>8, <1>9, <1>10 DEF Next

(***************************************************************************)
(* Every commit replaces exactly the rows its service read.                *)
(***************************************************************************)
THEOREM LostUpdateFreedom == Spec => NoLostUpdate
<1>1. IInv /\ [Next]_vars => [NoLostUpdateStep]_ledgerVars
  <2> SUFFICES ASSUME IInv, [Next]_vars
               PROVE  [NoLostUpdateStep]_ledgerVars
    OBVIOUS
  <2>1. CASE UNCHANGED vars
    BY <2>1 DEF vars
  <2>2. CASE Next
    <3> SUFFICES ASSUME NEW r \in Requests, Commits(r)
                 PROVE  \A s \in Updates(Planned(r)) : s.read = balances[s.account]
      BY DEF NoLostUpdateStep
    <3>1. Commit(r)
      BY <2>2, OnlyFinishCommits DEF Finish
    <3> QED
      BY <3>1, CommitReadsAreCurrent DEF IInv
  <2> QED
    BY <2>1, <2>2
<1> QED
  BY <1>1, Invariance, PTL DEF Spec, NoLostUpdate

(***************************************************************************)
(* What the plan spends was read, and what was read is still there.        *)
(***************************************************************************)
LEMMA CommitIsCovered ==
    ASSUME IInv, NEW r \in Requests, Finish(r),
           call[r].op \in {"withdrawal", "transfer"}
    PROVE  /\ balances[call[r].account].balance >= call[r].amount
           /\ call[r].amount >= 0 => balances'[call[r].account].balance >= 0
<1> DEFINE c == call[r]
           a == call[r].account
<1>1. Commit(r) /\ pc[r] = "writing" /\ LedgerInv
  BY DEF Finish, Commit, IInv
<1>2. /\ c \in GatewayCall \cup TransferCall
      /\ \E s \in Updates(Planned(r)) : s.account = a
      /\ \A s \in Updates(Planned(r)) : s.account = a => Spends(s, c)
  BY <1>1 DEF IInv, PlansAreCovered
<1>3. a \in Accounts /\ c.amount \in Int
  BY <1>2, CustomersAreAccounts, AmountsAssumption DEF GatewayCall, TransferCall
<1>4. \A s \in Updates(Planned(r)) : s.read = balances[s.account]
  BY <1>1, CommitReadsAreCurrent
<1>5. balances[a] \in Row
  BY <1>3, CallTypes DEF IInv
<1>6. balances[a].balance >= c.amount
  BY <1>2, <1>4 DEF Spends
<1>7. a \in Locked(r)
  BY <1>1, <1>2, ExecutedArePlanned DEF Commit, LedgerInv, Locked
<1>8. PICK s \in Updates(Planned(r)) :
          s.account = a /\ s.read = balances[a] /\ balances'[a] = Stored(s)
  BY <1>1, <1>3, <1>7, CommitStores
<1>9. s.row \in Row
  BY <1>1, ExecutedArePlanned DEF LedgerInv, Updates, Statement
<1>10. balances'[a].balance = Int64(balances[a].balance - c.amount)
  BY <1>2, <1>8, <1>9 DEF Spends, Stored, Row
<1>11. ASSUME c.amount >= 0
       PROVE  balances'[a].balance >= 0
  <2>1. balances[a].balance \in Int64s
    BY <1>5 DEF Row
  <2>2. balances[a].balance - c.amount \in Int64s /\ balances[a].balance - c.amount >= 0
    BY <1>3, <1>6, <1>11, <2>1, WordAssumption DEF Int64s
  <2> QED
    BY <1>10, <2>2, Int64Keeps
<1> QED
  BY <1>6, <1>11

(***************************************************************************)
(* Whoever commits a withdrawal or a transfer had the money at that        *)
(* moment and, unless the amount is negative, is not left with less than   *)
(* nothing, for any number of concurrent requests and any amounts.         *)
(***************************************************************************)
THEOREM PayersCovered == Spec => PayersCanPay
<1>1. IInv /\ [Next]_vars => [PayersCanPayStep]_vars
  <2> SUFFICES ASSUME IInv, Next
               PROVE  PayersCanPayStep
    OBVIOUS
  <2> SUFFICES ASSUME NEW r \in Requests, Commits(r),
                      call[r].op \in {"withdrawal", "transfer"}
               PROVE  /\ balances[call[r].account].balance >= call[r].amount
                      /\ call[r].amount >= 0 => balances'[call[r].account].balance >= 0
    BY DEF PayersCanPayStep
  <2> QED
    BY OnlyFinishCommits, CommitIsCovered
<1> QED
  BY <1>1, Invariance, PTL DEF Spec, PayersCanPay
=============================================================================
