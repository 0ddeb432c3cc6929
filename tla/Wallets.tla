------------------------------- MODULE Wallets -------------------------------
(***************************************************************************)
(* The wallet service (internal/wallets): top-ups, withdrawals, their      *)
(* gateway webhooks and transfers between customers, running concurrently  *)
(* on the ledger.  Each request is one call of the API by one client.      *)
(***************************************************************************)
EXTENDS Ledger

CONSTANTS
    MaxTopupAmount,
    MaxWithdrawalAmount,
    MaxTransferAmount,
    EventSeqs        \* how many events the gateway sends with one status

VARIABLES
    call,            \* the parameters and local variables of each request
    sessions,        \* payments and payouts initiated at the gateway
    events           \* table webhook_event_ids

vars == <<ledgerVars, call, sessions, events>>

(***************************************************************************)
(* The gateway: a session stands for the payment or payout it was asked    *)
(* to make, an event for a webhook it sends about it.  "pending" stands    *)
(* for the statuses the service does not know.  Two deliveries of one      *)
(* event carry the same event id; seq tells apart the events that repeat   *)
(* a status under another id.                                              *)
(***************************************************************************)
Session == [prefix: {"topup", "withdrawal"}, ref: Requests]

GatewayStatuses == {"succeeded", "failed", "pending"}

Event == [prefix: {"topup", "withdrawal"}, ref: Requests,
          status: GatewayStatuses, seq: EventSeqs]

SessionOf(e) == [prefix |-> e.prefix, ref |-> e.ref]

ParentReference(e) == Reference(e.prefix, e.ref)

(***************************************************************************)
(* newStatus of both webhook handlers.                                     *)
(***************************************************************************)
KnownStatus(status) == status \in {"succeeded", "failed"}

\* Variant: the gateway's status is recorded as it came.
GatewayStatus(status) == status

SettledStatus(status) == IF status = "succeeded" THEN "applied" ELSE "void"

NoCall == [op |-> "none"]

GatewayCall == [op: {"topup", "withdrawal"}, account: Customers, amount: Amounts]

TransferCall ==
    [op: {"transfer"}, account: Customers, to: Customers \cup Merchants,
     amount: Amounts, reference: References, read: Row]

WebhookCall == [op: {"webhook"}, event: Event, parent: Transaction]

Call == {NoCall} \cup GatewayCall \cup TransferCall \cup WebhookCall

-----------------------------------------------------------------------------
Init ==
    /\ LedgerInit
    /\ call = [r \in Requests |-> NoCall]
    /\ sessions = {}
    /\ events = {}

Enter(r, phase, c) ==
    /\ pc' = [pc EXCEPT ![r] = phase]
    /\ call' = [call EXCEPT ![r] = c]

Leave(r) == call' = [call EXCEPT ![r] = NoCall]

(***************************************************************************)
(* An error return inside WithTx.                                          *)
(***************************************************************************)
\* Variant: the mark of a webhook's event is not part of the transaction.
ReturnKeepingMark(r) ==
    /\ Rollback(r) /\ Leave(r) /\ UNCHANGED sessions
    /\ events' = IF call[r].op = "webhook" /\ pc[r] # "parentRead"
                 THEN events \cup {call[r].event} ELSE events

Return(r) == Rollback(r) /\ Leave(r) /\ UNCHANGED <<sessions, events>>

-----------------------------------------------------------------------------
(***************************************************************************)
(* Topup: the payment is initiated at the gateway, then the customer's     *)
(* balance is read and the inflight credit planned.                        *)
(***************************************************************************)
Topup(r, a, m) ==
    /\ pc[r] = "idle"
    /\ m <= MaxTopupAmount
    /\ Enter(r, "initiated", [op |-> "topup", account |-> a, amount |-> m])
    /\ sessions' = sessions \cup {[prefix |-> "topup", ref |-> r]}
    /\ UNCHANGED <<balances, transactions, plan, step, events>>

TopupPlan(r, a, m, read) ==
    << Insert(Transfers(Reference("topup", r), World, a, m, "inflight")),
       Update(a, read, [read EXCEPT !.credit = Int64(@ + m)]) >>

TopupRead(r) ==
    /\ pc[r] = "initiated" /\ call[r].op = "topup"
    /\ LET a == call[r].account
       IN Begin(r, TopupPlan(r, a, call[r].amount, balances[a]))
    /\ UNCHANGED <<call, sessions, events>>

(***************************************************************************)
(* Withdraw: the payout is initiated at the gateway before the balance is  *)
(* read, checked and reserved.                                             *)
(***************************************************************************)
Withdraw(r, a, m) ==
    /\ pc[r] = "idle"
    /\ m <= MaxWithdrawalAmount
    /\ Enter(r, "initiated", [op |-> "withdrawal", account |-> a, amount |-> m])
    /\ sessions' = sessions \cup {[prefix |-> "withdrawal", ref |-> r]}
    /\ UNCHANGED <<balances, transactions, plan, step, events>>

\* Variant: money already reserved for a payout counts as available.
SufficientWithReserved(row, m) == row.balance + row.debit >= m

Sufficient(row, m) == row.balance >= m

WithdrawPlan(r, a, m, read) ==
    << Insert(Transfers(Reference("withdrawal", r), a, World, m, "inflight")),
       Update(a, read, [read EXCEPT !.balance = Int64(@ - m), !.debit = Int64(@ + m)]) >>

WithdrawRead(r) ==
    /\ pc[r] = "initiated" /\ call[r].op = "withdrawal"
    /\ Sufficient(balances[call[r].account], call[r].amount)
    /\ LET a == call[r].account
       IN Begin(r, WithdrawPlan(r, a, call[r].amount, balances[a]))
    /\ UNCHANGED <<call, sessions, events>>

WithdrawInsufficient(r) ==
    /\ pc[r] = "initiated" /\ call[r].op = "withdrawal"
    /\ ~ Sufficient(balances[call[r].account], call[r].amount)
    /\ Return(r)

(***************************************************************************)
(* Transfer: the source is read and checked, then the destination is read. *)
(* The reference is the one the client chose, whatever it looks like.      *)
(***************************************************************************)
Transfer(r, a, to, m, ref) ==
    /\ pc[r] = "idle"
    /\ m <= MaxTransferAmount
    /\ Sufficient(balances[a], m)
    /\ Enter(r, "sourceRead",
             [op |-> "transfer", account |-> a, to |-> to, amount |-> m,
              reference |-> ref, read |-> balances[a]])
    /\ UNCHANGED <<balances, transactions, plan, step, sessions, events>>

TransferPlan(c, toRead) ==
    << Insert(Transfers(c.reference, c.account, c.to, c.amount, "applied")),
       Update(c.account, c.read, [c.read EXCEPT !.balance = Int64(@ - c.amount)]),
       Update(c.to, toRead, [toRead EXCEPT !.balance = Int64(@ + c.amount)]) >>

\* Variant: the merchant check is missing.
TransferNotToOneself(c) == c.to # c.account

TransferAllowed(c) == c.to # c.account /\ c.to \notin Merchants

TransferRead(r) ==
    /\ pc[r] = "sourceRead"
    /\ TransferAllowed(call[r])
    /\ Begin(r, TransferPlan(call[r], balances[call[r].to]))
    /\ UNCHANGED <<call, sessions, events>>

TransferRefused(r) ==
    /\ pc[r] = "sourceRead"
    /\ ~ TransferAllowed(call[r])
    /\ Return(r)

-----------------------------------------------------------------------------
(***************************************************************************)
(* TopupWebhook and PayoutWebhook: the parent transaction is read outside  *)
(* the database transaction that settles it.                               *)
(***************************************************************************)
Webhook(r, e) ==
    /\ pc[r] = "idle"
    /\ SessionOf(e) \in sessions
    /\ KnownStatus(e.status)
    /\ \E parent \in transactions :
          /\ parent.reference = ParentReference(e)
          /\ parent.status \notin {"applied", "void"}
          /\ Enter(r, "parentRead",
                   [op |-> "webhook", event |-> e, parent |-> parent])
    /\ UNCHANGED <<balances, transactions, plan, step, sessions, events>>

(***************************************************************************)
(* MarkProcessed: INSERT ... ON CONFLICT DO NOTHING, which waits while     *)
(* another open transaction has inserted the same event.                   *)
(***************************************************************************)
Marked(o) == pc[o] \in {"marked", "writing"} /\ call[o].op = "webhook"

EventFree(r) ==
    \A o \in Requests \ {r} : Marked(o) => call[o].event # call[r].event

\* Variant: the number of inserted rows is not looked at.
ConflictIgnored(e) == TRUE

IsNew(e) == e \notin events

MarkProcessed(r) ==
    /\ pc[r] = "parentRead"
    /\ EventFree(r)
    /\ IsNew(call[r].event)
    /\ pc' = [pc EXCEPT ![r] = "marked"]
    /\ UNCHANGED <<balances, transactions, plan, step, call, sessions, events>>

AlreadyProcessed(r) ==
    /\ pc[r] = "parentRead"
    /\ EventFree(r)
    /\ ~ IsNew(call[r].event)
    /\ Return(r)

\* Variant: a failed payment keeps its inflight credit.
TopupSettledIfApplied(row, m, status) ==
    IF status = "applied"
    THEN [row EXCEPT !.credit = Int64(@ - m), !.balance = Int64(@ + m)] ELSE row

TopupSettled(row, m, status) ==
    [row EXCEPT !.credit = Int64(@ - m),
                !.balance = IF status = "applied" THEN Int64(@ + m) ELSE @]

PayoutSettled(row, m, status) ==
    [row EXCEPT !.debit = Int64(@ - m),
                !.balance = IF status = "void" THEN Int64(@ + m) ELSE @]

TopupWebhookPlan(r, parent, status, read) ==
    << Insert(SettlementOf(parent, Reference("topup", r), status)),
       Update(parent.destination, read, TopupSettled(read, parent.amount, status)) >>

PayoutWebhookPlan(r, parent, status, read) ==
    << Insert(SettlementOf(parent, Reference("withdrawal", r), status)),
       Update(parent.source, read, PayoutSettled(read, parent.amount, status)) >>

TopupWebhookRead(r) ==
    /\ pc[r] = "marked" /\ call[r].event.prefix = "topup"
    /\ LET parent == call[r].parent
       IN Begin(r, TopupWebhookPlan(r, parent, SettledStatus(call[r].event.status),
                                    balances[parent.destination]))
    /\ UNCHANGED <<call, sessions, events>>

PayoutWebhookRead(r) ==
    /\ pc[r] = "marked" /\ call[r].event.prefix = "withdrawal"
    /\ LET parent == call[r].parent
       IN Begin(r, PayoutWebhookPlan(r, parent, SettledStatus(call[r].event.status),
                                     balances[parent.source]))
    /\ UNCHANGED <<call, sessions, events>>

-----------------------------------------------------------------------------
(***************************************************************************)
(* The statements of the open transaction, and its end.  The event a       *)
(* webhook has marked becomes visible with its commit.                     *)
(***************************************************************************)
Statements(r) ==
    \/ (UpdateBalance(r) \/ Record(r)) /\ UNCHANGED <<call, sessions, events>>
    \/ (OptimisticLock(r) \/ DuplicateReference(r)) /\ Leave(r)
                                              /\ UNCHANGED <<sessions, events>>

Finish(r) ==
    /\ Commit(r)
    /\ Leave(r)
    /\ events' = IF call[r].op = "webhook"
                 THEN events \cup {call[r].event} ELSE events
    /\ UNCHANGED sessions

(***************************************************************************)
(* A statement error, a lost connection, an expired context or the crash   *)
(* of the process: at any point before the commit, the database rolls the  *)
(* transaction back.                                                       *)
(***************************************************************************)
Ended == {"done", "failed"}

Fail(r) == pc[r] \notin {"idle"} \cup Ended /\ Return(r)

(***************************************************************************)
(* Every statement carries a timeout of five seconds, which also ends a    *)
(* wait for a lock; PostgreSQL may end a circle of them before.            *)
(***************************************************************************)
Blocked(r) == Waiting(r) \/ (pc[r] = "parentRead" /\ ~ EventFree(r))

\* Variant: the statements' contexts have no deadline.
TimeoutNever(r) == FALSE

Timeout(r) == Blocked(r) /\ Fail(r)

-----------------------------------------------------------------------------
Start(r) ==
    \/ \E a \in Customers, m \in Amounts : Topup(r, a, m) \/ Withdraw(r, a, m)
    \/ \E a \in Customers, to \in Customers \cup Merchants, m \in Amounts,
          ref \in ClientRefs : Transfer(r, a, to, m, ref)
    \/ \E e \in Event : Webhook(r, e)

Step(r) ==
    \/ TopupRead(r)
    \/ WithdrawRead(r) \/ WithdrawInsufficient(r)
    \/ TransferRead(r) \/ TransferRefused(r)
    \/ MarkProcessed(r) \/ AlreadyProcessed(r)
    \/ TopupWebhookRead(r) \/ PayoutWebhookRead(r)
    \/ Statements(r)
    \/ Finish(r)

Terminating ==
    /\ \A r \in Requests : pc[r] \in {"idle"} \cup Ended
    /\ UNCHANGED vars

Next == (\E r \in Requests : Start(r) \/ Step(r) \/ Fail(r)) \/ Terminating

Spec == Init /\ [][Next]_vars

-----------------------------------------------------------------------------
(***************************************************************************)
(* The type invariant of the ledger and of the requests on it.             *)
(***************************************************************************)
Phases == {"idle", "initiated", "sourceRead", "parentRead", "marked", "writing"}
              \cup Ended

TypeOK ==
    /\ LedgerTypeOK
    /\ pc \in [Requests -> Phases]
    /\ call \in [Requests -> Call]
    /\ sessions \subseteq Session
    /\ events \subseteq Event

(***************************************************************************)
(* The rows a request holds outside its plan are as old as those inside.   *)
(***************************************************************************)
TransferReadsAreOld ==
    \A r \in Requests :
        call[r].op = "transfer" => UpToDate(call[r].read, call[r].account)

(***************************************************************************)
(* VersionsGuardReads: a request's snapshot of a balance is the committed  *)
(* row whenever their versions agree, an executed UPDATE keeps them agreed *)
(* until its commit, and no two open transactions have updated one row:    *)
(* what UpdateBalance's "AND version = $5" is there for.                   *)
(***************************************************************************)
VersionsGuardReads ==
    /\ ReadsAreOld
    /\ TransferReadsAreOld
    /\ ExecutedReadsAreCurrent
    /\ LocksAreExclusive

(***************************************************************************)
(* PayersCanPay: "check for sufficient balance" (service.go:377), made on  *)
(* a row read earlier, is true of the balance a transfer or withdrawal     *)
(* commits on, however many pass it at the same time; and unless the       *)
(* amount is negative its payer is not left with less than nothing.        *)
(***************************************************************************)
PayersCanPayStep ==
    \A r \in Requests :
        Commits(r) /\ call[r].op \in {"withdrawal", "transfer"} =>
            LET a == call[r].account
                m == call[r].amount
            IN  /\ balances[a].balance >= m
                /\ m >= 0 => balances'[a].balance >= 0

PayersCanPay == [][PayersCanPayStep]_vars

(***************************************************************************)
(* NoOverdraft: the same "sufficient balance" taken for the state of an    *)
(* account: no customer ever has less than nothing.                        *)
(***************************************************************************)
NoOverdraft == \A a \in Customers : balances[a].balance >= 0

(***************************************************************************)
(* The inductive invariant behind the two.  In each phase a request has    *)
(* the locals that phase uses, and one that spends has planned to take its *)
(* amount from a row that had it.                                          *)
(***************************************************************************)
CallsFollowPhases ==
    \A r \in Requests :
        /\ pc[r] = "initiated" => call[r] \in GatewayCall
        /\ pc[r] = "sourceRead" => /\ call[r] \in TransferCall
                                  /\ Sufficient(call[r].read, call[r].amount)
        /\ pc[r] \in {"parentRead", "marked"} => call[r] \in WebhookCall
        /\ pc[r] # "writing" => step[r] = 0

Spends(s, c) ==
    /\ s.read.balance >= c.amount
    /\ s.row.balance = Int64(s.read.balance - c.amount)

PlansAreCovered ==
    \A r \in Requests :
        pc[r] = "writing" /\ call[r].op \in {"withdrawal", "transfer"} =>
            LET own == {s \in Updates(Planned(r)) : s.account = call[r].account}
            IN  /\ call[r] \in GatewayCall \cup TransferCall
                /\ own # {}
                /\ \A s \in own : Spends(s, call[r])

IInv ==
    /\ TypeOK
    /\ LedgerInv
    /\ TransferReadsAreOld
    /\ CallsFollowPhases
    /\ PlansAreCovered

(***************************************************************************)
(* ImplementsAtomic: forgetting versions and work in progress, the service *)
(* behaves as if every request took effect in one step (serializability of *)
(* the handlers at READ COMMITTED with optimistic versions).               *)
(***************************************************************************)
MoneyOf(row) ==
    [balance |-> row.balance, credit |-> row.credit, debit |-> row.debit]

Atomic == INSTANCE WalletsAtomic WITH
    money     <- [a \in Accounts |-> MoneyOf(balances[a])],
    journal   <- transactions,
    initiated <- sessions,
    processed <- events

ImplementsAtomic == Atomic!Spec
=============================================================================
