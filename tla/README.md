# A TLA+ model of wallet-api

Modules, TLC configurations and TLAPS proofs about the concurrent core of
wallet-api: money moved between balances by HTTP handlers, gateway webhooks and
a background worker that share one PostgreSQL database. Paths below are relative
to the repository's `src/`.

## The system

Customers and merchants register, top up and withdraw through a payment gateway,
transfer money, pay checkout sessions and ask for refunds. Every operation is a
function of a service that reads through a store, decides, and writes inside
`dbtx.WithTx`. There are no locks in the program around money: it relies on
READ COMMITTED transactions, a `version` column on `balances`, unique
constraints and a table of processed webhook events.

| Component | State | Operations | Interacts through |
|---|---|---|---|
| ledger tables (`internal/store/balance.go`, `transactions.go`) | rows of `balances` (balance, inflight credit and debit, version) and `transactions` (unique reference) | `CreateBalance`, `UpdateBalance`, `Record`, `GetByRef`, reads | SQL statements on the caller's transaction; reads on the pool |
| database transactions (`internal/dbtx`) | open transactions, their locks | `WithTx`: begin, function, commit or rollback | context value |
| wallet service (`internal/wallets`) | none of its own; locals of each call | `Topup`, `TopupWebhook`, `Withdraw`, `PayoutWebhook`, `Transfer`, two reads | ledger, gateway, webhook event ids |
| webhook event ids | `(source_id, event_id)` rows | `MarkProcessed` | the webhook's transaction |
| payment gateway (external) | payments and payouts it was asked for | `InitiatePayment`, `InitiatePayout`; delivers webhooks late, again, in any order | HTTP both ways |
| payment service (`internal/payments`) | checkout sessions | `CreateCheckoutSession`, `Pay`, `RequestRefund` | ledger, refund requests |
| refund worker (`internal/refunds`, `cmd/worker`) | `refund_requests` rows | claim with `SKIP LOCKED`, refund, `MarkFailed` | ledger |
| idempotency middleware | `idempotency_keys` rows | look up, run the handler, store the answer | wraps the handlers |
| rate limiter | map of counts under a `RWMutex`, sleeping goroutines | `Allow`, `resetCount` | wraps all handlers |
| users (`internal/users`) | users, identities, merchants, tokens, balances | register, activate, log in | mailer, ledger |
| authentication and roles (`internal/middlewares/auth_middleware.go`, `internal/auth`) | the tokens issued, which nothing revokes; the user in a request's context | look a token's subject up, check its role | user tables, before each handler |
| API process (`cmd/api`, `internal/database`) | the router, the pool of connections, the life of the server | route, serve under a timeout, shut down | all middlewares and handlers; PostgreSQL |
| HTTP handlers (`*/handler.go`) | none | decode, call the service, answer | clients, gateway |
| JSON, health, configuration, mailer | none | formatting, I/O | |

### What is hard in it

- A handler reads balances, checks them, and only later updates them; between
  the two any other handler may commit. The compared version, the row lock of
  the `UPDATE` and the rollback on `ErrOptimisticLock` must make up for it.
- A transfer updates two rows, a payment three: transfers in opposite directions,
  and a payment and a refund, wait for each other. The wait ends with the
  five-second contexts of the statements, or when PostgreSQL finds the circle and
  aborts one of them.
- Webhooks come any number of times, in any order, several at once, before the
  transaction they name is committed, or after one that rolled back.
- The gateway learns only from the answer whether a webhook was taken; an answer
  can be lost after the commit, and a failure is answered with an error even when
  it was recorded.
- A transaction holds a connection of the pool while its handler's reads ask for
  another one: enough of them hold all and wait for one more.
- Authentication, the role check and the handler read the database one after
  another, while the user may be activated, or its registration taken back.
- The gateway is called before, and outside, the transaction that reserves the
  money; the mailer is called between two transactions of a registration.
- Several workers share the queue of refund requests by row locks alone, and a
  worker marks a request failed after it has given the lock up.
- The idempotency middleware looks a key up, executes, stores it and lets the
  response out, with nothing that holds the four together, and compares bodies
  only.
- A process can stop, and a statement fail, between any two steps.
- The rate limiter compares under one lock and counts under another.
- Amounts are exact fractions in a `big.Rat`, then integers of centimes of any
  size and either sign, and then the low 64 bits of those in the tables.

`PROJECT.json` lists these hazards line by line with the properties that watch
them; those without a property say why.

### What makes each component correct

- Ledger: a commit replaces exactly the rows that were read; two open
  transactions never hold the same row; references are unique.
- Wallets: a payer has what it spends at the moment it spends it; the journal of
  transactions explains every balance; an event settles its transaction exactly
  once, and does so in the end if the gateway delivers it again; every successful
  request takes effect in one step; every request is answered.
- Payments and refunds: double entry of payments, fees and refunds; a request is
  completed exactly when its refund is recorded, and nothing is refunded twice;
  a merchant can refund what it was paid; a pending request belongs to
  one worker; handlers are answered and requests decided.
- Idempotency: a replay is the response written for a request with the same key
  and body, and one key executes once unless requests overlap or fail.
- Users: an active user has a wallet; what a failed registration takes back
  leaves nothing behind, even if the user is being activated meanwhile.
- Login, authentication and roles: a token names an active user for as long as it
  is valid; whoever is let through finds the row that the handler looks for.
- API process: every way out of a handler returns its connection; every request
  ends, though all connections may be held by requests that wait for one.
- Rate limiter: a window exceeds its limit by less than the number of handlers.
- Amounts: whole centimes convert exactly; the fee is 1.5% rounded up.

## Modules

| Module | Models | Correspondence |
|---|---|---|
| `Accounting` | the two ledger tables' rows and identifiers, and the conversion to int64 of what enters them | a UUID is the request that generated it; a reference is a prefix with a UUID or other text; `HalfWord` stands for 2^63 |
| `Ledger` | `WithTx` and the statements that run in it | `Begin` (BeginTx and the decision what to execute), `UpdateBalance`, `OptimisticLock`, `Record`, `DuplicateReference`, `Commit`, `Rollback`; `plan` are the statements decided on, `step` how many have run, `Locked` and `Inserted` the locks they hold |
| `Wallets` | `internal/wallets/service.go` and `MarkProcessed` on the ledger | one action per stretch of a handler between two points where another process can act: `Topup`/`TopupRead`, `Withdraw`/`WithdrawRead`/`WithdrawInsufficient`, `Transfer`/`TransferRead`/`TransferRefused`, `Webhook`/`MarkProcessed`/`AlreadyProcessed`/`TopupWebhookRead`/`PayoutWebhookRead`, then `Statements` and `Finish`; `Fail` is any error, lost connection or crash before the commit |
| `WalletsAtomic` | the abstract service: every request in one step on the money of that moment | `RequestTopup`, `ReserveWithdrawal`, `Transfer`, `Settle`, `Initiate`; no versions, locks or plans |
| `Audit` | nothing new: the vocabulary of the audits, the amounts of a set of transactions added up | |
| `WalletsJournal` | nothing new: the audit of the two tables against each other and against events and payouts | `AuditInv` is the inductive invariant of its theorems |
| `Deliveries` | the wallet service, its clients and a gateway that delivers an event again until it has seen a 200 | `Emit` (the gateway has an outcome), `Deliver` (a request to a webhook handler), `FinishDelivery` (the commit, with the handler's answer: 200 that may be lost, or 500 after a failure), `FailDelivery`, `Again` (the next delivery); the webhooks' and the clients' steps are those of `Wallets` |
| `MCWallets`, `MCDeliveries` | the instances for TLC | |
| `Payments` | `internal/payments/service.go` on the ledger | `CreateCheckoutSession`; `Pay`/`MerchantRead`/`RevenueRead` are the three reads of a payment, its five statements are the plan; `RequestRefund` the look-up, `CreateRequest`/`DuplicateRequest` the INSERT under `uq_refund_active_per_transaction` |
| `Refunds` | `internal/refunds/worker.go` and the refund queue, on `Payments` | `ClaimPending`, `RefundRead`, `RefundPlanned` or `RefundInsufficient`, `MarkFailed` after the rollback, `Finish` with `MarkCompleted`, `Retry` for the loop and its ticker. A worker is a request that never ends |
| `RefundsAtomic` | the abstract service: a payment, a request, a refund or a refusal in one step each | `Pay`, `Ask`, `Refund`, `Refuse`; no rows, plans or claims |
| `RefundsJournal` | nothing new: the audit of journal, balances and refund requests | |
| `Idempotency` | `Wrap` and the store of keys | `Miss`, `Replay` and `Conflict` are the answers of the look-up, `Handle` the wrapped handler, `Store` the INSERT whose error is dropped, `Respond` the buffered response that the server sends after `Wrap` has returned, `Crash` the end of the process or connection at any point between |
| `Users` | `internal/users/service.go` and the tables it writes | `Register`/`RegisterDuplicate`, `Deliver` (the mail arrives), `Sent` or `NotSent`, `Undo` or `UndoFails` (the compensation), `Activate`, `Activated` or `NotActivated` |
| `Access` | login, `AuthTokenMiddleware`, `CheckRequiredRole` and the look-ups of the handlers behind them, on the tables of `Users` | `GetByEmail`/`CreateToken`/`WrongPassword`, `AuthToken`/`CheckRequiredRole`/`Handle`: one action per read of the database |
| `RateLimiter` | `Allow` and `resetCount` | `Read`/`Refuse` under the read lock, `Count` under the write lock, `ResetCount` |
| `Api` | `mount`, `run` and the connection pool, behind `RateLimiter` | a route is the list of its uses of the database (`Uses`): `Step` makes the next one, `Replay` and `Fail` leave early, `Timeout` gives a wait for a connection up; `Signal`, `Shutdown`, `ShutdownExpires` end the process |
| `Centimes` | `amountInCentimes`, `calculateFeeCeil`, the merchant's net | an amount is the numerator and denominator `big.Rat` parses |
| `Amounts` | nothing new: `Centimes` compared with what the amounts mean | |
| `MCRefunds`, `MCIdempotency`, `MCUsers`, `MCRateLimiter`, `MCAmounts` | the instances for TLC | |
| `LedgerProofs`, `WalletsProofs`, `WalletsRefinement`, `RefundsProofs`, `IdempotencyProofs`, `UsersProofs`, `RateLimiterProofs`, `AmountsProofs` | the proofs | |

`Ledger` leaves `call` and the phases to the services: `Wallets` and `Payments`
EXTEND it, and `Refunds` EXTENDS `Payments`. The wallet service and the payment
service are composed with the ledger separately: what one sees of the other is a
committed change of a row it has read, which requests of its own kind cause too.

### Choices made in the ledger

- Reads of balances see the last commit, as at READ COMMITTED; the reads of one
  handler happen in different steps when the handler reads more than once
  (`Transfer` reads the source, then the destination; a webhook reads its parent
  transaction outside the transaction that settles it).
- An `UPDATE` or `INSERT` acquires its lock when it executes and its effect
  appears at the commit; `UpdateBalance` compares the version with the committed
  row once the lock is free, which is what PostgreSQL re-evaluates after a wait.
- A plan never updates one row twice (`Transfer` refuses a transfer to
  oneself), so an update never sees another of the same transaction.
- `GetByBalanceID` reads outside the transaction when the store's read helpers
  use the pool; at READ COMMITTED the two cannot be told apart here, because a
  plan reads all it needs before its first update.
- A request that returns before it changes anything (an amount above the limit,
  an unknown reference or status, an insufficient balance in `Transfer`) is a
  request that does not start. The refusals inside a transaction are actions.
- A commit whose answer is lost counts as a commit. The retry of the client is
  another request.
- `Amounts` are any integers: `amountInCentimes` takes a sign, the handlers only
  ask that an amount is there, and no column has a CHECK. An amount is compared
  as it came and recorded through `Int64`, the low 64 bits; so are the sums that
  become balances.
- A client chooses the reference of a transfer, and it is recorded as it came: it
  may look like one that a service generates (`ClientRefs`). A client cannot know
  the UUID of a later request; the models let it guess one.

### Choices made in payments and refunds

- A request of a payment is told apart by its `created_at` (`clock`), which
  orders the queue. A time limit (5 minutes for a checkout session, 30 days for
  a refund) is a request that does not start.
- The transaction of `RequestRefund` writes only the new request, so its INSERT
  and its commit are one step.
- `ClaimPending` writes the status "processing" in a transaction that ends with
  "completed" or rolls back, so no other transaction ever reads it; the claim is
  the row lock, held while the worker is in its transaction.
- `MarkFailed` runs outside any transaction with the worker's context, which has
  no deadline. It locks one row only and waits for a worker that waits for
  somebody else, never in a circle, so it has no `Timeout`. Neither have
  `ClaimPending`, which skips locked rows, and `MarkCompleted`, on the row that its
  own transaction holds: they do not wait. A `Timeout` stands for the deadline of a
  context and for the deadlock detector of PostgreSQL.
- A checkout session is known by its merchant and the amount the table holds,
  `Int64` of what the merchant wrote.
- `Unreliable` is the set of requests and workers whose statements and processes
  may fail. The safety run makes everyone unreliable; the liveness runs no one,
  because a worker that fails for ever decides nothing.

### Choices made in idempotency and users

- A key's record is found in the step in which its request begins: nothing
  happens between the arrival of a request and its look-up. A response is known
  by the request whose handler wrote it, which a crash may keep from its client.
  The row holds no route; the model keeps it beside the row only to state
  `ReusedKeysConflict`. `before` records which requests had
  ended when another began, to speak of requests that do not overlap.
- A user, its identity and its invitation are known by the registration that
  inserted them. An expired invitation is an activation that does not start.
- The writes of a transaction in `Users` are one step: those of a registration
  are rows nobody sees before the commit, those of an activation and of a
  compensation begin with the user's row, whose lock excludes the other.
- The read of an activation is a step of its own: another activation or the
  compensation may commit between it and the writes.
- The mailer may report an error for a mail that arrives.

### Choices made in deliveries, access and the API process

- A deliverer is a request slot of the gateway. After an answer other than 200 it
  is free again; once it has settled something its identifier is that of the
  settlement's reference, so it is not used again, and the gateway has no more
  events than deliverers (`Emit`).
- `MaxFaults` bounds the deliveries that fail for a reason outside the model
  (a lost connection, a crash). Timeouts and conflicts of versions are not bounded.
- `Access` runs one visit at a time per member of `Visits`. The password, the
  signature and the three days of a token are abstracted to requests that
  do not start or, for the password, to `WrongPassword`. The context carries the
  user as it was read, which is why the handler's read is a step of its own.
- `GET /wallet` and `GET /wallet/transactions` have no required role. The routes
  of `Access` are those that look a row up for the token's user.
- In `Api` consecutive uses of one kind are one; a statement outside a
  transaction takes and returns a connection within its step, and waits
  (`Blocked`) while none is free. A "read" inside a transaction is one that the
  store makes on the pool. `Fail` may happen anywhere: any use may fail, any
  handler refuse.
- `Api` EXTENDS `RateLimiter`; a sleeping `resetCount` is counted per address
  (`MaxTimers`), and bounds only the reads that would start another one.

Operators marked `Variant` are single plausible faults of the definition after
them, each with the property that notices it named in `PROJECT.json`
("mutants"); the specifications do not use them.

## Runs

| Run | Configuration | Properties | Bounds |
|---|---|---|---|
| `wallets` | `MCWallets.cfg` | `TypeOK`, `VersionsGuardReads`, `JournalExplainsBalances`, `SettlementsMatchEvents`, `NoLostUpdate`, `PayersCanPay`, `ImplementsAtomic` | 3 requests of any kind, two customers with a centime each, amounts of 1 and -1, `HalfWord` 2, client references that look like a top-up's; every event delivered any number of times |
| `liveness` | `MCDeliveries.cfg` | `RecordedAreSettled`, `RequestsTerminate`, `OutcomesArrive` | 2 clients with top-ups, withdrawals and transfers, 2 deliverers; one outcome of each payment and payout (a success and a failure of one client's, a success of the other's), delivered without end; 1 fault |
| `settled_once` | `MCSettledOnce.cfg` | `SettledOnce`, violated | 3 requests, two events of each status |
| `refunds` | `MCRefunds.cfg` | `TypeOK`, `JournalExplainsBalances`, `RefundsMatchRequests`, `MerchantsCanRefund`, `NoLostUpdate`, `PayersCanPay`, `ImplementsAtomic` | 4 handlers, 1 worker, a customer with two payments' worth, amounts of 100 and 412, `HalfWord` 256, everything may fail |
| `refund_workers` | `MCRefundWorkers.cfg` | `ClaimsAreExclusive`, `OneActiveRequest`, `NothingRefundedTwice`, `RefundsAreAnswered`, `PayersCanPay`, `HandlersTerminate`, `RefundsDecidedUnlessStuck` | 3 handlers, 2 workers, a merchant with money of its own |
| `refunds_decided` | `MCRefundsDecided.cfg` | `RefundsDecided`, violated | 3 handlers, 1 worker |
| `rate_limiter` | `MCRateLimiter.cfg` | `BoundedOvershoot`, `ConnectionsAreReturned`, `RequestsEnd` | 3 handlers, 2 connections, 1 address, limit 2, routes `transfer` and `webhook` |
| `amounts` | `MCAmounts.cfg` | `WholeCentimesAreExact`, `FeesAreFair` | 401 numerators, from -100 to 300, over 9 decimal denominators |
| `idempotency` | `MCIdempotency.cfg` | `ReplaysAreFaithful`, `RepeatsOverlap` | 3 requests of two users with one key, two bodies and two routes, one of them unreliable |
| `executed_once` | `MCExecutedOnce.cfg` | `ExecutedOnce`, violated | a request and its retry |
| `users` | `MCUsers.cfg` | `AccessTypeOK`, `ActiveUsersHaveWallets`, `NoOrphans`, `InvitedUsersAreInactive`, `FailedCustomersAreGone`, `TokensNameUsers`, `AdmittedAreServed` | 4 registrations and activations, two addresses, one business name, one request unreliable; logins and requests with tokens, one at a time |
| `registered_exists` | `MCRegisteredExists.cfg` | `RegisteredExists`, violated | 2 requests |

Why the bounds are enough for the cases that matter:

- `wallets`: two customers and three requests give every pair in either direction
  with a third that disturbs the rows; with one centime each, two requests both
  pass the check and together spend more. A top-up or withdrawal meets two
  deliveries: the same event twice, or the opposite outcome; with four requests
  `liveness` adds what comes between. The amount -1 goes past every check, and a
  second centime is already more than a word of two bits holds, so that balances
  wrap around. A client's reference may be that of a top-up in progress. Transfers
  to the merchant `shop` and to oneself are attempted and refused.
- `liveness`: a pair of crossing transfers; a top-up or withdrawal with two
  deliveries of its event at once, while the other client, or the delivery of its
  event, locks or changes the same row, and one delivery fails at any point. The
  gateway has one outcome of each payment here; `wallets` has both outcomes of one.
- `refunds`: with four handlers two payments are made and both refunds asked for,
  or one payment is made and its refund asked for twice or refunded itself. The
  amount 100 has a fee of 2 that is rounded up; 412 is more than the word holds
  and becomes a session of -100, whose fee is -1. Two payments of 100 to the
  merchant stay within the word, as `MerchantsCanRefund` requires.
- `refund_workers`: two workers on one or two requests, a payment that crosses
  a refund, a repeated request. The merchant's own money makes the refund of a
  refund reach its end.
- `idempotency`: two requests of one user that overlap or do not, with equal or
  different bodies and routes, and a third of the same or of another user; the
  unreliable one fails anywhere, after the commit of its key too. A key is stored
  once, so a fourth request adds no other pair of a response and its replay.
- `users`: a registration that is taken back while two others activate its user,
  with a fourth that registers the same address or business. One visit is enough
  for the properties of access: visits only read the tables and add to the tokens,
  so two of them do not disturb each other.
- `rate_limiter` counts requests between resets: a second goroutine, started when
  two handlers both find no entry, may end the next window early, so
  `BoundedOvershoot` is no bound for every minute of the clock. One handler is between its locks while another fills the window
  and its timer ends; `MaxTimers` bounds the sleeping goroutines. Two connections
  are held by two transfers that each need another, with a third handler waiting;
  `transfer` has every kind of use, `webhook` reads before its transaction and
  takes only its own connection in it. The other routes are sequences of the same
  uses; the theorems hold for all of them.
- `amounts`: numerators up to 300 pass four steps of the fee (1000/15 is 66.7), on
  both sides of zero, and the denominators reach a tenth of a centime. That a
  fraction of a centime is not exact is another matter: see `NeverMoreThanWritten`
  below.

Requests are interchangeable (no constant orders them), so the safety runs use
the symmetry of `Requests`, handlers, workers, routes, bodies, addresses;
a run under fairness uses none. No run disables the deadlock check: each
specification stops only where every request is idle or ended (`Terminating`),
so that a state in which every request waits for ever would be an error.

`RefundsMatchRequests` and `ImplementsAtomic` of `Refunds` are checked, and proved,
with one worker, which is what a `cmd/worker` process runs (`cmd/worker/main.go:39`);
the other properties of `Refunds` hold for any number. With two they fail: a worker that found
the balance insufficient may be late with its `MarkFailed` and overwrite the
"completed" of the other (see `FailedIsNotRefunded` below).

### Fairness

`Fairness` of `Deliveries` assumes that a request in progress gets on: weak
fairness of its next step or, if it is blocked, its timeout (a goroutine that can
run is scheduled, and every store method runs under a context of five seconds, so
a blocked statement gives up, unless the deadlock detector ends it before). Starting a request and failing are not fair.
`RequestsTerminate` fails without the timeouts: crossing transfers and two
deliveries of one event wait for each other. The gateway delivers an event that it
has not seen answered with 200 again and again (`SF` of `Deliver(e)`: a delivery
is disabled only while all deliverers are busy). The program counts on that: it
has a table of the events it has processed, so that an event may come again, and
no other way to learn an outcome that it failed to record.

`Fairness` of `Api` is weak: a request admitted goes on to its handler (`Enter`),
and a handler makes its next use of the database or, while it waits for a
connection, times out. A statement's five seconds run from its own start, and
`BeginTx` ends with the sixty seconds of the request. Shutting down is not fair.

`FairSpec` of `Refunds` adds strong fairness of `Statements(r)`. A statement that
waits for a row lock is enabled again and again, whenever a retrying worker
releases the lock; PostgreSQL gives a released lock to the transaction that
waits for it, before the worker's next try can take it. Under weak fairness alone
a handler could wait through endlessly many retries, which the lock queue of
the database excludes.

### What the violated runs show

- `settled_once`: the parent of a settlement stays `inflight` (nothing updates
  it), so the switch in `TopupWebhook` and `PayoutWebhook` that should answer
  `ErrTopupAlreadyCompleted` never matches; two events that report the success of
  one payment under different ids both settle it, the customer is credited twice
  and the inflight credit goes below zero. `MarkProcessed` only stops equal event
  ids.
- `refunds_decided`: the unique index stops a second request only while the
  first is pending. A second request for a refunded payment meets the duplicate
  reference of its refund each time: it goes back to the head of the queue and
  the worker, which starts at the head again, never reaches another.
  `RefundsDecidedUnlessStuck` shows that this is the only cause.
- `executed_once`: a request and its retry both find no key and both execute.
  `RepeatsOverlap` says when a repetition is safe.
- `registered_exists`: the error of the compensation shadows the mailer's, so a
  registration that was undone is answered as a success with an empty token.

### Properties stated and refuted without a run of their own

These are stated in the modules beside the others. TLC refutes each within the
bounds of the run of its module, some with a smaller configuration.

- `EventsAreAcknowledged` (`Deliveries`): the event of a failed payment is recorded
  and answered with `ErrGatewayFailure`, each redelivery with
  `ErrWebhookAlreadyProcessed`, so the gateway is never told success; neither is it
  when the answer to a success was lost.
- `NoOverdraft` (`Wallets`): a transfer of a negative amount is below every limit
  and every balance, so it passes "check for sufficient balance"; the sender gains
  and the recipient, whom nothing checks, is left with less than nothing. A checkout
  session of a negative amount does the same to a merchant and the platform.
  `PayersCanPay` says what the check is worth: a balance covers the amount it is
  compared with at the commit, whatever its sign.
- `HistoryAddsUp` (`WalletsJournal`, `RefundsJournal`): the history lists a void
  settlement like an applied one, without a status, and leaves out what went to
  `@Revenue`; what it lists does not add up to the wallet.
- `ReusedKeysConflict` (`Idempotency`): a key that was used for another request is
  to be answered with "idempotency conflict", but only the body is hashed; a
  request to another route, or to the `/pay` of another checkout token, with an
  equal or empty body gets the first one's response and executes nothing.
- `RetriesExecute` (`Idempotency`): the answer of a request that was refused or
  failed (a 402, a 500) is stored and replayed like a success, so the same key
  cannot be used to try again.
- `LedgersFollowRoles` (`Access`): a merchant who activates through
  `/customers/activate` gets a customer's ledger. `Transfer` refuses merchants by
  their ledger (`internal/wallets/service.go:393`), so that merchant receives
  transfers, and a customer who took the other route does not.
- `PoolIsNeverExhausted` (`Api`): as many transfers as there are connections each
  hold one and wait for another; `RequestsEnd` shows that the timeouts end it.
- `PayoutBacked` (`WalletsJournal`): `Withdraw` calls `InitiatePayout` before it checks
  and reserves the money; a refused withdrawal has sent its payout.
- `WithinLimit` (`RateLimiter`): handlers that read the same count all pass.
- `WindowEnds` (`RateLimiter`): if a window ends while a handler is between its
  locks, the handler recreates the entry and starts no goroutine: the address is
  never reset, and is refused for good once it reaches the limit.
- `NeverMoreThanWritten` (`Amounts`): half a centime becomes a whole one, and
  "10.005" becomes 2001 centimes, because the denominator of the reduced
  fraction is dropped.
- `OnlyPaymentsAreRefunded` (`Refunds`): the reference of a refund begins with
  that of its payment and passes `isPayment`, so a refund can be refunded.
- `FailedIsNotRefunded` (`RefundsJournal`): with two workers and an amount of 66,
  one finds the merchant's balance insufficient and rolls back; after a further
  payment the other claims the same request and completes the refund; the
  first then marks it failed.
- `FailedMerchantsAreGone` (`Users`): the compensation of `RegisterMerchant`
  deletes the user before the merchant that refers to it, so it always fails and
  the user and its business name stay.
- `InvitationsAreUsedOnce` (`Users`): two activations that both find the
  invitation each create a balance for one identity.

## Proofs

The theorems hold for every set of customers, merchants, requests, workers,
references, users, keys and amounts, under the named assumptions of the modules:
amounts are integers, opening balances are within an int64, whose size is
positive, customers, merchants and the two internal accounts are different, no
reference is the absent one (`Accounting`), workers are among the requests (`Refunds`), unreliable requests
are requests, and a request is not one of the two other answers (`Idempotency`,
`Users`), deliverers are requests and the gateway's outcomes are known events of
other requests' payments (`Deliveries`), the handlers are finitely many and the
limit and the number of connections positive (`RateLimiter`, `Api`),
numerators are integers and denominators positive (`Amounts`). Two theorems of
`RefundsProofs` have the hypothesis `OneWorker` besides.

| Theorem | States |
|---|---|
| `WalletsProofs!TypeCorrect` | `Spec => []TypeOK` |
| `WalletsProofs!VersionDiscipline` | `Spec => []VersionsGuardReads` |
| `WalletsProofs!PayersCovered` | `Spec => PayersCanPay` |
| `WalletsProofs!LostUpdateFreedom` | `Spec => NoLostUpdate` |
| `WalletsRefinement!Atomicity` | `Spec => ImplementsAtomic` |
| `WalletsRefinement!JournalAgrees` | `Spec => []JournalExplainsBalances` |
| `WalletsRefinement!EventsSettleOnce` | `Spec => []SettlementsMatchEvents` |
| `WalletsRefinement!DeliveriesAtomicity` | `DeliveriesSpec => ImplementsAtomic` |
| `WalletsRefinement!DeliveriesSettle` | `DeliveriesSpec => []RecordedAreSettled` |
| `WalletsRefinement!DeliveriesAccount` | `DeliveriesSpec => [](JournalExplainsBalances /\ SettlementsMatchEvents)` |
| `RefundsProofs!TypeCorrect` | `Spec => []TypeOK` |
| `RefundsProofs!PayersCovered` | `Spec => PayersCanPay`; the lemma `FeeBounds`: the fee and the merchant's net of an int64 are int64s |
| `RefundsProofs!ExclusiveClaims` | `Spec => []ClaimsAreExclusive` |
| `RefundsProofs!SingleRequests` | `Spec => []OneActiveRequest` |
| `RefundsProofs!LostUpdateFreedom` | `Spec => NoLostUpdate` |
| `RefundsProofs!JournalAgrees` | `Spec => []JournalExplainsBalances` |
| `RefundsProofs!MerchantsKeepEnough` | `Spec => []MerchantsCanRefund` |
| `RefundsProofs!RefundedAtMostOnce` | `Spec => []NothingRefundedTwice` |
| `RefundsProofs!Answers` | `Spec => []RefundsAreAnswered` |
| `RefundsProofs!RefundsAgree` | `Spec => []RefundsMatchRequests`, if `OneWorker` |
| `RefundsProofs!Atomicity` | `Spec => ImplementsAtomic`, if `OneWorker` |
| `IdempotencyProofs!Faithful` | `Spec => []ReplaysAreFaithful` |
| `IdempotencyProofs!Repeats` | `Spec => []RepeatsOverlap` |
| `UsersProofs!TypeCorrect` | `Spec => []TypeOK` |
| `UsersProofs!WalletsOfTheActive` | `Spec => []ActiveUsersHaveWallets` |
| `UsersProofs!NothingIsOrphaned` | `Spec => []NoOrphans` |
| `UsersProofs!FailuresLeaveNothing` | `Spec => []FailedCustomersAreGone` |
| `UsersProofs!InvitationsOfTheInactive` | `Spec => []InvitedUsersAreInactive` |
| `UsersProofs!AccessTypeCorrect` | `AccessSpec => []AccessTypeOK` |
| `UsersProofs!SubjectsExist` | `AccessSpec => []TokensNameUsers` |
| `UsersProofs!Service` | `AccessSpec => []AdmittedAreServed` |
| `RateLimiterProofs!Overshoot`, `ApiOvershoot` | `Spec => []BoundedOvershoot`, `ApiSpec => []BoundedOvershoot` |
| `RateLimiterProofs!NoConnectionLeaks` | `ApiSpec => []ConnectionsAreReturned` |
| `AmountsProofs!FairFees` | `Spec => []FeesAreFair`; its lemma `FeeRule` for every integer amount |
| `AmountsProofs!ExactCentimes` | `Spec => []WholeCentimesAreExact` |

**Ledger and wallets.** What a request checks is an old row, so `PayersCanPay` needs
to know that the row is current again at the commit. `IInv` says what the version
column is for. Every row a request has read is no newer than the committed one,
and equal to it when the versions agree (`ReadsAreOld`, `TransferReadsAreOld`); a
row whose update has executed is current, and no two open transactions have
updated the same account (`ExecutedReadsAreCurrent`, `LocksAreExclusive`); the
update that a transfer or withdrawal plans for its own account takes its amount
from a row that had it (`PlansAreCovered`). At the commit that row is the
committed one (`CommitIsCovered`), and the difference is an int64 unless the
amount is negative. `LedgerProofs` shows that each ledger action preserves the
ledger's part, whatever service runs on it; `WalletsProofs` adds the service's part,
one lemma per action, and derives the invariants. `NoLostUpdate` follows from the
same invariant at the commit, because only `Finish` ends a request as done.

**Atomicity.** `RInv` adds to `IInv` what each phase has established: a plan is
the one of its operation for the parameters checked, a webhook's parent is a
recorded inflight transaction, a marked event is processed by nobody else, and
an inserted reference is neither committed nor held by another request. The
refinement mapping forgets versions, calls and plans. `Topup` and `Withdraw` map
to `Initiate`, `Finish` maps to the abstract step of its operation, all other
steps to stuttering.

**Journals.** `Total` of `Audit` adds amounts up with the folds of the community
modules, and the induction theorems of the library cannot be used. `LedgerProofs`
therefore argues by a minimal counterexample: among the subsets of a finite set
that violate a claim there is a smallest one (`MinimalSubset`, from the
well-foundedness of the strict subsets). That gives the recursive equation of
`Total`, and from it that the order of summation does not matter (`TotalAdds`)
and how the total of a part of the journal grows with a row (`PartGrows`).
`LedgerProofs` also has the arithmetic of `Int64`: it is the identity on int64s
(`Int64Keeps`), and the low bits of a sum are those of the sum of low bits
(`Int64Sum`, `Int64Absorbs`), which is all that double entry needs of it.

The journal of wallets is audited in the abstract service: `AuditInv` holds of
what `WalletsAtomic` sees, and each of its actions preserves it
(`RequestTopupIsAudited`, `ReserveWithdrawalIsAudited`, `TransferIsAudited`,
`SettleIsAudited`); the refinement carries it over to the handlers (`Audited`).
`AuditInv` adds to the two properties what makes them inductive: references are
unique and rows have two ends, what is inflight is a top-up from or a withdrawal
to the world, and a settlement is the child of such a row. The proof of
`Settle` needs the event's newness: it adds one event and one settlement of the
same parent and outcome.

**Deliveries.** Every step of `DeliveriesSpec` is a step of `Wallets`, leaves
its variables alone, or is `Again` (`DeliveryStep`), which only makes a failed
request idle: it preserves `RInv` and maps to a stutter, so refinement and audit
carry over. `RecordedAreSettled` needs also that a deliverer at work runs a
webhook and that the gateway has seen 200 only for recorded events
(`GatewayInv`): `FinishDelivery` acknowledges the event that its commit records.
The theorems use none of the fairness.

**Payments and refunds.** The same lemmas of `LedgerProofs` carry the rows
(`LedgerInv`); the fee and the net of an int64 are int64s by `FeeBounds`. `CallInv` says what
a handler or worker has checked and read by each phase. The queue's part,
`QueueInv`, needs that a request's identifier is that of a handler which has
ended (`RequestsAreDone`): nobody inserts it again. It is preserved for one of
two reasons. A step that gives no worker a claim it lacked (`NoNewClaims`) and
leaves the queue alone keeps it (`QueueUnchanged`); one that answers a request
keeps it if no worker that remains in its claim has that request
(`QueueAnswered`), which at `Finish` is the exclusion of claims and at
`MarkFailed` its guard, the wait for the row lock. Only `ClaimPending` creates a
claim, of a request that is pending and unlocked. `NoLostUpdate` follows from
`LedgerInv` at the commit, since only `Finish` ends a writing request as done.

**Refunds and the journal.** `RInv` adds to `IInv` what each phase has established
(`Justified`), the uniqueness of references (`KeysInv`) and what the tables say
of each other (`TablesAgree`: a refund sends a payment back under its next
reference, a request names a payment). Since rows are only added and answers
change only the status, facts read remain true (`OthersStayJustified`). Under
`RInv` a commit is one whose payer was found to have its price on the row that is
the committed one again (`CommitIsCovered`), which is `PayersCanPay`, and
a step does one of a few things to the tables (`NextEffects`): it adds a
checkout session, creates or fails a request, or its commit is `Paid` or
`PaidBack`. The remaining theorems treat only those. `JournalAgrees` adds their
rows to the sums. `MerchantsKeepEnough` supposes that the merchant's income was
never negative and fits an int64 (`OrdinaryIncome`), since a negative session
takes from a merchant what it was paid before; it needs that nothing but a refund takes
money from a merchant (`MerchantsOnlyRefund`); then a merchant's balance is its
opening one and its payments less their refunds, and the refunds are of different
payments since their references are unique.

That references are unique makes `NothingRefundedTwice` true for any number of
workers; so is `RefundsAreAnswered`, what is left of `RefundsMatchRequests` with
several: a late `MarkFailed` completes no request and makes none pending again
(`LateFailure`). `RefundsMatchRequests` itself needs one worker: then the request
that a worker will mark as failed is still pending (`LateAnswersArePending`), because nobody else
answers requests; an answer replaces a pending request by an answered one
(`AnswerReplaces`), and a completed one comes with its refund. For the refinement
of `RefundsAtomic` a balance row maps to its amount and a request to its
identifier, reference and status; `CreateCheckoutSession` maps to `Offer`,
`CreateRequest` to `Ask`, `Paid` to `Pay`, `PaidBack` to `Refund` and, again with
one worker, `MarkFailed` to `Refuse`.

**Amounts.** If the denominator divides a hundred times the numerator it is their
greatest common divisor (`GCDOfMultiple`), so the reduced fraction is a whole
number and nothing is lost when its denominator is dropped.

**Idempotency.** `ReplaysAreFaithful` needs that a stored key belongs to a request
that is about to be answered by itself, was, or crashed before
(`KeysAreAnswers`), and that a replayed response is stored under its key
(`ReplaysAreStored`), of which there is one. `RepeatsOverlap` is about
two past executions, so the invariant speaks of the moments between: an executed
request that was answered has its key stored unless the store failed or another
user has the key (`AnsweredAreStored`), and a request that found no key did not
begin after such a one (`MissedHadNoKey`). Keys are never deleted and calls never
change (`Stability`), so both survive every step.

**Users.** A user is known by the registration that inserted it, which is past
its first transaction (`UsersAreRegistered`), and only an ended request has been
told anything (`PhasesAgree`); with the foreign key of merchants stopping no
customer's compensation (`MerchantsHaveTheirRole`), the three invariants and
`InvitedUsersAreInactive` (an invitation outlives no activation) are inductive
together.

**Access.** Every step of `AccessSpec` is one of `Spec` or leaves the tables alone
(`AccessKeepsTables`), so the invariants of the tables carry over. An active user
is never deleted: it has a balance, whose reference to its identity makes the
compensation fail. So the user a token names, and the
one a context carries, was active when it was read and still is, and has the
balance of `ActiveUsersHaveWallets`; a merchant's row is written with its user.

**Rate limiter and API process.** `TypeOK` and `BoundedOvershoot` together are inductive: at a
`Read` the count is below the limit and the reading handler is not among those
about to count; `Count` turns such a handler into a counted request; a reset
only removes. `Api` adds steps that leave the limiter alone. For the connections,
a request's place in its route decides whether it is in a transaction; `Begin` and
`Commit` change the place of one handler and the count by one, and every way out
of a handler goes through `Released`.

Every invariant, action property and refinement that a passing run checks is a theorem.
Only model-checked are the liveness properties `RequestsTerminate`, `OutcomesArrive`,
`HandlersTerminate`, `RefundsDecidedUnlessStuck` and `RequestsEnd`, since
fairness and `ENABLED` are out of the prover's reach. The refuted
properties are shown by TLC's counterexamples.

## Not modelled

JSON, health, the mailer's formatting, configuration, logging and the generated
API documentation keep no state that the properties speak of. Of the HTTP
handlers only the calls they make, and whether they answer with success, are
modelled: decoding, validation and the other status codes are not. A request with
a malformed or expired token, a webhook with a wrong signature, and an
amount that does not parse are requests that do not start. Whether the process is
started again after it stopped is not modelled; the database keeps the state that
matters, and every model lets requests end at any point before their commit. The
page of history that a lost connection cuts short (`rows.Err()` is not looked at)
is a read without effect.

## Plan

1. The decreasing measures behind the liveness properties, as action properties:
   each step of a handler other than a wait brings it nearer to its end.
2. Expiry of checkout sessions, invitations and refund windows as clock steps.
