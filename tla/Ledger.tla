------------------------------- MODULE Ledger -------------------------------
(***************************************************************************)
(* The database transactions every money movement runs in: WithTx around a *)
(* list of statements, each an INSERT into transactions or a versioned     *)
(* UPDATE of balances, at PostgreSQL's default READ COMMITTED isolation.   *)
(*                                                                         *)
(* A service first reads and checks, then executes its statements: plan is *)
(* what it has decided to execute, step how far it has come.  A statement  *)
(* locks the row it updates or the key it inserts until the transaction    *)
(* ends, and its effect is visible to the others from the commit on.       *)
(***************************************************************************)
EXTENDS Accounting

VARIABLES
    balances,      \* committed rows of table balances
    transactions,  \* committed rows of table transactions
    pc,            \* what each request is doing
    plan,          \* the statements of the request's open transaction
    step           \* how many of them it has executed

ledgerVars == <<balances, transactions, pc, plan, step>>

(***************************************************************************)
(* Statements.  An UPDATE carries the row as the service read it and the   *)
(* row it wants to store.                                                  *)
(***************************************************************************)
Insert(t) == [table |-> "transactions", row |-> t]

Update(a, read, row) ==
    [table |-> "balances", account |-> a, read |-> read, row |-> row]

Statement ==
    [table: {"transactions"}, row: Transaction]
        \cup [table: {"balances"}, account: Accounts, read: Row, row: Row]

Updates(statements) == {s \in statements : s.table = "balances"}
Inserts(statements) == {s \in statements : s.table = "transactions"}

Planned(r) == {plan[r][i] : i \in 1..Len(plan[r])}
Executed(r) == {plan[r][i] : i \in 1..step[r]}

Locked(r) == {s.account : s \in Updates(Executed(r))}
Inserted(r) == {s.row.reference : s \in Inserts(Executed(r))}

ReferencesOf(ts) == {t.reference : t \in ts}

-----------------------------------------------------------------------------
LedgerInit ==
    /\ balances = [a \in Accounts |-> OpeningRow(a)]
    /\ transactions = {}
    /\ pc = [r \in Requests |-> "idle"]
    /\ plan = [r \in Requests |-> << >>]
    /\ step = [r \in Requests |-> 0]

(***************************************************************************)
(* BeginTx has happened and the service has decided what to execute.       *)
(***************************************************************************)
Begin(r, statements) ==
    /\ pc' = [pc EXCEPT ![r] = "writing"]
    /\ plan' = [plan EXCEPT ![r] = statements]
    /\ UNCHANGED <<balances, transactions, step>>

(***************************************************************************)
(* Rollback of the open transaction, and the end of its request.           *)
(***************************************************************************)
Rollback(r) ==
    /\ pc' = [pc EXCEPT ![r] = "failed"]
    /\ plan' = [plan EXCEPT ![r] = << >>]
    /\ step' = [step EXCEPT ![r] = 0]
    /\ UNCHANGED <<balances, transactions>>

Pending(r) == pc[r] = "writing" /\ step[r] < Len(plan[r])

NextStatement(r) == plan[r][step[r] + 1]

Execute(r) ==
    /\ step' = [step EXCEPT ![r] = @ + 1]
    /\ UNCHANGED <<balances, transactions, pc, plan>>

-----------------------------------------------------------------------------
(***************************************************************************)
(* UPDATE balances ... WHERE balance_id AND version: it waits for the row  *)
(* lock and then compares the version with the committed one.              *)
(***************************************************************************)
RowFree(r, a) == \A o \in Requests \ {r} : a \notin Locked(o)

\* Variant: the UPDATE without "AND version = $5".
AnyVersionMatches(s) == TRUE

VersionMatches(s) == balances[s.account].version = s.read.version

UpdateBalance(r) ==
    /\ Pending(r)
    /\ NextStatement(r).table = "balances"
    /\ RowFree(r, NextStatement(r).account)
    /\ VersionMatches(NextStatement(r))
    /\ Execute(r)

OptimisticLock(r) ==
    /\ Pending(r)
    /\ NextStatement(r).table = "balances"
    /\ RowFree(r, NextStatement(r).account)
    /\ ~ VersionMatches(NextStatement(r))
    /\ Rollback(r)

(***************************************************************************)
(* INSERT INTO transactions: it waits while another open transaction holds *)
(* the same reference, and fails once that reference is committed.         *)
(***************************************************************************)
KeyFree(r, reference) ==
    \A o \in Requests \ {r} : reference \notin Inserted(o)

Record(r) ==
    /\ Pending(r)
    /\ NextStatement(r).table = "transactions"
    /\ KeyFree(r, NextStatement(r).row.reference)
    /\ NextStatement(r).row.reference \notin ReferencesOf(transactions)
    /\ Execute(r)

DuplicateReference(r) ==
    /\ Pending(r)
    /\ NextStatement(r).table = "transactions"
    /\ NextStatement(r).row.reference \in ReferencesOf(transactions)
    /\ Rollback(r)

(***************************************************************************)
(* GetTransactionHistory: the committed rows that a customer is shown.     *)
(***************************************************************************)
Involves(a, t) == a \in {t.source, t.destination}

History(a) ==
    {t \in transactions :
        Involves(a, t) /\ t.destination # Revenue /\ t.status # "inflight"}

(***************************************************************************)
(* WithTx commits once the service's function has returned nil.            *)
(***************************************************************************)
\* Variant: the UPDATE without "version = version + 1".
StoredWithOldVersion(s) == s.row

Stored(s) == [s.row EXCEPT !.version = s.read.version + 1]

Commit(r) ==
    /\ pc[r] = "writing"
    /\ step[r] = Len(plan[r])
    /\ balances' = [a \in Accounts |->
           IF \E s \in Updates(Executed(r)) : s.account = a
           THEN Stored(CHOOSE s \in Updates(Executed(r)) : s.account = a)
           ELSE balances[a]]
    /\ transactions' = transactions \cup {s.row : s \in Inserts(Executed(r))}
    /\ pc' = [pc EXCEPT ![r] = "done"]
    /\ plan' = [plan EXCEPT ![r] = << >>]
    /\ step' = [step EXCEPT ![r] = 0]

(***************************************************************************)
(* A request whose next statement waits for another transaction.           *)
(***************************************************************************)
Waiting(r) ==
    /\ Pending(r)
    /\ \/ /\ NextStatement(r).table = "balances"
          /\ ~ RowFree(r, NextStatement(r).account)
       \/ /\ NextStatement(r).table = "transactions"
          /\ ~ KeyFree(r, NextStatement(r).row.reference)

-----------------------------------------------------------------------------
LedgerTypeOK ==
    /\ balances \in [Accounts -> Row]
    /\ transactions \subseteq Transaction
    /\ plan \in [Requests -> Seq(Statement)]
    /\ step \in [Requests -> Nat]

(***************************************************************************)
(* What makes the version column a lock.  A row read by a request is no    *)
(* newer than the committed one, and equal to it if their versions agree;  *)
(* once its UPDATE is executed the two do agree, and stay so, because no   *)
(* two open transactions have updated the same account.                    *)
(***************************************************************************)
UpToDate(read, a) ==
    /\ read.version <= balances[a].version
    /\ read.version = balances[a].version => read = balances[a]

ReadsAreOld ==
    \A r \in Requests : \A s \in Updates(Planned(r)) : UpToDate(s.read, s.account)

ExecutedReadsAreCurrent ==
    \A r \in Requests : \A s \in Updates(Executed(r)) : s.read = balances[s.account]

LocksAreExclusive ==
    \A r, o \in Requests : r # o => Locked(r) \cap Locked(o) = {}

KeysAreExclusive ==
    \A r, o \in Requests : r # o => Inserted(r) \cap Inserted(o) = {}

StepsAreInPlan == \A r \in Requests : step[r] <= Len(plan[r])

LedgerInv ==
    /\ LedgerTypeOK
    /\ StepsAreInPlan
    /\ ReadsAreOld
    /\ ExecutedReadsAreCurrent
    /\ LocksAreExclusive

(***************************************************************************)
(* NoLostUpdate: a transaction that commits replaces exactly the rows its  *)
(* service read, so the reads, the checks made on them and the writes      *)
(* happened as one step.                                                   *)
(***************************************************************************)
Commits(r) == pc[r] = "writing" /\ pc'[r] = "done"

NoLostUpdateStep ==
    \A r \in Requests : Commits(r) =>
        \A s \in Updates(Planned(r)) : s.read = balances[s.account]

NoLostUpdate == [][NoLostUpdateStep]_ledgerVars
=============================================================================
