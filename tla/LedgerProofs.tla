---------------------------- MODULE LedgerProofs ----------------------------
(***************************************************************************)
(* What the ledger's actions preserve, whatever service runs on it, and    *)
(* the arithmetic of sums over its transactions.                           *)
(***************************************************************************)
EXTENDS Audit, FiniteSetTheorems, TLAPS

(***************************************************************************)
(* Int64 keeps the numbers that fit in a word and drops multiples of       *)
(* 2 * HalfWord from the others, so a sum may be reduced at any stage.     *)
(***************************************************************************)
Word == 2 * HalfWord

LEMMA Division ==
    ASSUME NEW n \in Int, NEW w \in Nat \ {0}
    PROVE  /\ n % w \in 0..w-1
           /\ n \div w \in Int
           /\ n = w * (n \div w) + (n % w)
OBVIOUS

LEMMA SmallMultiple ==
    ASSUME NEW z \in Int, NEW w \in Nat \ {0}, w * z < w, w * z > -w
    PROVE  z = 0
<1>1. CASE z >= 1
  BY <1>1, w*z >= w
<1>2. CASE z <= -1
  BY <1>2
<1> QED
  BY <1>1, <1>2

LEMMA Int64Type ==
    ASSUME NEW n \in Int
    PROVE  Int64(n) \in Int64s
BY WordAssumption, Division DEF Int64, Int64s

LEMMA Int64Keeps ==
    ASSUME NEW n \in Int64s
    PROVE  Int64(n) = n
BY WordAssumption, Division DEF Int64, Int64s

LEMMA SameRemainder ==
    ASSUME NEW n \in Int, NEW k \in Int, NEW w \in Nat \ {0}, NEW a \in Int, NEW b \in Int,
           NEW i \in 0..w-1, NEW j \in 0..w-1,
           n = w * a + i, n + w * k = w * b + j
    PROVE  i = j
<1>1. w * (a + k - b) = w * a + w * k - w * b
  OBVIOUS
<1>2. w * a \in Int /\ w * k \in Int /\ w * b \in Int /\ i \in Int /\ j \in Int
  OBVIOUS
<1>3. w * a + w * k - w * b = j - i
  <2> DEFINE x == w * a
             y == w * k
             z == w * b
  <2>1. x \in Int /\ y \in Int /\ z \in Int /\ n = x + i /\ n + y = z + j
    BY <1>2
  <2> HIDE DEF x, y, z
  <2>2. x + y - z = j - i
    BY <2>1
  <2> QED
    BY <2>2 DEF x, y, z
<1>4. a + k - b = 0
  BY <1>1, <1>3, SmallMultiple
<1>5. w * (a + k - b) = 0
  BY <1>4
<1> QED
  BY <1>1, <1>3, <1>5

LEMMA ModRepeats ==
    ASSUME NEW n \in Int, NEW k \in Int, NEW w \in Nat \ {0}
    PROVE  (n + w * k) % w = n % w
<1>1. n + w * k \in Int
  OBVIOUS
<1>2. /\ n % w \in 0..w-1 /\ n \div w \in Int
      /\ n = w * (n \div w) + (n % w)
  BY Division
<1> DEFINE m == n + w * k
<1>3. m \in Int
  BY <1>1
<1> HIDE DEF m
<1>4. /\ m % w \in 0..w-1 /\ m \div w \in Int
      /\ m = w * (m \div w) + (m % w)
  BY <1>3, Division
<1>5. n + w * k = w * (m \div w) + (m % w)
  BY <1>4 DEF m
<1>6. PICK a \in Int, i \in 0..w-1 : n = w * a + i /\ i = n % w
  BY <1>2
<1>7. PICK b \in Int, j \in 0..w-1 : n + w * k = w * b + j /\ j = m % w
  BY <1>4, <1>5
<1>8. i = j
  BY <1>6, <1>7, SameRemainder
<1> QED
  BY <1>6, <1>7, <1>8 DEF m

LEMMA Int64IsCongruent ==
    ASSUME NEW n \in Int
    PROVE  \E k \in Int : Int64(n) = n + Word * k
<1> DEFINE x == n + HalfWord
           q == x \div Word
<1>1. x \in Int /\ Word \in Nat \ {0} /\ HalfWord \in Int
  BY WordAssumption DEF Word
<1>2. Int64(n) = (x % Word) - HalfWord
  BY DEF Int64, Word
<1> HIDE DEF x
<1>3. x % Word \in Int /\ q \in Int /\ x = Word * q + (x % Word)
  BY <1>1, Division
<1>4. Word * (-q) = -(Word * q) /\ Word * q \in Int
  BY <1>1, <1>3
<1> HIDE DEF q
<1>5. Int64(n) = n + Word * (-q)
  BY <1>1, <1>2, <1>3, <1>4 DEF x
<1> QED
  BY <1>3, <1>5

LEMMA Int64Repeats ==
    ASSUME NEW n \in Int, NEW k \in Int
    PROVE  Int64(n + Word * k) = Int64(n)
<1>1. Word \in Nat \ {0} /\ n + HalfWord \in Int /\ HalfWord \in Int /\ Word * k \in Int
  BY WordAssumption DEF Word
<1>2. ((n + HalfWord) + Word * k) % Word = (n + HalfWord) % Word
  BY <1>1, ModRepeats
<1>3. (n + HalfWord) + Word * k = (n + Word * k) + HalfWord
  BY <1>1
<1> QED
  BY <1>2, <1>3 DEF Int64, Word

LEMMA Int64Sum ==
    ASSUME NEW n \in Int, NEW m \in Int
    PROVE  Int64(Int64(n) + m) = Int64(n + m)
<1>1. PICK k \in Int : Int64(n) = n + Word * k
  BY Int64IsCongruent
<1>2. Int64(n) + m = (n + m) + Word * k
  BY <1>1, WordAssumption DEF Word
<1> QED
  BY <1>2, Int64Repeats

LEMMA Int64Absorbs ==
    ASSUME NEW n \in Int, NEW m \in Int
    PROVE  /\ Int64(n + Int64(m)) = Int64(n + m)
           /\ Int64(n - Int64(m)) = Int64(n - m)
<1>1. PICK k \in Int : Int64(m) = m + Word * k
  BY Int64IsCongruent
<1>2. n + Int64(m) = (n + m) + Word * k /\ n - Int64(m) = (n - m) + Word * (-k)
  BY <1>1, WordAssumption DEF Word
<1> QED
  BY <1>2, Int64Repeats

-----------------------------------------------------------------------------
(***************************************************************************)
(* Accounts, references, transactions and statements are what they should. *)
(***************************************************************************)
LEMMA CustomersAreAccounts ==
    /\ Customers \subseteq Accounts /\ Merchants \subseteq Accounts
    /\ World \in Accounts /\ Revenue \in Accounts
BY DEF Accounts

LEMMA TransactionTypes ==
    /\ \A prefix \in Prefixes, u \in Requests \cup Texts :
          Reference(prefix, u) \in References
    /\ \A ref \in References, a \in Accounts, b \in Accounts, m \in Int,
          status \in Statuses : Transfers(ref, a, b, m, status) \in Transaction
    /\ \A parent \in Transaction, ref \in References, status \in Statuses :
          SettlementOf(parent, ref, status) \in Transaction
<1>1. \A prefix \in Prefixes, u \in Requests \cup Texts :
          Reference(prefix, u) \in References
  BY DEF References, Reference
<1>2. \A ref \in References, a \in Accounts, b \in Accounts, m \in Int,
         status \in Statuses : Transfers(ref, a, b, m, status) \in Transaction
  BY Int64Type DEF Transfers, Transaction
<1>3. \A parent \in Transaction, ref \in References, status \in Statuses :
         SettlementOf(parent, ref, status) \in Transaction
  BY DEF SettlementOf, Transaction
<1> QED
  BY <1>1, <1>2, <1>3

LEMMA StatementTypes ==
    /\ \A t \in Transaction : Insert(t) \in Statement /\ Insert(t).table = "transactions"
    /\ \A a \in Accounts, read \in Row, row \in Row :
          /\ Update(a, read, row) \in Statement
          /\ Update(a, read, row).table = "balances"
          /\ Update(a, read, row).account = a
          /\ Update(a, read, row).read = read
          /\ Update(a, read, row).row = row
BY DEF Insert, Update, Statement

(***************************************************************************)
(* How the actions change the planned and executed statements.             *)
(***************************************************************************)
LEMMA ExecutedArePlanned ==
    ASSUME LedgerTypeOK, StepsAreInPlan, NEW r \in Requests
    PROVE  /\ Executed(r) \subseteq Planned(r)
           /\ Planned(r) \subseteq Statement
           /\ step[r] = Len(plan[r]) => Executed(r) = Planned(r)
<1>1. plan[r] \in Seq(Statement) /\ step[r] \in Nat /\ step[r] <= Len(plan[r])
  BY DEF LedgerTypeOK, StepsAreInPlan
<1>2. \A i \in 1..Len(plan[r]) : plan[r][i] \in Statement
  BY <1>1
<1> QED
  BY <1>1, <1>2 DEF Executed, Planned

LEMMA ExecuteAddsNext ==
    ASSUME LedgerTypeOK, StepsAreInPlan, NEW r \in Requests, Pending(r), Execute(r)
    PROVE  /\ Executed(r)' = Executed(r) \cup {NextStatement(r)}
           /\ NextStatement(r) \in Planned(r)
           /\ \A o \in Requests : Planned(o)' = Planned(o)
           /\ \A o \in Requests \ {r} : Executed(o)' = Executed(o)
           /\ LedgerTypeOK' /\ StepsAreInPlan'
<1>1. plan[r] \in Seq(Statement) /\ step[r] \in Nat /\ step[r] < Len(plan[r])
  BY DEF LedgerTypeOK, Pending
<1>2. /\ step' = [step EXCEPT ![r] = @ + 1] /\ plan' = plan
      /\ balances' = balances /\ transactions' = transactions
  BY DEF Execute
<1>3. step'[r] = step[r] + 1 /\ \A o \in Requests \ {r} : step'[o] = step[o]
  BY <1>2 DEF LedgerTypeOK
<1>4. 1..(step[r] + 1) = 1..step[r] \cup {step[r] + 1}
  BY <1>1
<1>5. Executed(r)' = Executed(r) \cup {NextStatement(r)}
  BY <1>2, <1>3, <1>4 DEF Executed, NextStatement
<1>6. NextStatement(r) \in Planned(r)
  BY <1>1 DEF Planned, NextStatement
<1>7. LedgerTypeOK' /\ StepsAreInPlan'
  BY <1>1, <1>2, <1>3 DEF LedgerTypeOK, StepsAreInPlan
<1> QED
  BY <1>2, <1>3, <1>5, <1>6, <1>7 DEF Executed, Planned

(***************************************************************************)
(* A transaction that ends, by a rollback or a commit, holds nothing.      *)
(***************************************************************************)
Ends(r) ==
    /\ plan' = [plan EXCEPT ![r] = << >>]
    /\ step' = [step EXCEPT ![r] = 0]

LEMMA EndReleases ==
    ASSUME LedgerTypeOK, StepsAreInPlan, NEW r \in Requests, Ends(r)
    PROVE  /\ Executed(r)' = {} /\ Planned(r)' = {}
           /\ \A o \in Requests \ {r} : /\ Executed(o)' = Executed(o)
                                        /\ Planned(o)' = Planned(o)
           /\ plan' \in [Requests -> Seq(Statement)]
           /\ step' \in [Requests -> Nat]
           /\ StepsAreInPlan'
<1>1. plan'[r] = << >> /\ step'[r] = 0
  BY DEF Ends, LedgerTypeOK
<1>2. \A o \in Requests \ {r} : plan'[o] = plan[o] /\ step'[o] = step[o]
  BY DEF Ends, LedgerTypeOK
<1>3. plan' \in [Requests -> Seq(Statement)] /\ step' \in [Requests -> Nat]
  BY DEF Ends, LedgerTypeOK
<1>4. StepsAreInPlan'
  BY <1>1, <1>2 DEF StepsAreInPlan
<1>5. Executed(r)' = {} /\ Planned(r)' = {}
  BY <1>1 DEF Executed, Planned
<1> QED
  BY <1>2, <1>3, <1>4, <1>5 DEF Executed, Planned

-----------------------------------------------------------------------------
(***************************************************************************)
(* Each kind of step preserves the ledger's inductive invariant.           *)
(***************************************************************************)
LEMMA UpdateReadIsCurrent ==
    ASSUME LedgerInv, NEW r \in Requests, UpdateBalance(r)
    PROVE  NextStatement(r).read = balances[NextStatement(r).account]
<1>1. NextStatement(r) \in Planned(r)
  BY ExecuteAddsNext DEF UpdateBalance, LedgerInv
<1>2. NextStatement(r) \in Updates(Planned(r))
  BY <1>1 DEF Updates, UpdateBalance
<1>3. UpToDate(NextStatement(r).read, NextStatement(r).account)
  BY <1>2 DEF LedgerInv, ReadsAreOld
<1> QED
  BY <1>3 DEF UpToDate, UpdateBalance, VersionMatches

LEMMA UpdatePreservesLedger ==
    ASSUME LedgerInv, NEW r \in Requests, UpdateBalance(r)
    PROVE  LedgerInv'
<1> DEFINE s == NextStatement(r)
<1>1. /\ Pending(r) /\ Execute(r) /\ s.table = "balances"
      /\ RowFree(r, s.account)
  BY DEF UpdateBalance
<1>2. /\ Executed(r)' = Executed(r) \cup {s}
      /\ \A o \in Requests : Planned(o)' = Planned(o)
      /\ \A o \in Requests \ {r} : Executed(o)' = Executed(o)
      /\ LedgerTypeOK' /\ StepsAreInPlan'
  BY <1>1, ExecuteAddsNext DEF LedgerInv
<1>3. balances' = balances
  BY <1>1 DEF Execute
<1>4. s.read = balances[s.account]
  BY UpdateReadIsCurrent
<1>5. ReadsAreOld'
  BY <1>2, <1>3 DEF LedgerInv, ReadsAreOld, Updates, UpToDate
<1>6. ExecutedReadsAreCurrent'
  BY <1>2, <1>3, <1>4 DEF LedgerInv, ExecutedReadsAreCurrent, Updates
<1>7. /\ Locked(r)' = Locked(r) \cup {s.account}
      /\ \A o \in Requests \ {r} : Locked(o)' = Locked(o)
  BY <1>1, <1>2 DEF Locked, Updates
<1>8. LocksAreExclusive'
  BY <1>1, <1>7 DEF LedgerInv, LocksAreExclusive, RowFree
<1> QED
  BY <1>2, <1>5, <1>6, <1>8 DEF LedgerInv

LEMMA RecordPreservesLedger ==
    ASSUME LedgerInv, NEW r \in Requests, Record(r)
    PROVE  LedgerInv'
<1> DEFINE s == NextStatement(r)
<1>1. /\ Pending(r) /\ Execute(r) /\ s.table = "transactions"
  BY DEF Record
<1>2. /\ Executed(r)' = Executed(r) \cup {s}
      /\ \A o \in Requests : Planned(o)' = Planned(o)
      /\ \A o \in Requests \ {r} : Executed(o)' = Executed(o)
      /\ LedgerTypeOK' /\ StepsAreInPlan'
  BY <1>1, ExecuteAddsNext DEF LedgerInv
<1>3. balances' = balances
  BY <1>1 DEF Execute
<1>4. \A o \in Requests : Updates(Executed(o))' = Updates(Executed(o))
  BY <1>1, <1>2 DEF Updates
<1>5. ReadsAreOld'
  BY <1>2, <1>3 DEF LedgerInv, ReadsAreOld, Updates, UpToDate
<1>6. ExecutedReadsAreCurrent' /\ LocksAreExclusive'
  BY <1>3, <1>4 DEF LedgerInv, ExecutedReadsAreCurrent, LocksAreExclusive, Locked
<1> QED
  BY <1>2, <1>5, <1>6 DEF LedgerInv

LEMMA RollbackPreservesLedger ==
    ASSUME LedgerInv, NEW r \in Requests, Rollback(r)
    PROVE  LedgerInv'
<1>1. Ends(r) /\ balances' = balances /\ transactions' = transactions
  BY DEF Rollback, Ends
<1>2. /\ Executed(r)' = {} /\ Planned(r)' = {}
      /\ \A o \in Requests \ {r} : /\ Executed(o)' = Executed(o)
                                   /\ Planned(o)' = Planned(o)
      /\ LedgerTypeOK' /\ StepsAreInPlan'
  BY <1>1, EndReleases DEF LedgerInv, LedgerTypeOK
<1>3. ReadsAreOld'
  BY <1>1, <1>2 DEF LedgerInv, ReadsAreOld, Updates, UpToDate
<1>4. ExecutedReadsAreCurrent'
  BY <1>1, <1>2 DEF LedgerInv, ExecutedReadsAreCurrent, Updates
<1>5. /\ Locked(r)' = {}
      /\ \A o \in Requests \ {r} : Locked(o)' = Locked(o)
  BY <1>2 DEF Locked, Updates
<1>6. LocksAreExclusive'
  BY <1>5 DEF LedgerInv, LocksAreExclusive
<1> QED
  BY <1>2, <1>3, <1>4, <1>6 DEF LedgerInv

(***************************************************************************)
(* A commit moves the version of every row it stores past those others     *)
(* have read, and stores no row another transaction has locked.            *)
(***************************************************************************)
LEMMA CommitStores ==
    ASSUME LedgerInv, NEW r \in Requests, Commit(r), NEW a \in Accounts
    PROVE  \/ /\ a \notin Locked(r)
              /\ balances'[a] = balances[a]
           \/ \E s \in Updates(Planned(r)) :
                 /\ s.account = a /\ s.read = balances[a]
                 /\ balances'[a] = Stored(s)
                 /\ balances'[a] \in Row
                 /\ balances'[a].version = balances[a].version + 1
<1>1. balances'[a] = IF \E s \in Updates(Executed(r)) : s.account = a
                     THEN Stored(CHOOSE s \in Updates(Executed(r)) : s.account = a)
                     ELSE balances[a]
  BY DEF Commit
<1>2. CASE ~ \E s \in Updates(Executed(r)) : s.account = a
  BY <1>1, <1>2 DEF Locked
<1>3. CASE \E s \in Updates(Executed(r)) : s.account = a
  <2> DEFINE u == CHOOSE s \in Updates(Executed(r)) : s.account = a
  <2>1. u \in Updates(Executed(r)) /\ u.account = a
    BY <1>3
  <2>2. balances'[a] = Stored(u)
    BY <1>1, <1>3
  <2>3. u \in Updates(Planned(r)) /\ u \in Statement
    BY <2>1, ExecutedArePlanned DEF LedgerInv, Updates
  <2>4. u.read = balances[a]
    BY <2>1 DEF LedgerInv, ExecutedReadsAreCurrent
  <2>5. u.row \in Row /\ u.read \in Row
    BY <2>3 DEF Statement, Updates
  <2> HIDE DEF u
  <2>6. balances'[a] \in Row /\ balances'[a].version = balances[a].version + 1
    BY <2>2, <2>4, <2>5 DEF Stored, Row
  <2> QED
    BY <2>1, <2>2, <2>3, <2>4, <2>6
<1> QED
  BY <1>2, <1>3

LEMMA CommitKeepsReadsOld ==
    ASSUME LedgerInv, NEW r \in Requests, Commit(r),
           NEW a \in Accounts, NEW read \in Row, UpToDate(read, a)
    PROVE  UpToDate(read, a)'
<1>1. CASE balances'[a] = balances[a]
  BY <1>1 DEF UpToDate
<1>2. CASE balances'[a].version = balances[a].version + 1
  <2>1. balances[a].version \in Nat /\ read.version \in Nat
    BY DEF LedgerInv, LedgerTypeOK, Row
  <2> QED
    BY <1>2, <2>1 DEF UpToDate
<1> QED
  BY <1>1, <1>2, CommitStores

LEMMA CommitPreservesLedger ==
    ASSUME LedgerInv, NEW r \in Requests, Commit(r)
    PROVE  LedgerInv'
<1>1. Ends(r)
  BY DEF Commit, Ends
<1>2. /\ Executed(r)' = {} /\ Planned(r)' = {}
      /\ \A o \in Requests \ {r} : /\ Executed(o)' = Executed(o)
                                   /\ Planned(o)' = Planned(o)
      /\ plan' \in [Requests -> Seq(Statement)] /\ step' \in [Requests -> Nat]
      /\ StepsAreInPlan'
  BY <1>1, EndReleases DEF LedgerInv
<1>3. balances' \in [Accounts -> Row]
  <2>1. \A a \in Accounts : balances'[a] \in Row
    BY CommitStores DEF LedgerInv, LedgerTypeOK
  <2>2. balances' = [a \in Accounts |-> balances'[a]]
    BY DEF Commit
  <2> QED
    BY <2>1, <2>2
<1>4. transactions' \subseteq Transaction
  <2>1. \A s \in Inserts(Executed(r)) : s.row \in Transaction
    BY ExecutedArePlanned DEF LedgerInv, Inserts, Statement
  <2> QED
    BY <2>1 DEF Commit, LedgerInv, LedgerTypeOK
<1>5. \A o \in Requests : \A s \in Updates(Planned(o)) :
          s.account \in Accounts /\ s.read \in Row
  BY ExecutedArePlanned DEF LedgerInv, Updates, Statement
<1>6. ReadsAreOld'
  <2> SUFFICES ASSUME NEW o \in Requests, NEW s \in Updates(Planned(o))'
               PROVE  UpToDate(s.read, s.account)'
    BY DEF ReadsAreOld
  <2>1. s \in Updates(Planned(o))
    BY <1>2 DEF Updates
  <2>2. UpToDate(s.read, s.account)
    BY <2>1 DEF LedgerInv, ReadsAreOld
  <2> QED
    BY <1>5, <2>1, <2>2, CommitKeepsReadsOld
<1>7. ExecutedReadsAreCurrent'
  <2> SUFFICES ASSUME NEW o \in Requests, NEW s \in Updates(Executed(o))'
               PROVE  s.read = balances'[s.account]
    BY DEF ExecutedReadsAreCurrent
  <2>1. o # r /\ s \in Updates(Executed(o))
    BY <1>2 DEF Updates
  <2>2. s.account \in Accounts
    BY <2>1, <1>5, ExecutedArePlanned DEF LedgerInv, Updates
  <2>3. s.account \notin Locked(r)
    BY <2>1 DEF LedgerInv, LocksAreExclusive, Locked
  <2>4. balances'[s.account] = balances[s.account]
    BY <2>2, <2>3 DEF Commit, Locked
  <2> QED
    BY <2>1, <2>4 DEF LedgerInv, ExecutedReadsAreCurrent
<1>8. /\ Locked(r)' = {}
      /\ \A o \in Requests \ {r} : Locked(o)' = Locked(o)
  BY <1>2 DEF Locked, Updates
<1>9. LocksAreExclusive'
  BY <1>8 DEF LedgerInv, LocksAreExclusive
<1> QED
  BY <1>2, <1>3, <1>4, <1>6, <1>7, <1>9 DEF LedgerInv, LedgerTypeOK

(***************************************************************************)
(* A transaction that begins with rows no newer than the committed ones.   *)
(***************************************************************************)
LEMMA BeginPreservesLedger ==
    ASSUME LedgerInv, NEW r \in Requests, step[r] = 0,
           NEW statements \in Seq(Statement), Begin(r, statements),
           \A i \in 1..Len(statements) : statements[i].table = "balances" =>
               UpToDate(statements[i].read, statements[i].account)
    PROVE  LedgerInv'
<1>1. /\ balances' = balances /\ transactions' = transactions /\ step' = step
      /\ plan' = [plan EXCEPT ![r] = statements]
  BY DEF Begin
<1>2. plan'[r] = statements /\ \A o \in Requests \ {r} : plan'[o] = plan[o]
  BY <1>1 DEF LedgerInv, LedgerTypeOK
<1>3. LedgerTypeOK'
  BY <1>1 DEF LedgerInv, LedgerTypeOK
<1>4. StepsAreInPlan'
  BY <1>1, <1>2 DEF LedgerInv, LedgerTypeOK, StepsAreInPlan
<1>5. \A o \in Requests : Executed(o)' = Executed(o)
  <2>1. Executed(r) = {} /\ Executed(r)' = {}
    BY <1>1 DEF Executed
  <2> QED
    BY <1>1, <1>2, <2>1 DEF Executed
<1>6. ReadsAreOld'
  <2> SUFFICES ASSUME NEW o \in Requests, NEW s \in Updates(Planned(o))'
               PROVE  UpToDate(s.read, s.account)'
    BY DEF ReadsAreOld
  <2>1. CASE o = r
    BY <1>1, <1>2, <2>1 DEF Planned, Updates, UpToDate
  <2>2. CASE o # r
    BY <1>1, <1>2, <2>2 DEF LedgerInv, ReadsAreOld, Planned, Updates, UpToDate
  <2> QED
    BY <2>1, <2>2
<1>7. ExecutedReadsAreCurrent' /\ LocksAreExclusive'
  BY <1>1, <1>5 DEF LedgerInv, ExecutedReadsAreCurrent, LocksAreExclusive,
                    Locked, Updates
<1> QED
  BY <1>3, <1>4, <1>6, <1>7 DEF LedgerInv

(***************************************************************************)
(* A commit finds every row its service read unchanged.                    *)
(***************************************************************************)
LEMMA CommitReadsAreCurrent ==
    ASSUME LedgerInv, NEW r \in Requests, Commit(r)
    PROVE  \A s \in Updates(Planned(r)) : s.read = balances[s.account]
<1>1. Executed(r) = Planned(r)
  BY ExecutedArePlanned DEF Commit, LedgerInv
<1> QED
  BY <1>1 DEF LedgerInv, ExecutedReadsAreCurrent

(***************************************************************************)
(* Steps that leave the ledger alone, and rows read now.                   *)
(***************************************************************************)
LEMMA CurrentRowIsUpToDate == ASSUME NEW a, balances[a].version \in Nat
                              PROVE  UpToDate(balances[a], a)
BY DEF UpToDate

LEMMA LedgerUnchanged ==
    ASSUME LedgerInv, UNCHANGED <<balances, transactions, plan, step>>
    PROVE  LedgerInv'
<1>1. \A r \in Requests : Planned(r)' = Planned(r) /\ Executed(r)' = Executed(r)
  BY DEF Planned, Executed
<1>2. LedgerTypeOK' /\ StepsAreInPlan'
  BY DEF LedgerInv, LedgerTypeOK, StepsAreInPlan
<1>3. ReadsAreOld'
  BY <1>1 DEF LedgerInv, ReadsAreOld, UpToDate, Updates
<1>4. ExecutedReadsAreCurrent'
  BY <1>1 DEF LedgerInv, ExecutedReadsAreCurrent, Updates
<1>5. LocksAreExclusive'
  BY <1>1 DEF LedgerInv, LocksAreExclusive, Locked, Updates
<1> QED
  BY <1>2, <1>3, <1>4, <1>5 DEF LedgerInv

-----------------------------------------------------------------------------
(***************************************************************************)
(* The references an open transaction has inserted are its own and new.    *)
(***************************************************************************)
KeysAreFresh ==
    \A r \in Requests : Inserted(r) \cap ReferencesOf(transactions) = {}

KeysInv == KeysAreExclusive /\ KeysAreFresh

LEMMA KeysAreKept ==
    ASSUME KeysInv, transactions' = transactions,
           \A r \in Requests : Inserted(r)' \subseteq Inserted(r)
    PROVE  KeysInv'
BY DEF KeysInv, KeysAreExclusive, KeysAreFresh, ReferencesOf

LEMMA KeysUntouched ==
    ASSUME KeysInv, UNCHANGED <<transactions, plan, step>>
    PROVE  KeysInv'
<1>1. \A r \in Requests : Inserted(r)' = Inserted(r)
  BY DEF Inserted, Inserts, Executed
<1> QED
  BY <1>1, KeysAreKept

LEMMA NothingExecutedKeepsKeys ==
    ASSUME KeysInv, UNCHANGED <<transactions, step>>, NEW r \in Requests, step[r] = 0,
           \A o \in Requests \ {r} : plan'[o] = plan[o]
    PROVE  KeysInv'
<1>1. Inserted(r)' = {} /\ \A o \in Requests \ {r} : Inserted(o)' = Inserted(o)
  BY DEF Inserted, Inserts, Executed
<1> QED
  BY <1>1, KeysAreKept

LEMMA ExecuteKeepsKeys ==
    ASSUME LedgerInv, KeysInv, NEW r \in Requests, UpdateBalance(r) \/ Record(r)
    PROVE  KeysInv'
<1> DEFINE s == NextStatement(r)
<1>1. Pending(r) /\ Execute(r) /\ transactions' = transactions
  BY DEF UpdateBalance, Record, Execute
<1>2. /\ Executed(r)' = Executed(r) \cup {s}
      /\ \A o \in Requests \ {r} : Executed(o)' = Executed(o)
  BY <1>1, ExecuteAddsNext DEF LedgerInv
<1> HIDE DEF s
<1>3. \A o \in Requests \ {r} : Inserted(o)' = Inserted(o)
  BY <1>2 DEF Inserted, Inserts
<1>4. CASE UpdateBalance(r)
  <2>1. Inserted(r)' = Inserted(r)
    BY <1>2, <1>4 DEF Inserted, Inserts, UpdateBalance, s
  <2> QED
    BY <1>1, <1>3, <2>1, KeysAreKept
<1>5. CASE Record(r)
  <2>1. Inserted(r)' = Inserted(r) \cup {s.row.reference}
    BY <1>2, <1>5 DEF Inserted, Inserts, Record, s
  <2>2. /\ \A o \in Requests \ {r} : s.row.reference \notin Inserted(o)
        /\ s.row.reference \notin ReferencesOf(transactions)
    BY <1>5 DEF Record, KeyFree, s
  <2>3. KeysAreExclusive'
    BY <1>3, <2>1, <2>2 DEF KeysInv, KeysAreExclusive
  <2>4. KeysAreFresh'
    BY <1>1, <1>3, <2>1, <2>2 DEF KeysInv, KeysAreFresh, ReferencesOf
  <2> QED
    BY <2>3, <2>4 DEF KeysInv
<1> QED
  BY <1>4, <1>5

LEMMA EndKeepsKeys ==
    ASSUME LedgerInv, KeysInv, NEW r \in Requests, Rollback(r) \/ Commit(r)
    PROVE  KeysInv'
<1>1. Ends(r)
  BY DEF Rollback, Commit, Ends
<1>2. /\ Inserted(r)' = {}
      /\ \A o \in Requests \ {r} : Inserted(o)' = Inserted(o)
  <2>1. /\ Executed(r)' = {}
        /\ \A o \in Requests \ {r} : Executed(o)' = Executed(o)
    BY <1>1, EndReleases DEF LedgerInv
  <2> QED
    BY <2>1 DEF Inserted, Inserts
<1>3. CASE Rollback(r)
  BY <1>2, <1>3, KeysAreKept DEF Rollback
<1>4. CASE Commit(r)
  <2>1. ReferencesOf(transactions') = ReferencesOf(transactions) \cup Inserted(r)
    BY <1>4 DEF Commit, ReferencesOf, Inserted
  <2>2. KeysAreExclusive'
    BY <1>2 DEF KeysInv, KeysAreExclusive
  <2>3. KeysAreFresh'
    BY <1>2, <2>1 DEF KeysInv, KeysAreFresh, KeysAreExclusive, ReferencesOf
  <2> QED
    BY <2>2, <2>3 DEF KeysInv
<1> QED
  BY <1>3, <1>4

(***************************************************************************)
(* What a commit makes visible: the planned rows, under new references.    *)
(***************************************************************************)
LEMMA CommitRecords ==
    ASSUME LedgerInv, KeysInv, NEW r \in Requests, Commit(r)
    PROVE  /\ transactions' = transactions \cup {s.row : s \in Inserts(Planned(r))}
           /\ \A s \in Inserts(Planned(r)) :
                 s.row.reference \notin ReferencesOf(transactions)
<1>1. Executed(r) = Planned(r)
  BY ExecutedArePlanned DEF Commit, LedgerInv
<1> QED
  BY <1>1 DEF Commit, Inserted, KeysInv, KeysAreFresh

LEMMA CommitMoves ==
    ASSUME LedgerInv, NEW r \in Requests, Commit(r), NEW a \in Accounts
    PROVE  /\ (\A s \in Updates(Planned(r)) : s.account # a) => balances'[a] = balances[a]
           /\ \A s \in Updates(Planned(r)) :
                 /\ s.account = a
                 /\ \A u \in Updates(Planned(r)) : u.account = a => u = s
                 => s.read = balances[a] /\ balances'[a].balance = s.row.balance
<1>1. \A s \in Updates(Planned(r)) : s.account = a => a \in Locked(r)
  <2>1. Executed(r) = Planned(r)
    BY ExecutedArePlanned DEF Commit, LedgerInv
  <2> QED
    BY <2>1 DEF Locked
<1>2. \A s \in Updates(Planned(r)) : Stored(s).balance = s.row.balance
  <2>1. \A s \in Updates(Planned(r)) : s.row \in Row
    BY ExecutedArePlanned DEF LedgerInv, Updates, Statement
  <2> QED
    BY <2>1 DEF Stored, Row
<1> QED
  BY <1>1, <1>2, CommitStores

-----------------------------------------------------------------------------
(***************************************************************************)
(* Sums over the journal.  Total folds over a set in the order of Chosen,  *)
(* by a recursive function on the subsets of that set; Sums says that g is *)
(* such a function.  That there is one, and only one, follows from a       *)
(* smallest counterexample (MinimalSubset), and so does everything else    *)
(* that would be proved by induction on the set.                           *)
(***************************************************************************)
Chosen(s) == CHOOSE x \in s : TRUE

AddedTo(g, s) == IF s = {} THEN 0 ELSE Chosen(s).amount + g[s \ {Chosen(s)}]

Sums(g, U) == g = [s \in SUBSET U |-> AddedTo(g, s)]

LEMMA TotalIsChosen ==
    ASSUME NEW U
    PROVE  Total(U) = (CHOOSE g : Sums(g, U))[U]
BY DEF Total, MapThenSumSet, MapThenFoldSet, Sums, Chosen, AddedTo

LEMMA MinimalSubset ==
    ASSUME NEW S, IsFiniteSet(S), NEW F, F \subseteq SUBSET S, F # {}
    PROVE  \E s \in F : \A t \in F : t \subseteq s => t = s
<1>1. IsWellFoundedOn(StrictSubsetOrdering(S), SUBSET S)
  BY FS_FiniteSubsetsOfFinite, FS_StrictSubsetOrderingWellFounded
<1>2. \E s \in F : \A t \in F : ~ (<<t, s>> \in StrictSubsetOrdering(S))
  BY <1>1, WFMin
<1> QED
  BY <1>2 DEF StrictSubsetOrdering

LEMMA ChosenIsIn == ASSUME NEW s, s # {} PROVE Chosen(s) \in s
BY DEF Chosen

(***************************************************************************)
(* Two such functions agree where both are defined.                        *)
(***************************************************************************)
LEMMA SumsAgree ==
    ASSUME NEW U, NEW V, NEW g, NEW h, Sums(g, U), Sums(h, V),
           NEW s, s \subseteq U, s \subseteq V, IsFiniteSet(s)
    PROVE  g[s] = h[s]
<1> SUFFICES ASSUME g[s] # h[s] PROVE FALSE
  OBVIOUS
<1> DEFINE F == {t \in SUBSET s : g[t] # h[t]}
<1>1. PICK t \in F : \A u \in F : u \subseteq t => u = t
  <2>1. F \subseteq SUBSET s /\ s \in F
    OBVIOUS
  <2> HIDE DEF F
  <2> QED
    BY <2>1, MinimalSubset
<1>2. t \in SUBSET U /\ t \in SUBSET V
  OBVIOUS
<1>3. g[t] = AddedTo(g, t) /\ h[t] = AddedTo(h, t)
  BY <1>2, Zenon DEF Sums
<1>4. t # {}
  BY <1>1, <1>3 DEF AddedTo
<1> DEFINE u == t \ {Chosen(t)}
<1>5. u \subseteq t /\ u # t
  BY <1>4, ChosenIsIn
<1>6. g[u] = h[u]
  BY <1>1, <1>5
<1> QED
  BY <1>1, <1>3, <1>4, <1>6 DEF AddedTo

(***************************************************************************)
(* Every finite set has one, put together from those of its subsets.       *)
(***************************************************************************)
LEMMA SumsExist ==
    ASSUME NEW U, IsFiniteSet(U)
    PROVE  \E g : Sums(g, U)
<1> SUFFICES ASSUME ~ \E g : Sums(g, U) PROVE FALSE
  OBVIOUS
<1> DEFINE F == {t \in SUBSET U : ~ \E g : Sums(g, t)}
<1>1. PICK t \in F : \A u \in F : u \subseteq t => u = t
  <2>1. F \subseteq SUBSET U /\ U \in F
    OBVIOUS
  <2> HIDE DEF F
  <2> QED
    BY <2>1, MinimalSubset
<1> DEFINE rest(s) == s \ {Chosen(s)}
           sums(s) == CHOOSE g : Sums(g, s)
           g == [s \in SUBSET t |->
                    IF s = {} THEN 0 ELSE Chosen(s).amount + sums(rest(s))[rest(s)]]
<1>2. ASSUME NEW s \in SUBSET t, s # {}
      PROVE  Sums(sums(rest(s)), rest(s)) /\ IsFiniteSet(rest(s))
  <2>1. rest(s) \in SUBSET U /\ rest(s) \subseteq t /\ rest(s) # t
    BY <1>2, ChosenIsIn
  <2>2. \E h : Sums(h, rest(s))
    BY <1>1, <2>1
  <2>3. IsFiniteSet(rest(s))
    BY <2>1, FS_Subset
  <2> QED
    BY <2>2, <2>3
<1>3. ASSUME NEW s \in SUBSET t, s # {}
      PROVE  g[rest(s)] = sums(rest(s))[rest(s)]
  <2> DEFINE u == rest(s)
             h == sums(u)
  <2>1. u \in SUBSET t /\ Sums(h, u) /\ IsFiniteSet(u)
    BY <1>2, <1>3
  <2>2. h[u] = AddedTo(h, u)
    <3>1. u \in SUBSET u
      OBVIOUS
    <3> HIDE DEF u, h
    <3> QED
      BY <2>1, <3>1, Zenon DEF Sums
  <2>3. g[u] = IF u = {} THEN 0 ELSE Chosen(u).amount + sums(rest(u))[rest(u)]
    <3> HIDE DEF u, sums
    <3> QED
      BY <2>1
  <2>4. CASE u = {}
    BY <2>2, <2>3, <2>4 DEF AddedTo
  <2>5. CASE u # {}
    <3>1. Sums(sums(rest(u)), rest(u)) /\ IsFiniteSet(rest(u))
      BY <1>2, <2>1, <2>5
    <3>2. rest(u) \subseteq u
      OBVIOUS
    <3>3. h[rest(u)] = sums(rest(u))[rest(u)]
      <4> HIDE DEF u, h, sums, rest
      <4> QED
        BY <2>1, <3>1, <3>2, SumsAgree
    <3>4. h[u] = Chosen(u).amount + h[rest(u)]
      <4> HIDE DEF u, h, sums
      <4> QED
        BY <2>2, <2>5 DEF AddedTo
    <3>5. g[u] = Chosen(u).amount + sums(rest(u))[rest(u)]
      BY <2>3, <2>5, Zenon
    <3> QED
      BY <3>3, <3>4, <3>5, Zenon
  <2>6. g[u] = h[u]
    BY <2>4, <2>5
  <2> QED
    BY <2>6
<1>4. ASSUME NEW s \in SUBSET t
      PROVE  g[s] = AddedTo(g, s)
  <2>1. CASE s = {}
    BY <2>1 DEF AddedTo
  <2>2. CASE s # {}
    <3>1. g[s] = Chosen(s).amount + sums(rest(s))[rest(s)]
      <4> HIDE DEF sums, rest
      <4> QED
        BY <2>2
    <3> QED
      <4> HIDE DEF sums, g
      <4> QED
        BY <1>3, <2>2, <3>1 DEF AddedTo
  <2> QED
    BY <2>1, <2>2
<1>5. Sums(g, t)
  <2>1. g = [s \in SUBSET t |-> g[s]]
    OBVIOUS
  <2> HIDE DEF g
  <2> QED
    BY <1>4, <2>1 DEF Sums
<1> QED
  BY <1>1, <1>5

(***************************************************************************)
(* So Total satisfies its recursive equation.                              *)
(***************************************************************************)
LEMMA TotalAddsChosen ==
    ASSUME NEW S, IsFiniteSet(S)
    PROVE  Total(S) = IF S = {} THEN 0
                      ELSE Chosen(S).amount + Total(S \ {Chosen(S)})
<1> DEFINE g == CHOOSE f : Sums(f, S)
           T == S \ {Chosen(S)}
           h == CHOOSE f : Sums(f, T)
<1>1. Sums(g, S)
  BY SumsExist
<1>2. IsFiniteSet(T)
  BY FS_Subset
<1>3. Sums(h, T)
  BY <1>2, SumsExist
<1>4. Total(S) = g[S] /\ Total(T) = h[T]
  BY TotalIsChosen
<1>5. g[S] = AddedTo(g, S)
  <2>1. S \in SUBSET S
    OBVIOUS
  <2> HIDE DEF g
  <2> QED
    BY <1>1, <2>1, Zenon DEF Sums
<1>6. g[T] = h[T]
  <2>1. T \subseteq S
    OBVIOUS
  <2> HIDE DEF g, h, T
  <2> QED
    BY <1>1, <1>2, <1>3, <2>1, SumsAgree
<1> HIDE DEF g, h
<1> QED
  BY <1>4, <1>5, <1>6 DEF AddedTo

LEMMA TotalEmpty == Total({}) = 0
BY FS_EmptySet, TotalAddsChosen

(***************************************************************************)
(* Sets of transactions: finitely many, with integer amounts.              *)
(***************************************************************************)
Valued(S) == IsFiniteSet(S) /\ \A t \in S : t.amount \in Int

LEMMA TotalType ==
    ASSUME NEW S, Valued(S)
    PROVE  Total(S) \in Int
<1> SUFFICES ASSUME Total(S) \notin Int PROVE FALSE
  OBVIOUS
<1> DEFINE F == {T \in SUBSET S : Total(T) \notin Int}
<1>1. PICK T \in F : \A U \in F : U \subseteq T => U = T
  <2>1. F \subseteq SUBSET S /\ S \in F
    OBVIOUS
  <2> HIDE DEF F
  <2> QED
    BY <2>1, MinimalSubset DEF Valued
<1> DEFINE c == Chosen(T)
<1>2. T # {}
  <2>1. Total(T) \notin Int /\ Total({}) \in Int
    BY TotalEmpty
  <2> QED
    BY <2>1, Zenon
<1>3. c \in T /\ c.amount \in Int
  BY <1>1, <1>2, ChosenIsIn DEF Valued
<1>4. Total(T) = c.amount + Total(T \ {c})
  <2>1. IsFiniteSet(T)
    BY FS_Subset DEF Valued
  <2> QED
    BY <1>2, <2>1, TotalAddsChosen
<1>5. Total(T \ {c}) \in Int
  BY <1>1, <1>3
<1> QED
  BY <1>1, <1>3, <1>4, <1>5

(***************************************************************************)
(* Whatever element is taken out, its amount goes with it.                *)
(***************************************************************************)
LEMMA TotalRemoves ==
    ASSUME NEW S, Valued(S), NEW t \in S
    PROVE  Total(S) = t.amount + Total(S \ {t})
<1> SUFFICES ASSUME Total(S) # t.amount + Total(S \ {t}) PROVE FALSE
  OBVIOUS
<1> DEFINE F == {T \in SUBSET S : \E x \in T : Total(T) # x.amount + Total(T \ {x})}
<1>1. PICK T \in F : \A U \in F : U \subseteq T => U = T
  <2>1. F \subseteq SUBSET S /\ S \in F
    OBVIOUS
  <2> HIDE DEF F
  <2> QED
    BY <2>1, MinimalSubset DEF Valued
<1>2. PICK x \in T : Total(T) # x.amount + Total(T \ {x})
  OBVIOUS
<1> DEFINE c == Chosen(T)
           rest == (T \ {x}) \ {c}
<1>3. \A U \in SUBSET S : Valued(U)
  BY FS_Subset DEF Valued
<1>4. Total(T) = c.amount + Total(T \ {c}) /\ c \in T
  BY <1>2, <1>3, TotalAddsChosen, ChosenIsIn DEF Valued
<1>5. x # c
  BY <1>2, <1>4
<1>6. Total(T \ {c}) = x.amount + Total((T \ {c}) \ {x})
  BY <1>1, <1>4, <1>5
<1>7. Total(T \ {x}) = c.amount + Total(rest)
  <2>1. (T \ {x}) \in SUBSET T /\ T \ {x} # T /\ c \in T \ {x}
    BY <1>2, <1>4, <1>5
  <2> QED
    BY <1>1, <2>1
<1>8. (T \ {c}) \ {x} = rest
  OBVIOUS
<1>9. c.amount \in Int /\ x.amount \in Int /\ Total(rest) \in Int
  BY <1>3, <1>4, TotalType DEF Valued
<1>10. Total(T) = c.amount + (x.amount + Total(rest))
  BY <1>4, <1>6, <1>8, Zenon
<1> HIDE DEF c, rest
<1>11. Total(T) = x.amount + Total(T \ {x})
  BY <1>7, <1>9, <1>10
<1> QED
  BY <1>2, <1>11

LEMMA TotalAdds ==
    ASSUME NEW S, Valued(S), NEW t, t \notin S, t.amount \in Int
    PROVE  Total(S \cup {t}) = Total(S) + t.amount
<1>1. Valued(S \cup {t})
  BY FS_AddElement DEF Valued
<1>2. (S \cup {t}) \ {t} = S
  OBVIOUS
<1>3. Total(S \cup {t}) = t.amount + Total(S)
  BY <1>1, <1>2, TotalRemoves
<1> QED
  BY <1>3, TotalType

(***************************************************************************)
(* Disjoint sets add up.                                                   *)
(***************************************************************************)
LEMMA TotalOfUnion ==
    ASSUME NEW S, NEW T, Valued(S), Valued(T), S \cap T = {}
    PROVE  Total(S \cup T) = Total(S) + Total(T)
<1> SUFFICES ASSUME Total(S \cup T) # Total(S) + Total(T) PROVE FALSE
  OBVIOUS
<1> DEFINE F == {U \in SUBSET T : Total(S \cup U) # Total(S) + Total(U)}
<1>1. PICK U \in F : \A V \in F : V \subseteq U => V = U
  <2>1. F \subseteq SUBSET T /\ T \in F
    OBVIOUS
  <2> HIDE DEF F
  <2> QED
    BY <2>1, MinimalSubset DEF Valued
<1>2. \A V \in SUBSET T : Valued(V) /\ Valued(S \cup V)
  BY FS_Subset, FS_Union DEF Valued
<1>3. PICK x : x \in U
  <2>1. S \cup {} = S /\ Total({}) = 0 /\ Total(S) \in Int
    BY TotalEmpty, TotalType
  <2>2. Total(S \cup U) # Total(S) + Total(U)
    OBVIOUS
  <2>3. U # {}
    <3> SUFFICES ASSUME U = {} PROVE FALSE
      OBVIOUS
    <3>1. S \cup U = S /\ Total(U) = 0
      BY <2>1, Zenon
    <3> QED
      BY <2>1, <2>2, <3>1
  <2> QED
    BY <2>3
<1> DEFINE V == U \ {x}
<1>4. Total(S \cup V) = Total(S) + Total(V)
  BY <1>1, <1>3
<1>5. Total(U) = x.amount + Total(V)
  BY <1>2, <1>3, TotalRemoves
<1>6. (S \cup U) \ {x} = S \cup V
  BY <1>3
<1>7. Total(S \cup U) = x.amount + Total(S \cup V)
  BY <1>2, <1>3, <1>6, TotalRemoves
<1>8. Total(S) \in Int /\ Total(V) \in Int /\ x.amount \in Int
  BY <1>2, <1>3, TotalType DEF Valued
<1> HIDE DEF V
<1> QED
  BY <1>1, <1>4, <1>5, <1>7, <1>8

LEMMA TotalOfNonNegative ==
    ASSUME NEW S, Valued(S), \A t \in S : t.amount >= 0
    PROVE  Total(S) \in Nat
<1> SUFFICES ASSUME Total(S) \notin Nat PROVE FALSE
  OBVIOUS
<1> DEFINE F == {T \in SUBSET S : Total(T) \notin Nat}
<1>1. PICK T \in F : \A U \in F : U \subseteq T => U = T
  <2>1. F \subseteq SUBSET S /\ S \in F
    OBVIOUS
  <2> HIDE DEF F
  <2> QED
    BY <2>1, MinimalSubset DEF Valued
<1> DEFINE c == Chosen(T)
<1>2. T # {}
  <2>1. Total(T) \notin Nat /\ Total({}) \in Nat
    BY TotalEmpty
  <2> QED
    BY <2>1, Zenon
<1>3. c \in T /\ c.amount \in Nat
  BY <1>1, <1>2, ChosenIsIn DEF Valued
<1>4. Total(T) = c.amount + Total(T \ {c})
  <2>1. IsFiniteSet(T)
    BY FS_Subset DEF Valued
  <2> QED
    BY <1>2, <2>1, TotalAddsChosen
<1>5. Total(T \ {c}) \in Nat
  BY <1>1, <1>3
<1> QED
  BY <1>1, <1>3, <1>4, <1>5

(***************************************************************************)
(* A part of the journal grows by the amount of the new row, if the row    *)
(* belongs to it.                                                          *)
(***************************************************************************)
LEMMA PartGrows ==
    ASSUME NEW A, Valued(A), NEW t, t \notin A, t.amount \in Int,
           NEW B \in SUBSET A, NEW C, C \in {B, B \cup {t}}
    PROVE  /\ Total(B) \in Int
           /\ Total(C) = Total(B) + (IF t \in C THEN t.amount ELSE 0)
<1>1. Valued(B)
  BY FS_Subset DEF Valued
<1>2. Total(B) \in Int
  BY <1>1, TotalType
<1>3. CASE C = B
  BY <1>2, <1>3
<1>4. CASE C = B \cup {t}
  BY <1>1, <1>2, <1>4, TotalAdds
<1> QED
  BY <1>2, <1>3, <1>4

(***************************************************************************)
(* What a new row adds to the sum over the rows that come to an account.   *)
(***************************************************************************)
LEMMA RowAddsTo ==
    ASSUME NEW S, Valued(S), NEW t, t \notin S, t.amount \in Int, NEW a
    PROVE  Total(To(a, S \cup {t})) =
                 Total(To(a, S)) + (IF t.destination = a THEN t.amount ELSE 0)
<1> DEFINE B == To(a, S)
           C == To(a, S \cup {t})
<1>1. B \in SUBSET S /\ C \in {B, B \cup {t}} /\ (t \in C <=> t.destination = a)
  BY DEF To
<1> HIDE DEF B, C
<1>2. Total(C) = Total(B) + (IF t \in C THEN t.amount ELSE 0)
  BY <1>1, PartGrows
<1> QED
  BY <1>1, <1>2 DEF B, C

(***************************************************************************)
(* What a new row adds to the sum over the rows that leave an account.     *)
(***************************************************************************)
LEMMA RowAddsFrom ==
    ASSUME NEW S, Valued(S), NEW t, t \notin S, t.amount \in Int, NEW a
    PROVE  Total(From(a, S \cup {t})) =
                 Total(From(a, S)) + (IF t.source = a THEN t.amount ELSE 0)
<1> DEFINE B == From(a, S)
           C == From(a, S \cup {t})
<1>1. B \in SUBSET S /\ C \in {B, B \cup {t}} /\ (t \in C <=> t.source = a)
  BY DEF From
<1> HIDE DEF B, C
<1>2. Total(C) = Total(B) + (IF t \in C THEN t.amount ELSE 0)
  BY <1>1, PartGrows
<1> QED
  BY <1>1, <1>2 DEF B, C

(***************************************************************************)
(* The sums over the rows of one account are integers.                     *)
(***************************************************************************)
LEMMA SidesAreSums ==
    ASSUME NEW S, Valued(S), NEW a
    PROVE  Total(To(a, S)) \in Int /\ Total(From(a, S)) \in Int
<1>1. Valued(To(a, S)) /\ Valued(From(a, S))
  BY FS_Subset DEF Valued, To, From
<1> QED
  BY <1>1, TotalType

(***************************************************************************)
(* Adding a row keeps a finite set of rows with integer amounts.           *)
(***************************************************************************)
LEMMA ValuedAdds ==
    ASSUME NEW S, Valued(S), NEW t, t.amount \in Int
    PROVE  Valued(S \cup {t})
BY FS_AddElement DEF Valued
=============================================================================
