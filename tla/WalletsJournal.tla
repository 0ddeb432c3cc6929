--------------------------- MODULE WalletsJournal ---------------------------
(***************************************************************************)
(* The wallet's two tables audited against each other: what the rows of    *)
(* transactions say must be what the rows of balances hold.                *)
(***************************************************************************)
EXTENDS Wallets, Audit

Children == {t \in transactions : t.parent # None}
ChildrenOf(p) == {t \in transactions : t.parent = p.reference}

Requested == {t \in transactions : t.status = "inflight"}

With(status, ts) == {t \in ts : t.status = status}

(***************************************************************************)
(* JournalExplainsBalances: at every moment the committed balances of a    *)
(* customer are the opening balance plus what the committed transactions   *)
(* moved: nothing is applied without being recorded, recorded without      *)
(* being applied, or applied twice, whatever interleaves or fails.  Sums   *)
(* beyond an int64 agree in their low 64 bits.                             *)
(***************************************************************************)
Moved(a) ==
    Total(To(a, With("applied", transactions)))
        + Total(From(a, With("void", Children)))
        - Total(From(a, With("applied", transactions \ Children)))
        - Total(From(a, Requested))

JournalExplainsBalances ==
    \A a \in Customers :
        /\ balances[a].balance = Int64(Opening[a] + Moved(a))
        /\ balances[a].credit = Int64(Total(To(a, Requested)) - Total(To(a, Children)))
        /\ balances[a].debit = Int64(Total(From(a, Requested)) - Total(From(a, Children)))

(***************************************************************************)
(* What GetTransactionHistory calls a debit and what a credit.             *)
(***************************************************************************)
Debits(a, ts) == From(a, ts)
Credits(a, ts) == To(a, ts) \ From(a, ts)

(***************************************************************************)
(* HistoryAddsUp: what GET /wallet/transactions lists adds up to what GET  *)
(* /wallet answers, plus what a withdrawal in flight has reserved.         *)
(***************************************************************************)
HistoryAddsUp ==
    \A a \in Customers :
        balances[a].balance + balances[a].debit =
            Opening[a] + Total(Credits(a, History(a))) - Total(Debits(a, History(a)))

(***************************************************************************)
(* SettlementsMatchEvents: an event, delivered any number of times and     *)
(* concurrently, settles its transaction exactly once, and nothing else    *)
(* does.                                                                   *)
(***************************************************************************)
EventsOf(p, status) ==
    {e \in events : ParentReference(e) = p.reference /\ SettledStatus(e.status) = status}

SettlementsMatchEvents ==
    /\ \A p \in Requested, status \in {"applied", "void"} :
          Cardinality(With(status, ChildrenOf(p))) = Cardinality(EventsOf(p, status))
    /\ \A e \in events : \E p \in Requested : ParentReference(e) = p.reference

(***************************************************************************)
(* What makes the audit inductive: a request for money is a top-up from    *)
(* the world or a withdrawal to it, a settlement follows the request it    *)
(* names, and nobody transfers to itself or pays the platform.             *)
(***************************************************************************)
RequestsAreWellFormed ==
    \A p \in Requested :
        /\ p.parent = None
        /\ \/ /\ p.reference.prefix = "topup"
              /\ p.source = World /\ p.destination \in Customers
           \/ /\ p.reference.prefix = "withdrawal"
              /\ p.source \in Customers /\ p.destination = World

SettlementsFollowRequests ==
    /\ \A t \in Children : \E p \in Requested : t.parent = p.reference
    /\ With("void", transactions) \subseteq Children

EndsDiffer ==
    \A t \in transactions : t.source # t.destination /\ t.destination # Revenue

ReferencesAreUnique ==
    \A s, t \in transactions : s.reference = t.reference => s = t

AuditInv ==
    /\ IsFiniteSet(transactions) /\ IsFiniteSet(events)
    /\ ReferencesAreUnique
    /\ RequestsAreWellFormed
    /\ SettlementsFollowRequests
    /\ EndsDiffer
    /\ JournalExplainsBalances
    /\ SettlementsMatchEvents

(***************************************************************************)
(* SettledOnce: "topup already completed" (service.go:23) is the answer to *)
(* a second success of one payment, which moves its money once.            *)
(***************************************************************************)
SettledOnce == \A p \in Requested : Cardinality(With("applied", ChildrenOf(p))) <= 1

(***************************************************************************)
(* PayoutBacked: a withdrawal that failed has not sent money out: the      *)
(* gateway was asked for a payout only when the funds were reserved.       *)
(***************************************************************************)
PayoutBacked ==
    \A s \in sessions :
        s.prefix = "withdrawal" /\ pc[s.ref] \in Ended =>
            \E t \in Requested : t.reference = Reference(s.prefix, s.ref)
=============================================================================
