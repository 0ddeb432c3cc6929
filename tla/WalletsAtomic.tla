---------------------------- MODULE WalletsAtomic ----------------------------
(***************************************************************************)
(* What the wallet service promises: every request that succeeds takes     *)
(* effect in one step, on the balances of that moment, or not at all.      *)
(* There are no versions, locks, plans or half-finished requests here.     *)
(***************************************************************************)
EXTENDS Accounting

CONSTANTS MaxTopupAmount, MaxWithdrawalAmount, MaxTransferAmount, EventSeqs

VARIABLES
    money,      \* available, inflight credit and inflight debit centimes
    journal,    \* the transactions recorded
    initiated,  \* payments and payouts asked of the gateway
    processed   \* gateway events acted upon

vars == <<money, journal, initiated, processed>>

Money == [balance: Int64s, credit: Int64s, debit: Int64s]

Init ==
    /\ money = [a \in Accounts |-> [balance |-> Opening[a], credit |-> 0, debit |-> 0]]
    /\ journal = {}
    /\ initiated = {}
    /\ processed = {}

Journalled(reference) == \E t \in journal : t.reference = reference

Initiate(prefix, r) ==
    /\ initiated' = initiated \cup {[prefix |-> prefix, ref |-> r]}
    /\ UNCHANGED <<money, journal, processed>>

(***************************************************************************)
(* A new transaction enters the journal with its effect on the balances.   *)
(***************************************************************************)
Post(t, moved) ==
    /\ ~ Journalled(t.reference)
    /\ journal' = journal \cup {t}
    /\ money' = moved

RequestTopup(r, a, m) ==
    /\ m <= MaxTopupAmount
    /\ [prefix |-> "topup", ref |-> r] \in initiated
    /\ Post(Transfers(Reference("topup", r), World, a, m, "inflight"),
            [money EXCEPT ![a].credit = Int64(@ + m)])
    /\ UNCHANGED <<initiated, processed>>

ReserveWithdrawal(r, a, m) ==
    /\ m <= MaxWithdrawalAmount
    /\ m <= money[a].balance
    /\ [prefix |-> "withdrawal", ref |-> r] \in initiated
    /\ Post(Transfers(Reference("withdrawal", r), a, World, m, "inflight"),
            [money EXCEPT ![a].balance = Int64(@ - m), ![a].debit = Int64(@ + m)])
    /\ UNCHANGED <<initiated, processed>>

Transfer(a, to, m, ref) ==
    /\ m <= MaxTransferAmount
    /\ m <= money[a].balance
    /\ a # to
    /\ Post(Transfers(ref, a, to, m, "applied"),
            [money EXCEPT ![a].balance = Int64(@ - m), ![to].balance = Int64(@ + m)])
    /\ UNCHANGED <<initiated, processed>>

(***************************************************************************)
(* An event settles the inflight transaction it names: the money arrives   *)
(* or leaves for good, or the reservation is undone.                       *)
(***************************************************************************)
Settled(e, p) ==
    CASE e.prefix = "topup" /\ e.status = "succeeded" ->
            [money EXCEPT ![p.destination].credit = Int64(@ - p.amount),
                          ![p.destination].balance = Int64(@ + p.amount)]
      [] e.prefix = "topup" /\ e.status = "failed" ->
            [money EXCEPT ![p.destination].credit = Int64(@ - p.amount)]
      [] e.prefix = "withdrawal" /\ e.status = "succeeded" ->
            [money EXCEPT ![p.source].debit = Int64(@ - p.amount)]
      [] e.prefix = "withdrawal" /\ e.status = "failed" ->
            [money EXCEPT ![p.source].debit = Int64(@ - p.amount),
                          ![p.source].balance = Int64(@ + p.amount)]

Settle(r, e) ==
    /\ e \notin processed
    /\ processed' = processed \cup {e}
    /\ \E p \in journal :
          /\ p.reference = Reference(e.prefix, e.ref)
          /\ p.status = "inflight"
          /\ Post(SettlementOf(p, Reference(e.prefix, r),
                               IF e.status = "succeeded" THEN "applied" ELSE "void"),
                  Settled(e, p))
    /\ UNCHANGED initiated

Event == [prefix: {"topup", "withdrawal"}, ref: Requests,
          status: {"succeeded", "failed"}, seq: EventSeqs]

Next ==
    \E r \in Requests :
        \/ \E prefix \in {"topup", "withdrawal"} : Initiate(prefix, r)
        \/ \E a \in Customers, m \in Amounts :
              RequestTopup(r, a, m) \/ ReserveWithdrawal(r, a, m)
        \/ \E a, to \in Customers, m \in Amounts, ref \in ClientRefs :
              Transfer(a, to, m, ref)
        \/ \E e \in Event : Settle(r, e)

Spec == Init /\ [][Next]_vars
=============================================================================
