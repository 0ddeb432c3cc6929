----------------------------- MODULE Deliveries ------------------------------
(***************************************************************************)
(* The wallet service and a gateway that delivers an event again until it  *)
(* has seen a 200, while clients compete with the deliveries for the rows. *)
(* A delivery that fails leaves nothing behind; one that commits may still *)
(* be answered with an error, or its answer be lost.                       *)
(***************************************************************************)
EXTENDS Wallets, FiniteSets

CONSTANTS
    Deliverers,     \* the requests that deliver events, the others are clients
    Outcomes,       \* the events the gateway may have to send
    MaxFaults       \* bound: deliveries that fail without being blocked

ASSUME DeliverersAssumption == Deliverers \subseteq Requests
ASSUME OutcomesAssumption ==
    \A e \in Outcomes : e \in Event /\ e.ref \notin Deliverers /\ KnownStatus(e.status)
ASSUME FaultsAssumption == MaxFaults \in Nat

VARIABLES
    sent,           \* events that the gateway has to deliver
    acknowledged,   \* those it has seen answered with 200
    faults          \* how many deliveries have failed without being blocked

gatewayVars == <<sent, acknowledged, faults>>
deliveryVars == <<vars, gatewayVars>>

Clients == Requests \ Deliverers

DeliveriesInit ==
    /\ Init
    /\ sent = {}
    /\ acknowledged = {}
    /\ faults = 0

-----------------------------------------------------------------------------
(***************************************************************************)
(* The gateway comes to know an outcome of a payment or payout.  Bound: no *)
(* more events than deliverers, as a settlement keeps its deliverer's id.  *)
(***************************************************************************)
Emit(e) ==
    /\ SessionOf(e) \in sessions
    /\ e \notin sent
    /\ Cardinality(sent) < Cardinality(Deliverers)
    /\ sent' = sent \cup {e}
    /\ UNCHANGED <<vars, acknowledged, faults>>

DueEvents == sent \ acknowledged

Deliver(e) ==
    /\ e \in DueEvents
    /\ \E d \in Deliverers : pc[d] = "idle"
    /\ Webhook(CHOOSE d \in Deliverers : pc[d] = "idle", e)
    /\ UNCHANGED gatewayVars

(***************************************************************************)
(* TopupWebhook and PayoutWebhook of the handler answer 200 if the service *)
(* returned nil.  After the commit of a failure event it returns           *)
(* ErrGatewayFailure instead, a 500.                                       *)
(***************************************************************************)
AnsweredOk(e) == e.status = "succeeded"

FinishDelivery(d) ==
    /\ Finish(d)
    /\ \/ acknowledged' = acknowledged
       \/ AnsweredOk(call[d].event) /\ acknowledged' = acknowledged \cup {call[d].event}
    /\ UNCHANGED <<sent, faults>>

StepDelivery(d) ==
    \/ (MarkProcessed(d) \/ AlreadyProcessed(d)) /\ UNCHANGED gatewayVars
    \/ (TopupWebhookRead(d) \/ PayoutWebhookRead(d)) /\ UNCHANGED gatewayVars
    \/ Statements(d) /\ UNCHANGED gatewayVars
    \/ FinishDelivery(d)

FailDelivery(d) ==
    /\ faults < MaxFaults
    /\ Fail(d)
    /\ faults' = faults + 1
    /\ UNCHANGED <<sent, acknowledged>>

(***************************************************************************)
(* After an answer other than 200 the deliverer is free for the next       *)
(* delivery, of this event or another.                                     *)
(***************************************************************************)
Again(d) ==
    /\ pc[d] = "failed"
    /\ pc' = [pc EXCEPT ![d] = "idle"]
    /\ UNCHANGED <<balances, transactions, plan, step, call, sessions, events>>
    /\ UNCHANGED gatewayVars

-----------------------------------------------------------------------------
StartClient(r) ==
    /\ \/ \E a \in Customers, m \in Amounts : Topup(r, a, m) \/ Withdraw(r, a, m)
       \/ \E a \in Customers, to \in Customers, m \in Amounts,
             ref \in ClientRefs : Transfer(r, a, to, m, ref)
    /\ UNCHANGED gatewayVars

StepClient(r) == Step(r) /\ UNCHANGED gatewayVars

TimeoutOf(r) == Timeout(r) /\ UNCHANGED gatewayVars

DeliveriesTerminating ==
    /\ \A r \in Requests : pc[r] \in {"idle"} \cup Ended
    /\ UNCHANGED deliveryVars

DeliveriesNext ==
    \/ \E r \in Clients : \/ StartClient(r) \/ StepClient(r)
                          \/ Fail(r) /\ UNCHANGED gatewayVars
    \/ \E d \in Deliverers : StepDelivery(d) \/ FailDelivery(d) \/ Again(d)
    \/ \E d \in Deliverers : TimeoutOf(d)
    \/ \E e \in Outcomes : Emit(e) \/ Deliver(e)
    \/ DeliveriesTerminating

(***************************************************************************)
(* Running requests get on, blocked ones time out, and the gateway does    *)
(* not stop delivering an event that is due: strong fairness, because what *)
(* disables a delivery is only the number of deliverers, and whether the   *)
(* transaction it names is committed.                                      *)
(***************************************************************************)
Fairness ==
    /\ \A r \in Clients : WF_deliveryVars(StepClient(r) \/ TimeoutOf(r))
    /\ \A d \in Deliverers :
          WF_deliveryVars(StepDelivery(d) \/ TimeoutOf(d) \/ Again(d))
    /\ \A e \in Outcomes : SF_deliveryVars(Deliver(e))

DeliveriesSpec == DeliveriesInit /\ [][DeliveriesNext]_deliveryVars /\ Fairness

-----------------------------------------------------------------------------
(***************************************************************************)
(* RequestsTerminate: every accepted request is answered, although two     *)
(* transfers in opposite directions may wait for each other's rows and two *)
(* deliveries of one event for each other's commit.                        *)
(***************************************************************************)
RequestsTerminate ==
    \A r \in Requests : pc[r] # "idle" ~> pc[r] \in Ended

(***************************************************************************)
(* OutcomesArrive: once a top-up or withdrawal is committed and the        *)
(* gateway has an outcome to deliver, the money is settled, although any   *)
(* delivery may conflict with other requests, time out or fail half way:   *)
(* what is rolled back includes the mark of its event (MarkProcessed).     *)
(***************************************************************************)
Settlements(e) ==
    {t \in transactions : /\ t.parent = ParentReference(e)
                          /\ t.status = SettledStatus(e.status)}

IsRequested(e) ==
    \E p \in transactions : p.reference = ParentReference(e) /\ p.status = "inflight"

OutcomesArrive ==
    \A e \in Outcomes :
        (e \in sent /\ IsRequested(e)) ~> Settlements(e) # {}

(***************************************************************************)
(* RecordedAreSettled: an event that the gateway will not get through      *)
(* again, because it has seen a 200 or because the event is marked as      *)
(* processed, has settled its transaction with the outcome it reports:     *)
(* whatever fails half way, is repeated or competes for the row, no        *)
(* outcome is taken without its money.                                     *)
(***************************************************************************)
RecordedAreSettled == \A e \in events \cup acknowledged : Settlements(e) # {}

(***************************************************************************)
(* EventsAreAcknowledged: each event is answered with 200 in the end.      *)
(***************************************************************************)
EventsAreAcknowledged == \A e \in Outcomes : e \in events ~> e \in acknowledged
=============================================================================
