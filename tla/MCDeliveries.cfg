\* Two clients, whose transfers may cross, and the deliveries of the events
\* about their top-ups and withdrawals, under the fairness of running requests,
\* of timeouts and of the gateway.
CONSTANTS
    alice = alice
    bob = bob
    shop = shop
    r1 = r1
    r2 = r2
    d1 = d1
    d2 = d2
    x = x
    y = y
    Customers = {alice, bob}
    Merchants = {shop}
    World = World
    Revenue = Revenue
    None = None
    Amounts = {1}
    HalfWord = 2
    Opening <- MCOpening
    Requests = {r1, r2, d1, d2}
    Deliverers = {d1, d2}
    Outcomes <- MCOutcomes
    MaxFaults = 1
    Texts = {x, y}
    ClientRefs <- OwnRefs
    MaxTopupAmount = 1
    MaxWithdrawalAmount = 1
    MaxTransferAmount = 1
    EventSeqs = {1}
SPECIFICATION DeliveriesSpec
INVARIANTS
    RecordedAreSettled
PROPERTIES
    RequestsTerminate
    OutcomesArrive
