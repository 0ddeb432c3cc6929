\* A payment settled by two gateway events.
CONSTANTS
    alice = alice
    bob = bob
    shop = shop
    r1 = r1
    r2 = r2
    r3 = r3
    Customers = {alice}
    Merchants = {shop}
    World = World
    Revenue = Revenue
    None = None
    Amounts = {1}
    Opening <- MCOpening
    Requests = {r1, r2, r3}
    HalfWord = 100
    Texts = {}
    ClientRefs = {}
    MaxTopupAmount = 1
    MaxWithdrawalAmount = 0
    MaxTransferAmount = 0
    EventSeqs = {1, 2}
SPECIFICATION Spec
INVARIANTS
    SettledOnce
