\* A second request for a payment that is already refunded.
CONSTANTS
    alice = alice
    shop = shop
    r1 = r1
    r2 = r2
    r3 = r3
    r4 = r4
    w1 = w1
    w2 = w2
    Customers = {alice}
    Merchants = {shop}
    World = World
    Revenue = Revenue
    None = None
    Texts = {}
    ClientRefs = {}
    Amounts = {100}
    HalfWord = 512
    Opening <- RichShop
    Requests = {r1, r2, r3, w1}
    Workers = {w1}
    Unreliable = {}
SPECIFICATION FairSpec
PROPERTIES
    RefundsDecided
