\* Payments and their refunds, refunds of refunds and repeated requests, one
\* worker; everything may fail.  Checkout sessions of 412 centimes are held by
\* the tables as sessions of -100.
CONSTANTS
    alice = alice
    shop = shop
    r1 = r1
    r2 = r2
    r3 = r3
    r4 = r4
    w1 = w1
    w2 = w2
    Customers = {alice}
    Merchants = {shop}
    World = World
    Revenue = Revenue
    None = None
    Texts = {}
    ClientRefs = {}
    Amounts = {100, 412}
    HalfWord = 256
    Opening <- MCOpening
    Requests = {r1, r2, r3, r4, w1}
    Workers = {w1}
    Unreliable = {r1, r2, r3, r4, w1}
SPECIFICATION Spec
SYMMETRY Symmetric
INVARIANTS
    TypeOK
    JournalExplainsBalances
    RefundsMatchRequests
    MerchantsCanRefund
PROPERTIES
    NoLostUpdate
    PayersCanPay
    ImplementsAtomic
