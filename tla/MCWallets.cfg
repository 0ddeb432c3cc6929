\* Top-ups, withdrawals and transfers of two customers with the deliveries of
\* their webhooks: each status at most once, but delivered any number of times.
\* One amount is negative, a balance of two centimes is more than its word
\* holds, and the references of transfers look like those of top-ups.
CONSTANTS
    alice = alice
    bob = bob
    shop = shop
    r1 = r1
    r2 = r2
    r3 = r3
    Customers = {alice, bob}
    Merchants = {shop}
    World = World
    Revenue = Revenue
    None = None
    Amounts <- SignedAmounts
    HalfWord = 2
    Opening <- MCOpening
    Requests = {r1, r2, r3}
    Texts = {}
    ClientRefs <- LookalikeRefs
    MaxTopupAmount = 1
    MaxWithdrawalAmount = 1
    MaxTransferAmount = 1
    EventSeqs = {1}
SPECIFICATION Spec
SYMMETRY Symmetric
INVARIANTS
    TypeOK
    VersionsGuardReads
    JournalExplainsBalances
    SettlementsMatchEvents
PROPERTIES
    NoLostUpdate
    PayersCanPay
    ImplementsAtomic
