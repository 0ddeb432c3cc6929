\* Registrations of two addresses and one business name, activations of their
\* users, logins and requests; one registration or activation is unreliable.
CONSTANTS
    r1 = r1
    r2 = r2
    r3 = r3
    r4 = r4
    Requests = {r1, r2, r3, r4}
    Emails = {e, f}
    BusinessNames = {shop}
    Unreliable = {r1}
    Visits = {v}
SPECIFICATION AccessSpec
SYMMETRY Symmetric
INVARIANTS
    AccessTypeOK
    ActiveUsersHaveWallets
    NoOrphans
    InvitedUsersAreInactive
    FailedCustomersAreGone
    TokensNameUsers
    AdmittedAreServed
