\* A registration whose mail fails; nothing else does.
CONSTANTS
    r1 = r1
    r2 = r2
    r3 = r3
    r4 = r4
    Requests = {r1, r2}
    Emails = {e, f}
    BusinessNames = {shop}
    Unreliable = {}
    Visits = {v}
SPECIFICATION AccessSpec
INVARIANTS
    RegisteredExists
