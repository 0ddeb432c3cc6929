\* One user sends one request and its retry; nothing fails.
CONSTANTS
    r1 = r1
    r2 = r2
    r3 = r3
    Requests = {r1, r2}
    Users = {u}
    Keys = {k}
    Routes = {pay}
    Bodies = {a}
    Unreliable = {}
SPECIFICATION Spec
INVARIANTS
    ExecutedOnce
