\* Two users with one key, two bodies and two routes; one request is unreliable.
CONSTANTS
    r1 = r1
    r2 = r2
    r3 = r3
    Requests = {r1, r2, r3}
    Users = {u, v}
    Keys = {k}
    Routes = {pay1, pay2}
    Bodies = {a, b}
    Unreliable = {r1}
SPECIFICATION Spec
SYMMETRY Symmetric
INVARIANTS
    ReplaysAreFaithful
    RepeatsOverlap
