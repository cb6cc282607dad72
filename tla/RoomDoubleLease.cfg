SPECIFICATION Spec
CONSTANTS
    Rooms = {r1}
    Tenants = {t1}
    Leases = {l1, l2}
    Repairs = {m1}
    Reqs = {q1, q2}
    Properties = {p1}
    p1 = p1
    PropertyOf <- MCPropertyOf
    Lossy = {}
    None = None
SYMMETRY MCSymmetry
CHECK_DEADLOCK FALSE
INVARIANT OneOpenLeasePerRoom
