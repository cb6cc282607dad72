SPECIFICATION HistorySpec
CONSTANTS
    Rooms = {r1}
    Tenants = {t1}
    Leases = {l1, l2}
    Repairs = {m1, m2}
    Reqs = {q1, q2}
    Properties = {p1}
    p1 = p1
    PropertyOf <- MCPropertyOf
    Lossy = {q1, q2}
    None = None
SYMMETRY MCSymmetry
CHECK_DEADLOCK FALSE
INVARIANT MaintenanceHasRepair
INVARIANT OccupancyUnlessOverlapped
PROPERTY TenancyUnlessOverlapped
