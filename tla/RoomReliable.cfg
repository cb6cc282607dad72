SPECIFICATION FairSpec
CONSTANTS
    Rooms = {r1, r2}
    Tenants = {t1, t2}
    Leases = {l1, l2}
    Repairs = {m1}
    Reqs = {q1}
    Properties = {p1}
    p1 = p1
    PropertyOf <- MCPropertyOf
    Lossy = {}
    None = None
CHECK_DEADLOCK FALSE
PROPERTY ImplementsTenancy
PROPERTY LetRoomBecomesOccupied
