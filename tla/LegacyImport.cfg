SPECIFICATION Spec
CONSTANTS
    o1 = o1
    e1 = e1
    Owners = {o1}
    Author = Author
    OwnerOf <- MCOwnerOf
    r1 = r1
    r2 = r2
    n1 = n1
    n2 = n2
    d1 = d1
    s1 = s1
    Estates = {e1}
    Rooms = {r1, r2}
    Rents = {n1, n2}
    Readings = {d1}
    Schedules = {s1}
    Tenants = {1, 2}
    EstateOf <- MCEstateOf
    RoomOf <- MCRoomOf
    LinkedTenants <- MCLinkedTenants
    StartDate <- MCStartDate
    EndDate <- MCEndDate
    MonthStart <- MCMonthStart
    MonthEnd <- MCMonthEnd
    Enabled = {n2}
    Stopped = {}
    Periods = {1}
    Bad = {r2}
    Jobs = {j1, j2}
    AppLeases = {l1}
    Days = {3}
    None = None
SYMMETRY MCSymmetry
CONSTRAINT MCBounds
CHECK_DEADLOCK FALSE
INVARIANT NothingRepeated
INVARIANT ImportFaithful
INVARIANT RoomsFollowLeases
PROPERTY SignOffSound
