SPECIFICATION HistorySpec
CONSTANTS
    N = 3
    Properties = {p1, p2}
    Roles = {"admin", "staff", "owner"}
    MaxKey = 2
    Limit = 1
    MaxChanges = 1
    Absent = Absent
SYMMETRY MCSymmetry
CHECK_DEADLOCK FALSE
INVARIANT ListedIsReachable
INVARIANT WalkComplete
