SPECIFICATION HistorySpec
CONSTANTS
    Values = {v1, v2}
    Reqs = {q1, q2}
    MaxVersion = 3
    Blank = Blank
    None = None
SYMMETRY MCSymmetry
CHECK_DEADLOCK FALSE
INVARIANT EditsHonoured
PROPERTY RemovedStays
