SPECIFICATION ReportSpec
CONSTANTS
    Months = {1, 2}
    Journals = {j1}
    Postings = {p1}
    MaxRev = 2
    Reqs = {q1, q2}
    Readers = {r1}
    None = None
SYMMETRY MCSymmetry
CHECK_DEADLOCK FALSE
INVARIANT LedgerMatchesSources
INVARIANT CountedOnce
INVARIANT ReportsTrue
PROPERTY ClosedBalanceFixed
