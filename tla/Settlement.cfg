SPECIFICATION HistorySpec
CONSTANTS
    Leases = {l1, l2}
    N = 2
    Deposit = 2
    MaxChanges = 1
    Reqs = {q1, q2}
    None = None
SYMMETRY MCSymmetry
CHECK_DEADLOCK FALSE
INVARIANT DepositAgreesWithLedger
INVARIANT BillAgreesWithLedger
INVARIANT EndedLeaseSettled
INVARIANT OpenLeaseFullyBilled
INVARIANT PeriodBilledOnceUnlessOvertaken
PROPERTY SettledBillsFinal
