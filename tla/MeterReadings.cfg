SPECIFICATION Spec
CONSTANTS
    q1 = q1
    q2 = q2
    None = None
    Reqs <- MCReqs
    Leases <- MCLeases
    MaxMetered = 2
    Days <- MCDays
    LastDays <- MCLastDays
    Readings <- MCReadings
    Rents <- MCRents
INVARIANT PeriodsTileLease
INVARIANT UsageAccounted
PROPERTY SettledAsShown
PROPERTY RequestsAnswered
