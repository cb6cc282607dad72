SPECIFICATION MCSpec
CONSTANTS
    Scans = {s1}
    Reminders = {r1, r2}
    Notices = {n1}
    Compensations = {k1, k2}
    Others = {n1, k1, k2}
    Triggered = {{s1, r1, r2}, {s1, r1, k1}, {k1, k2}, {n1}}
    Bills = {b1, b2}
    Leases = {l1, l2}
    People = {u1, u2}
    Terminations = {f1}
    Calls = {c1, c2}
    MaxRetries = 1
    MaxNotices = 1
    None = None
CHECK_DEADLOCK FALSE
INVARIANT OneCallPerWindow
INVARIANT MailedOncePerWindow
INVARIANT NoticesDelivered
INVARIANT CompletedWhenWrittenOff
PROPERTY MailOnlyOverdue
PROPERTY PaidStaysPaid
PROPERTY CallEnds
