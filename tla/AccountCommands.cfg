SPECIFICATION Spec
CONSTANTS
    Emails = {e1, e2}
    Uids = {u1, u2}
    Properties = {p1}
    Roles = {"admin", "owner"}
    Founder = e1
    FounderUid = u1
    Reqs = {q1, q2}
    None = None
SYMMETRY MCSymmetry
CHECK_DEADLOCK FALSE
INVARIANT IdentitiesMatchRows
INVARIANT RolesAsAsked
INVARIANT AdminRemains
