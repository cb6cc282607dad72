SPECIFICATION UploadSpec
CONSTANTS
    Users = {u1, u2}
    Resources = {r1}
    Nonces = {n1}
    Slots = {q1, q2}
    Nil = Nil
SYMMETRY MCSymmetry
CHECK_DEADLOCK FALSE
INVARIANT TokenSpentOnce
INVARIANT RegisteredObjectChecked
PROPERTY WithdrawnGetsNothing
