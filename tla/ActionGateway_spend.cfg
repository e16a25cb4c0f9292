SPECIFICATION Spec
CONSTANTS
    NoAction = NoAction
    NoReservation = NoReservation
    a1 = a1
    a2 = a2
    c1 = c1
    n1 = n1
    n2 = n2
    Actions = {a1, a2}
    Callers = {c1}
    SpendActions = {a1, a2}
    ApprovalActions = {a1, a2}
    Reservations = {n1, n2}
    Ceiling = 1
    MaxAttempts = 1
    MaxReconcile = 1
    ReconBound = 1
INVARIANTS SpendWithinCeiling
CHECK_DEADLOCK FALSE
