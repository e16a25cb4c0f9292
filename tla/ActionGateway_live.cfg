SPECIFICATION FairSpec
CONSTANTS
    NoAction = NoAction
    NoReservation = NoReservation
    a1 = a1
    c1 = c1
    c2 = c2
    n1 = n1
    Actions = {a1}
    Callers = {c1, c2}
    SpendActions = {}
    ApprovalActions = {}
    Reservations = {n1}
    Ceiling = 1
    MaxAttempts = 1
    MaxReconcile = 2
    ReconBound = 3
PROPERTIES LeasedStateLeft
CHECK_DEADLOCK FALSE
