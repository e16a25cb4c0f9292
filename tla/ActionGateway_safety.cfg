SPECIFICATION Spec
CONSTANTS
    NoAction = NoAction
    NoReservation = NoReservation
    a1 = a1
    c1 = c1
    c2 = c2
    n1 = n1
    n2 = n2
    n3 = n3
    Actions = {a1}
    Callers = {c1, c2}
    SpendActions = {a1}
    ApprovalActions = {a1}
    Reservations = {n1, n2, n3}
    Ceiling = 2
    MaxAttempts = 2
    MaxReconcile = 1
    ReconBound = 1
SYMMETRY Symmetry
INVARIANTS TypeOK EffectsWereApproved ReservedWithinCeiling MoneyFollowsProvider SpendCommittedOnce
PROPERTIES LifecycleSpec
CHECK_DEADLOCK FALSE
