SPECIFICATION Spec
CONSTANTS
    MaxAttempts = 2
    Budgets <- NoFaults
    Null = Null
INVARIANTS
    OriginalsRemain
CHECK_DEADLOCK FALSE
