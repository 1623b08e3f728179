SPECIFICATION FairSpec
CONSTANTS
    MaxAttempts = 2
    Budgets <- MCBudgets
    Null = Null
INVARIANTS
    FilesInv
PROPERTIES
    SweepSparesMedia
    OrphansGo
CHECK_DEADLOCK FALSE
