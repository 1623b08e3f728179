SPECIFICATION FairSpec
CONSTANTS
    Worker = {w1}
    Quality = {1, 2}
    Worth = {1, 2}
    Handler = {a1}
    MaxVersion = 2
    MaxAttempts = 3
    Budgets <- MCClients
    Null = Null
PROPERTIES
    WaitingSettles
CHECK_DEADLOCK FALSE
