SPECIFICATION LibrarySpec
CONSTANTS
    Media = {m1, m2, m3}
    Req = {r1, r2}
    MaxRevision = 3
    NoMedium = NoMedium
    Category = {1, 2, 3}
    Tier = {0, 1}
    Admin = {a1, a2}
    TreeAdmin = {a1}
    CoverAdmin = {a1, a2}
    MaxOrder = 2
    MaxCover = 2
    NoCategory = NoCategory
    Worker = {w1}
    Quality = {1, 2}
    Worth = {1, 2}
    Handler = {h1}
    MaxVersion = 2
    MaxAttempts = 3
    Budgets <- MCBudgets
    Null = Null
INVARIANTS
    QueueInv
    TreeInv
    EncodingInv
PROPERTIES
    RewritesAsAsked
    ReadyStays
SYMMETRY MCSymmetry
CHECK_DEADLOCK FALSE
