SPECIFICATION Spec
CONSTANTS
    Reel = {1, 2}
    Renderer = {w1, w2}
    Sweeper = {c1}
    Tracks = 1
    MaxRenders = 2
    NoJob = NoJob
    ReelBudgets <- MCReelBudgets
    Client = {ip1, ip2}
    Call = {q1, q2}
    Grant = {5}
    CacheTicks = 2
    CacheLimit = 1
    MaxChanges = 2
    Subnet = Subnet
    NoTier = NoTier
    Event = {e1, e2}
    Handler = {h1, h2}
    MaxBatch = 1
    MaxSaves = 1
    MaxLost = 2
    NoSync = NoSync
    Listener = {d1}
    NoAddress = NoAddress
    Track = {"t1", "t2"}
    TrackLength <- MCTrackLength
    Instant = {0, 1, 3}
    DayLength = 1
    Spot = {0, 2}
    MaxEvents = 3
    Visit = {v1, v2}
    Period = 2
    December = {4, 5}
    OpeningDay = 5
    MaxToday = 7
    Edit = {e1, e2}
    PeriodDay = {1, 2, 3}
    NoReport = NoReport
INVARIANTS
    ReelInv
    AccessInv
    OfflineInv
    WrappedInv
PROPERTIES
    ReelsSettle
    GrantsCatchUp
    OutboxDrains
CHECK_DEADLOCK FALSE
