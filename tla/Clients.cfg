SPECIFICATION ClientsSpec
CONSTANTS
    Link = {1, 2}
    Tab = {t1, t2}
    Other = Other
    Nothing = Nothing
    LowMark = 1
    HighMark = 2
    MaxRevision = 3
    MaxSequence = 2
    MaxUplink = 2
    MaxRestarts = 1
    Clip = {m1, m2}
    RivalClip = m1
    MaxTicket = 2
    Rival = Rival
    NoOne = NoOne
    MaxNews = 2
    Slot = {1, 2}
    Track = {a, b}
    Alone = a
    Slots = 1
    MaxVersion = 2
    MaxLaunches = 1
INVARIANTS
    FeedInv
    NewsArrives
    WebInv
    LoserStreamsNothing
    DesktopInv
    RivalSilencesDesktop
    DownloadsInv
CHECK_DEADLOCK FALSE
