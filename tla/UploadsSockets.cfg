SPECIFICATION UploadsSocketsSpec
CONSTANTS
    Upload = {u1}
    Handler = {a1, a2}
    Total = 2
    MaxFaults = 1
    Conn = {c1}
    Player = {c1}
    Native = {c1}
    Device = {d1}
    Session = {s1, s2}
    MaxWire = 1
    Null = Null
    None = None
    Title = {t1, t2}
    NoTitle = NoTitle
    Asker = {g1, g2}
    MaxEdition = 1
    MaxActs = 2
    NoWords = NoWords
    Unknown = Unknown
    Stamp = {0, 3, 20}
    Duration = {0, 6, 22}
    MaxLines = 2
INVARIANTS
    UploadInv
    WaitingIsWorked
    LyricsInv
    LinesDoNotOverlap
PROPERTIES
    SweepSparesWaiting
    WaitingSettles
    LoserIsUnbound
CHECK_DEADLOCK FALSE
