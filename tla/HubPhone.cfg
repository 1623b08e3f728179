SPECIFICATION HubPhoneSpec
CONSTANTS
    Conn = {c1, c2}
    Player = {c1}
    Native = {}
    Device = {d1, d2}
    Session = {s1, s2}
    MaxWire = 2
    None = None
    Clip = {m1, m2, m3}
    RivalClip = m1
    MaxTicket = 2
    Rival = Rival
    NoOne = NoOne
    MaxNews = 2
    Turn = {1, 2}
    Downloaded = {m3}
    MaxWatches = 1
INVARIANTS
    HubInv
    RestTold
    RestArmed
    PhoneInv
    RivalSilencesPhone
SYMMETRY MCSymmetry
CHECK_DEADLOCK FALSE
