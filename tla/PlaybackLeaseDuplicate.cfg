SPECIFICATION Spec
CONSTANTS
    v1 = v1
    v2 = v2
    ip1 = ip1
    ip2 = ip2
    Viewer <- MCViewer
    Ip <- MCIp
    Device <- MCDeviceDup
    Session = {s1, s2}
    Media = {m1}
    LeasedMedia = {m1}
    Req = {r1, r2}
    LeaseTicks = 2
    Faults = FALSE
    Null = Null
PROPERTIES
    DuplicateCannotOverwrite
CHECK_DEADLOCK FALSE
