SPECIFICATION FairSpec
CONSTANTS
    Ip = {ip1, ip2}
    NoIp = NoIp
    Threshold = 2
    Window = 2
    MaxLines = 3
    MaxRotations = 1
    MaxTruncations = 1
    MaxClock = 3
INVARIANTS
    HandledOnce
    OffsetInSync
    BurstsReported
PROPERTIES
    AlertsJustified
    CatchesUp
CHECK_DEADLOCK FALSE
