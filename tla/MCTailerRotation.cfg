SPECIFICATION FairSpec
CONSTANTS
    Ip = {ip1}
    NoIp = NoIp
    Threshold = 2
    Window = 2
    MaxLines = 1
    MaxRotations = 1
    MaxTruncations = 0
    MaxClock = 1
PROPERTY
    FollowsRotation
CHECK_DEADLOCK FALSE
