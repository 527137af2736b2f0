SPECIFICATION Spec
CONSTANTS
    Pid = {p1}
    SelfPid = self
    Container = {c1}
    Syscall <- MCWatched
    None = None
    MonitorHost = TRUE
    Whitelist = {c1}
    Blacklist = {}
    RingSize = 1
    ChanSize = 1
    TTL = 1
    EvictEvery = 1
    DockerTTL = 1
    MaxEvents = 2
    MaxClock = 1
INVARIANT
    DecodedAsTraced
