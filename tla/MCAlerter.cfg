SPECIFICATION FairSpec
CONSTANTS
    RateKey = {c1, host}
    Severities = {"low", "high"}
    AlertMinSeverity = "medium"
    AlertMaxRate = 2
    AlertRateWindow = 2
    LogMax = 1
    LogMaxBackups = 2
    DiskMayFail = TRUE
    Modes = {"alert", "monitor"}
    Dest = {"webhook"}
    DeliveryAttempts = 2
    MaxAlerts = 3
    MaxDispatched = 1
    MaxClock = 3
INVARIANTS
    RateBound
    RefusedOnlyWhenFull
    IncidentsKept
    LogIsTail
    LogInOrder
PROPERTIES
    DeliverySettles
