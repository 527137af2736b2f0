SPECIFICATION FairMonitorSpec
CONSTANTS
    Alpha = Alpha
    Beta = Beta
    Unset = Unset
    ServerName = web01
    Rulesets <- MCRulesets
    SuppSets <- MCSuppSets
    Event <- MCEvent
    Exceptions = {"backup"}
    dedupTTL = 1
    MaxClock = 3
    heartbeatMaxAge = 0
    EventBuffer = 1
    MaxAlerts = 2
INVARIANT
    EveryFindingCounts
PROPERTIES
    DedupSpacing
    DuplicateJustified
    HeartbeatRecurs
    DeadLoopReported
    SignalEnds
CHECK_DEADLOCK FALSE
