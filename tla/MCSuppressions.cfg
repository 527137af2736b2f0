SPECIFICATION FairSpec
CONSTANTS
    Rule = {r1, r2}
    Handler = {h1, h2}
    DbMayFail = TRUE
    OthersWrite = TRUE
    MaxMutations = 3
PROPERTIES
    OnlySnapshots
    SuppressionsConverge
