SPECIFICATION FairSpec
CONSTANTS
    Alpha = Alpha
    Beta = Beta
    Gamma = Gamma
    Broken = Broken
    Default <- MCDefault
    Contents <- MCContents
    Files = 2
    MaxEdits = 2
INVARIANT
    EngineIsReference
PROPERTY
    RulesConverge
