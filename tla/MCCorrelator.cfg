SPECIFICATION Spec
CONSTANTS
    Container = {c1}
    Host = {h1}
    Stage = {s1, s2}
    NoStage = NoStage
    Severity = {"high"}
    Window = 2
    Cooldown = 2
    MinStages = 1
    MinScore = 150
    HostMinStages = 2
    HostMinScore = 100
    MaxLag = 1
    MaxClock = 7
    MaxFindings = 4
SYMMETRY StageSymmetry
INVARIANTS
    IncidentWindow
PROPERTIES
    CooldownSpacing
    NoRepeat
    NoLeak
    QualifiedIsReported
    EscalationIsCritical
