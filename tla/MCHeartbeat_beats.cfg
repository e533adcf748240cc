SPECIFICATION MCSpec
CONSTANTS
    HbMin = 3
    HbMax = 5
    IdleThreshold = 2
    IdleTimeout = 30
    ReapEvery = 3
    MaxPongs = 1
    Horizon = 34
INVARIANTS
    SilenceBound
    ReapedInTime
    ReleasedPromptly
    KnobsFit
PROPERTIES
    ReapsOnlyStalled
