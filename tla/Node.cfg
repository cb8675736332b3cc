\* Commands, health pin, error ring and link monitor together.
SPECIFICATION NodeSpec
CONSTANTS
    MaxCmds = 2
    Slots = 2
    MaxErrors = 3
    CheckEvery = 2
    StableWindow = 1
    MaxEvents = 4
INVARIANTS
    NodeTypeOK
    RunsOnce
    PinWhileUp
    ErrorsReadBack
PROPERTIES
    HearsAfterCheck
    LatestRuns
