\* F-7 across a crash and a restart.
SPECIFICATION NodeSpec
CONSTANTS
    MaxCmds = 3
    Slots = 2
    MaxErrors = 3
    CheckEvery = 2
    StableWindow = 2
    MaxEvents = 4
PROPERTIES
    LowOnlyAfterWindow
