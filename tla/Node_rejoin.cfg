\* F-22: the cable is pulled and plugged in again.
SPECIFICATION NodeSpec
CONSTANTS
    MaxCmds = 1
    Slots = 2
    MaxErrors = 1
    CheckEvery = 2
    StableWindow = 2
    MaxEvents = 3
PROPERTIES
    Rejoins
