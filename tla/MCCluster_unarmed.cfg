\* FORCE_LEADER before the calibration: nobody arms the pulse any more.
SPECIFICATION Spec
CONSTANTS
    Node = {1, 2}
    BootLock <- AllAuto
    Enabled = {"FORCE_LEADER"}
    TermBoost = 2
    GroundTicks = 0
    FollowerTicks = 2
    HoldoverTicks = 1
    ElectionTicks = {1}
    MaxTerm = 2
    MaxNet = 1
INVARIANTS
    PulseWhenOperational
