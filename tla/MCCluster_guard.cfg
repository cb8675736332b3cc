\* FORCE_HOLDOVER before the calibration: HOLDOVER leads to FOLLOWER without one.
SPECIFICATION Spec
CONSTANTS
    Node = {1, 2}
    BootLock <- AllAuto
    Enabled = {"FORCE_HOLDOVER"}
    TermBoost = 2
    GroundTicks = 0
    FollowerTicks = 2
    HoldoverTicks = 1
    ElectionTicks = {1}
    MaxTerm = 2
    MaxNet = 1
INVARIANTS
    CalibratedBeforeFollower
