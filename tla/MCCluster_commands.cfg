\* Two AUTO nodes, every operator command, crashes and an unreliable segment.
SPECIFICATION Spec
CONSTANTS
    Node = {1, 2}
    BootLock <- AllAuto
    Enabled = {"RECALIBRATE", "FORCE_HOLDOVER", "FORCE_DEMOTE", "RESET_FILTERS",
               "FORCE_LEADER", "FORCE_FOLLOWER", "AUTO_MODE"}
    TermBoost = 2
    GroundTicks = 0
    FollowerTicks = 2
    HoldoverTicks = 1
    ElectionTicks = {1}
    MaxTerm = 3
    MaxNet = 1
INVARIANTS
    NoTimingLoop
    LeaderIsSelfConfident
PROPERTIES
    ResetOnReacquire
    LockedLeaderYields
