\* Three nodes; an ANNOUNCE is lost and the leader's host fails for good.
SPECIFICATION TimedSpec
CONSTANTS
    Node = {1, 2, 3}
    BootLock <- AllAuto
    Enabled = {}
    TermBoost = 9
    GroundTicks = 1
    FollowerTicks = 3
    HoldoverTicks = 6
    ElectionTicks = {3, 4}
    MaxTerm = 6
    MaxNet = 6
    MaxFaults = 2
    Restarts = FALSE
PROPERTIES
    EventuallyNoOrphan
