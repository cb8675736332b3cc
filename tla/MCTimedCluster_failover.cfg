\* Three nodes started in any order; a packet is lost or a host fails for good.
SPECIFICATION TimedSpec
CONSTANTS
    Node = {1, 2, 3}
    BootLock <- AllAuto
    Enabled = {}
    TermBoost = 9
    GroundTicks = 1
    FollowerTicks = 3
    HoldoverTicks = 6
    ElectionTicks = {3, 5}
    MaxTerm = 6
    MaxNet = 6
    MaxFaults = 1
    Restarts = FALSE
PROPERTIES
    EventuallyLowestLeads
