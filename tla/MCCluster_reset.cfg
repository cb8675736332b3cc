\* A FOLLOWER that changes its leader keeps filter, controller and request.
SPECIFICATION Spec
CONSTANTS
    Node = {1, 2, 3}
    BootLock <- AllAuto
    Enabled = {}
    TermBoost = 2
    GroundTicks = 0
    FollowerTicks = 2
    HoldoverTicks = 1
    ElectionTicks = {1}
    MaxTerm = 2
    MaxNet = 2
PROPERTIES
    ResetOnLeaderChange
