\* FORCE_LEADER, and the promotion that does without the boost.
SPECIFICATION Spec
CONSTANTS
    Node = {1, 2}
    BootLock <- AllAuto
    Enabled = {"FORCE_LEADER"}
    TermBoost = 2
    GroundTicks = 0
    FollowerTicks = 2
    HoldoverTicks = 1
    ElectionTicks = {1}
    MaxTerm = 3
    MaxNet = 1
PROPERTIES
    TermNeverDecreases
