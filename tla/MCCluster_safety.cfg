\* Three nodes, one of them locked as leader, an operator who makes leaders step
\* down, crashes and an unreliable segment.
SPECIFICATION Spec
CONSTANTS
    Node = {1, 2, 3}
    BootLock <- SecondLocked
    Enabled = {"FORCE_DEMOTE"}
    TermBoost = 1
    GroundTicks = 0
    FollowerTicks = 2
    HoldoverTicks = 0
    ElectionTicks = {0}
    MaxTerm = 2
    MaxNet = 2
INVARIANTS
    TypeOK
    NoTimingLoop
    LeaderIsSelfConfident
    PulseWhenOperational
    CalibratedBeforeFollower
PROPERTIES
    TermNeverDecreases
    LowestLeaderStays
    ResetOnReacquire
    LockedLeaderYields
