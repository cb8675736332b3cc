\* Two SYNC_RESPs or recalibrations before each of the first pulses.
SPECIFICATION PulseSpec
CONSTANTS
    One = 32
    Period = 22
    High = 3
    Margin = 8
    BusyWait = 2
    Latency = 1
    Rates = {31, 32, 33}
    Steps <- PhaseSteps
    LatCorrs = {0, 1}
    CalibrateBy = 1
    MaxTime = 39
    MaxWrites = 2
INVARIANTS
    PulseTypeOK
    NextEdgeNear
PROPERTIES
    PulseOnSecond
    SlewedOnSecond
    EverySecondOnce
    PulseWidth
    RateChangeBounded
CHECK_DEADLOCK FALSE
