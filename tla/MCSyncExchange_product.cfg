\* A first sample from so far away that the proportional term overflows.
SPECIFICATION ExchangeSpec
CONSTANTS
    Window = 2
    Tolerance = 0
    StepThreshold = 1
    StepConfirm = 2
    KP = 4
    KI = 1
    Q = 2
    Mega = 1
    MaxPpm = 1
    Int64 = 14
    Exchange = 1
    ReqTimeout = 2
    StormThreshold = 2
    StormRate = 2
    PhaseReset = 2
    Offsets <- WrapsOver
    MaxLife = 2
    MaxNet = 2
    MaxGap = 3
    MaxUpsets = 1
PROPERTY FarRateTowardsLeader
