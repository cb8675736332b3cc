\* A clock to be stepped, with late answers, silences and resets.
SPECIFICATION ExchangeSpec
CONSTANTS
    Window = 2
    Tolerance = 0
    StepThreshold = 1
    StepConfirm = 2
    KP = 4
    KI = 2
    Q = 2
    Mega = 1
    MaxPpm = 1
    Int64 = 12
    Exchange = 1
    ReqTimeout = 2
    StormThreshold = 2
    StormRate = 2
    PhaseReset = 2
    Offsets <- Apart
    MaxLife = 2
    MaxNet = 2
    MaxGap = 3
    MaxUpsets = 1
PROPERTIES StepLandsClose StormSpaced RateTowardsLeader EventuallyClose SamplesKeepComing
INVARIANTS
    ExchangeTypeOK
