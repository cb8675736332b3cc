\* A SYNC_RESP is answered with a rate after a calibration that found a latency.
SPECIFICATION PulseSpec
CONSTANTS
    One = 32
    Period = 22
    High = 3
    Margin = 8
    BusyWait = 2
    Latency = 1
    Rates = {31, 32, 33}
    Steps <- PhaseSteps
    LatCorrs = {0, 1}
    CalibrateBy = 1
    MaxTime = 39
    MaxWrites = 2
PROPERTY RateChangeContinuous
CHECK_DEADLOCK FALSE
