\* All three kinds of reader against two write sections.
SPECIFICATION LockSpec
CONSTANTS
    pulse = pulse
    drs_mon = drs_mon
    agent = agent
    Reader <- PulseAndMonitor
    Agent <- HttpAgent
    Preempting <- PulseThread
    MaxWrites = 2
INVARIANTS
    LockTypeOK
    PulseReadIntact
    TornOnlyOdd
    ReadFresh
