\* The monitor on a core of its own.
SPECIFICATION LockSpec
CONSTANTS
    pulse = pulse
    drs_mon = drs_mon
    agent = agent
    Reader <- Monitor
    Agent <- NoOne
    Preempting <- NoOne
    MaxWrites = 2
INVARIANTS
    ReadersIntact
