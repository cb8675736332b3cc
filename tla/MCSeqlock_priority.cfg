\* The pulse thread on the writer's core.
SPECIFICATION LockSpec
CONSTANTS
    pulse = pulse
    drs_mon = drs_mon
    agent = agent
    Reader <- PulseThread
    Agent <- NoOne
    Preempting <- PulseThread
    MaxWrites = 3
PROPERTIES
    WriterNeverBlocked
