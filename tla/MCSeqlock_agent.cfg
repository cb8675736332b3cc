\* The agent, which copies the page before it looks at seq.
SPECIFICATION LockSpec
CONSTANTS
    pulse = pulse
    drs_mon = drs_mon
    agent = agent
    Reader <- NoOne
    Agent <- HttpAgent
    Preempting <- NoOne
    MaxWrites = 2
INVARIANTS
    AgentReadIntact
