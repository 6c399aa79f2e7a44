CONSTANTS
    Ports <- MCPorts
    CHANNEL_SIZE = 2
    MAX_SESSIONS_PER_IP = 1
    InitialCapacity = 1
    IdleTimeout = 1
    MaxRequests = 3
    MaxTime = 4
SPECIFICATION FairSpec
CHECK_DEADLOCK FALSE
INVARIANT SessionLimit
