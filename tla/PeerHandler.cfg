CONSTANTS
    Ports <- MCPorts
    CHANNEL_SIZE = 2
    MAX_SESSIONS_PER_IP = 1
    InitialCapacity = 1
    IdleTimeout = 1
    MaxRequests = 4
    MaxTime = 5
SPECIFICATION FairSpec
CHECK_DEADLOCK FALSE
INVARIANTS
    OneSessionPerPort
    RunningIsTracked
    ReturnedIsQuiet
PROPERTIES
    ImplementsHandler
    NoIdleCloseWhileServing
    ShutdownCompletes
