CONSTANTS
    Ports <- MCPorts
    Addresses <- MCAddresses
    Files <- MCFiles
    Stems <- MCStems
    Matching <- MCMatching
    CHANNEL_SIZE = 1
    MaxHandlers = 3
    MaxRequests = 1
    MaxWrites = 2
    KernelLimit = 1
SPECIFICATION FairWatchSpec
CHECK_DEADLOCK FALSE
INVARIANTS
    WatchTypeOK
    NoSleepingEvent
    StaleIsAnnounced
PROPERTIES
    ConfigReachesHandler
