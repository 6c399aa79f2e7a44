CONSTANTS
    Ports <- MCPorts
    Addresses <- MCAddresses
    CHANNEL_SIZE = 1
    MaxHandlers = 3
    MaxRequests = 3
SPECIFICATION FairSpec
CHECK_DEADLOCK FALSE
INVARIANTS
    OneSessionPerEndpoint
    NoStrayHandler
    OnlyLateLoss
PROPERTIES
    ServerReturns
