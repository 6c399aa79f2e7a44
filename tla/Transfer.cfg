CONSTANTS
    Modulus = 16
    SEND_ATTEMPTS = 3
    Blocks = 9
    Requests <- MCRequests
SPECIFICATION FairSpec
CHECK_DEADLOCK FALSE
INVARIANTS
    TypeOK
    WindowBound
    AcknowledgedIsReceived
    WindowIntact
    ReceivedIsPrefix
    FreshAckAccepted
    DataAfterOackAcknowledged
    LockStepComplete
PROPERTIES
    ForwardOnly
    ImplementsDelivery
    SessionEnds
