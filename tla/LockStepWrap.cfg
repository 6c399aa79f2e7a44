CONSTANTS
    Modulus = 4
    SEND_ATTEMPTS = 3
    Blocks = 10
    Requests <- MCLockStep
    MaxLosses = 2
SPECIFICATION TimelySpec
CHECK_DEADLOCK FALSE
INVARIANTS
    ReceivedIsPrefix
PROPERTIES
    Delivered
