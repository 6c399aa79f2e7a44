CONSTANTS
    Modulus = 4
    SEND_ATTEMPTS = 3
    Blocks = 6
    Requests <- MCWindowOfTwo
    MaxLosses = 0
SPECIFICATION TimelySpec
CHECK_DEADLOCK FALSE
INVARIANT FreshAckAccepted
