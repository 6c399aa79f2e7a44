CONSTANTS
    Modulus = 16
    SEND_ATTEMPTS = 2
    Blocks = 3
    Requests <- MCWindowed
SPECIFICATION Spec
CHECK_DEADLOCK FALSE
INVARIANT SentIsComplete
