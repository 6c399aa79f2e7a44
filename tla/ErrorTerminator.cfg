CONSTANTS
    Letters <- MCLetters
    OCTET <- MCOctet
    Texts <- MCTexts
    BUFFER_SIZE = 14
    Requests <- MCRequests
    Replies <- MCReplies
    Oacks <- MCOacks
    MaxReceived = 2
SPECIFICATION Spec
CHECK_DEADLOCK FALSE
INVARIANT
    ErrorTerminated
