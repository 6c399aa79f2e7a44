CONSTANTS
    MaxSize = 8
    MaxWrites = 2
    CHUNK_SIZE = 3
    BlockSizes <- MCBlockSizes
SPECIFICATION Spec
CHECK_DEADLOCK FALSE
INVARIANTS
    ReadsTheFile
    ShortOnlyAtEnd
    AnnouncedIsSent
PROPERTIES
    ReadingEnds
