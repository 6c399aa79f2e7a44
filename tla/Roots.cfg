CONSTANTS
    Peer = "10.0.0.1"
    Names <- MCNames
    Prefixes <- MCPrefixes
    Configs <- MCConfigs
    Partitions = 3
    MaxListed = 2
SPECIFICATION Spec
INVARIANTS
    TypeOK
    FullyMounted
    NoApplianceLeft
    OwnDiskFirst
    LocalTakesPrecedence
PROPERTY ScanEnds
