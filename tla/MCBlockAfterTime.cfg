SPECIFICATION SearchSpec
CONSTANTS
    Epochs <- AnyEntry
    ForkBlock = 0
    MaxLen = 6
    MaxStamp = 3
INVARIANT SearchIsRight
PROPERTY SearchEnds
CHECK_DEADLOCK FALSE
