SPECIFICATION Spec
CONSTANTS
    PoolSize = 6
    MaxPacketId = 7
INVARIANT
    DocumentedRange
CHECK_DEADLOCK FALSE
