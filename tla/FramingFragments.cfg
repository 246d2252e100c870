SPECIFICATION Spec
CONSTANTS
    Base = 2
    Bodies = {0, 1, 2}
    Cuts = {0, 2}
    MaxPackets = 3
    MaxConnections = 2
INVARIANTS
    BytesKept
CHECK_DEADLOCK FALSE
