SPECIFICATION Spec
CONSTANTS
    Base = 2
    Bodies = {0, 1, 2}
    Cuts = {0, 1}
    MaxPackets = 3
    MaxConnections = 2
INVARIANTS
    BytesKeptWhileIntact
CHECK_DEADLOCK FALSE
