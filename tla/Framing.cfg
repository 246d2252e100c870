SPECIFICATION FairSpec
CONSTANTS
    Base = 2
    Bodies = {0, 2}
    Cuts = {0, 2}
    MaxPackets = 3
    MaxConnections = 2
INVARIANTS
    TypeOK
    BytesKeptWhileIntact
    PacketsInOrder
PROPERTY
    EveryPacketHandled
CHECK_DEADLOCK FALSE
