SPECIFICATION FairRequestsSpec
CONSTANTS
    PoolSize = 3
    MaxPacketId = 3
    TickModes = {"SYNC"}
    CallbackCalls = {"subscribe"}
    StrayAnswers = 0
    MaxRequests = 3
    MaxConnections = 2
    None = None
PROPERTY
    CallsReturn
CHECK_DEADLOCK FALSE
