SPECIFICATION RequestsSpec
CONSTANTS
    PoolSize = 3
    MaxPacketId = 3
    TickModes = {"SYNC", "ASYNC"}
    CallbackCalls = {"publish"}
    StrayAnswers = 0
    MaxRequests = 3
    MaxConnections = 2
    None = None
INVARIANTS
    UnsubscriptionIdsReturned
CHECK_DEADLOCK FALSE
