SPECIFICATION RequestsSpec
CONSTANTS
    PoolSize = 3
    MaxPacketId = 3
    TickModes = {"ASYNC"}
    CallbackCalls = {"publish"}
    StrayAnswers = 0
    MaxRequests = 3
    MaxConnections = 2
    None = None
INVARIANTS
    SubscriptionsMatchAnyTime
CHECK_DEADLOCK FALSE
