SPECIFICATION FairRequestsSpec
CONSTANTS
    PoolSize = 3
    MaxPacketId = 3
    TickModes = {"SYNC", "ASYNC"}
    CallbackCalls = {"publish"}
    StrayAnswers = 1
    MaxRequests = 3
    MaxConnections = 2
    None = None
INVARIANTS
    RequestsTypeOK
    NeverIssuedTwice
    ExhaustedOnlyWhenAllInUse
    SubscriptionsMatch
    SubscriptionIdsReturned
PROPERTY
    CallsReturn
CHECK_DEADLOCK FALSE
