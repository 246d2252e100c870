SPECIFICATION FairSpec
CONSTANTS
    PublishQos = {1}
    IncomingQos = {1}
    BrokerIds = {11, 12}
    ReceiveMaximum = 3
    RetryInterval = 1
    Slow = TRUE
    Resume = {TRUE}
    MayRefuse = FALSE
    PublishLate = FALSE
    MaxPublishes = 2
    MaxIncoming = 0
    MaxLosses = 2
    MaxInFlight = 4
INVARIANT
    NothingForgotten
PROPERTY
    EveryPublishEnds
