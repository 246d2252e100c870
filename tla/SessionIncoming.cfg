SPECIFICATION Spec
CONSTANTS
    PublishQos = {1, 2}
    IncomingQos = {2}
    BrokerIds = {11, 12}
    ReceiveMaximum = 2
    RetryInterval = 1
    Slow = FALSE
    Resume = {TRUE}
    MayRefuse = FALSE
    PublishLate = TRUE
    MaxPublishes = 0
    MaxIncoming = 1
    MaxLosses = 1
    MaxInFlight = 8
PROPERTY
    IncomingDelivery
CHECK_DEADLOCK FALSE
