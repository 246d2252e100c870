SPECIFICATION Spec
CONSTANTS
    PublishQos = {1}
    IncomingQos = {1, 2}
    BrokerIds = {11, 12}
    ReceiveMaximum = 2
    RetryInterval = 1
    Slow = FALSE
    Resume = {TRUE}
    MayRefuse = FALSE
    PublishLate = TRUE
    MaxPublishes = 2
    MaxIncoming = 0
    MaxLosses = 1
    MaxInFlight = 8
PROPERTY
    OutgoingDelivery
CHECK_DEADLOCK FALSE
