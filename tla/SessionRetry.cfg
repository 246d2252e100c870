SPECIFICATION Spec
CONSTANTS
    PublishQos = {2}
    IncomingQos = {1, 2}
    BrokerIds = {11, 12}
    ReceiveMaximum = 2
    RetryInterval = 1
    Slow = TRUE
    Resume = {FALSE}
    MayRefuse = FALSE
    PublishLate = TRUE
    MaxPublishes = 1
    MaxIncoming = 0
    MaxLosses = 0
    MaxInFlight = 8
INVARIANT
    ExactlyOnce
CHECK_DEADLOCK FALSE
