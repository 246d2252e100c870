SPECIFICATION Spec
CONSTANTS
    PublishQos = {1}
    IncomingQos = {2}
    BrokerIds = {1, 2}
    ReceiveMaximum = 2
    RetryInterval = 1
    Slow = FALSE
    Resume = {FALSE}
    MayRefuse = FALSE
    PublishLate = TRUE
    MaxPublishes = 1
    MaxIncoming = 1
    MaxLosses = 0
    MaxInFlight = 8
INVARIANT
    IdsAgree
CHECK_DEADLOCK FALSE
