SPECIFICATION Spec
CONSTANTS
    PublishQos = {0, 1, 2}
    IncomingQos = {1, 2}
    BrokerIds = {11}
    ReceiveMaximum = 1
    RetryInterval = 1
    Slow = FALSE
    Resume = {FALSE}
    MayRefuse = TRUE
    PublishLate = TRUE
    MaxPublishes = 2
    MaxIncoming = 2
    MaxLosses = 1
    MaxInFlight = 8
INVARIANTS
    TypeOK
    IdsAgree
    UpdatesFind
    BrokerNotCutOff
    IdsReturned
PROPERTIES
    OutgoingDelivery
    IncomingDelivery
