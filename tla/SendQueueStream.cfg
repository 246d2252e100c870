SPECIFICATION FairSpec
CONSTANTS
    Templates <- MixedTemplates
    ConnectPacket <- MCConnectPacket
    ReceiveMaximum = 1
    MaxPackets = 4
    MaxConnections = 1
    SendAttempts = 4
    MaxLocalRetries = 2
    MaxBatchRetries = 3
    PartialSends = TRUE
    SendErrors <- WebsocketErrors
    EncodeMayFail = FALSE
    Retries = FALSE
    Null = Null
INVARIANTS
    TypeOK
    StreamIntact
    NoEarlyNotification
    NoPacketLost
    QuotaRespected
PROPERTY
    NoPacketStarves
CHECK_DEADLOCK FALSE
