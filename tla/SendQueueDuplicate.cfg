SPECIFICATION Spec
CONSTANTS
    Templates <- QuotaTemplates
    ConnectPacket <- MCConnectPacket
    ReceiveMaximum = 2
    MaxPackets = 5
    MaxConnections = 1
    SendAttempts = 4
    MaxLocalRetries = 2
    MaxBatchRetries = 3
    PartialSends = FALSE
    SendErrors <- WebsocketErrors
    EncodeMayFail = FALSE
    Retries = TRUE
    Null = Null
INVARIANT
    QuotaRespected
CHECK_DEADLOCK FALSE
