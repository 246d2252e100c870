SPECIFICATION Spec
CONSTANTS
    Templates <- NotifyTemplates
    ConnectPacket <- MCConnectPacket
    ReceiveMaximum = 1
    MaxPackets = 4
    MaxConnections = 1
    SendAttempts = 4
    MaxLocalRetries = 2
    MaxBatchRetries = 3
    PartialSends = FALSE
    SendErrors <- WinsockErrors
    EncodeMayFail = FALSE
    Retries = TRUE
    Null = Null
INVARIANT
    StreamIntact
CHECK_DEADLOCK FALSE
