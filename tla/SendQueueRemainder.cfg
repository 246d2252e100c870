SPECIFICATION Spec
CONSTANTS
    Templates <- NotifyTemplates
    ConnectPacket <- MCConnectPacket
    ReceiveMaximum = 1
    MaxPackets = 3
    MaxConnections = 1
    SendAttempts = 4
    MaxLocalRetries = 2
    MaxBatchRetries = 3
    PartialSends = FALSE
    SendErrors <- NegativeErrors
    EncodeMayFail = FALSE
    Retries = TRUE
    Null = Null
PROPERTY
    RemainderSentNextTick
CHECK_DEADLOCK FALSE
