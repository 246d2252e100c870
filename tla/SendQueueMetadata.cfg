SPECIFICATION Spec
CONSTANTS
    Templates <- NotifyTemplates
    ConnectPacket <- MCConnectPacket
    ReceiveMaximum = 1
    MaxPackets = 5
    MaxConnections = 1
    SendAttempts = 4
    MaxLocalRetries = 2
    MaxBatchRetries = 3
    PartialSends = TRUE
    SendErrors <- NegativeErrors
    EncodeMayFail = FALSE
    Retries = TRUE
    Null = Null
INVARIANT
    NotifiedAtMostOnce
CHECK_DEADLOCK FALSE
