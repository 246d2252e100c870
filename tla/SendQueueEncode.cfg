SPECIFICATION Spec
CONSTANTS
    Templates <- StreamTemplates
    ConnectPacket <- MCConnectPacket
    ReceiveMaximum = 1
    MaxPackets = 5
    MaxConnections = 2
    SendAttempts = 4
    MaxLocalRetries = 2
    MaxBatchRetries = 3
    PartialSends = FALSE
    SendErrors <- NegativeErrors
    EncodeMayFail = TRUE
    Retries = TRUE
    Null = Null
INVARIANT
    NoEarlyNotification
CHECK_DEADLOCK FALSE
