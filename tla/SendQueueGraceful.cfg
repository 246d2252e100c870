SPECIFICATION Spec
CONSTANTS
    Templates <- DisconnectTemplates
    ConnectPacket <- MCConnectPacket
    ReceiveMaximum = 1
    MaxPackets = 5
    MaxConnections = 2
    SendAttempts = 4
    MaxLocalRetries = 2
    MaxBatchRetries = 3
    PartialSends = FALSE
    SendErrors <- NegativeErrors
    EncodeMayFail = FALSE
    Retries = TRUE
    Null = Null
PROPERTY
    ConnectNeverCancelled
CHECK_DEADLOCK FALSE
