SPECIFICATION Spec
CONSTANTS
    Templates <- MixedTemplates
    ConnectPacket <- MCConnectPacket
    ReceiveMaximum = 1
    MaxPackets = 4
    MaxConnections = 2
    SendAttempts = 4
    MaxLocalRetries = 2
    MaxBatchRetries = 3
    PartialSends = FALSE
    SendErrors <- UnmistakenErrors
    EncodeMayFail = TRUE
    Retries = TRUE
    Null = Null
INVARIANTS
    NotifiedAtMostOnce
    NotifiedWhenSent
    QosOrderKept
CHECK_DEADLOCK FALSE
