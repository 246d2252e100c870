SPECIFICATION FairSpec
CONSTANTS
    TickModes = {"SYNC", "ASYNC"}
    SocketThread = TRUE
    ErrorCallback = TRUE
    ConnectMayFail = TRUE
    SendMayFail = FALSE
    Answers <- AllAnswers
    DisconnectArgs = {"graceful", "hard", "shutdown"}
    Given <- TwoAddresses
    Redirections <- ToAnother
    MaxConnects = 1
    MaxSockets = 2
    MaxRequests = 0
    Null = Null
INVARIANT
    ShutdownStops
PROPERTY
    AttemptEnds
CHECK_DEADLOCK FALSE
