SPECIFICATION Spec
CONSTANTS
    TickModes = {"SYNC"}
    SocketThread = FALSE
    ErrorCallback = FALSE
    ConnectMayFail = FALSE
    SendMayFail = TRUE
    Answers <- AllAnswers
    DisconnectArgs = {"hard", "keepQueue", "shutdown"}
    Given <- TwoAddresses
    Redirections <- ToAny
    MaxConnects = 1
    MaxSockets = 3
    MaxRequests = 0
    Null = Null
INVARIANT
    NotSentBack
