SPECIFICATION Spec
CONSTANTS
    TickModes = {"SYNC"}
    SocketThread = FALSE
    ErrorCallback = FALSE
    ConnectMayFail = FALSE
    SendMayFail = TRUE
    Answers <- AllAnswers
    DisconnectArgs = {"hard", "keepQueue", "shutdown"}
    Given <- TwoAddresses
    Redirections <- ToAnother
    MaxConnects = 1
    MaxSockets = 2
    MaxRequests = 0
    Null = Null
PROPERTY
    GoesWhereSent
