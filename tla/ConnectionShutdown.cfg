SPECIFICATION Spec
CONSTANTS
    TickModes = {"ASYNC"}
    SocketThread = TRUE
    ErrorCallback = TRUE
    ConnectMayFail = FALSE
    SendMayFail = FALSE
    Answers = {}
    DisconnectArgs = {"shutdown"}
    Given <- TwoAddresses
    Redirections <- NoRedirections
    MaxConnects = 2
    MaxSockets = 1
    MaxRequests = 0
    Null = Null
PROPERTY
    ShutdownNeverIgnored
CHECK_DEADLOCK FALSE
