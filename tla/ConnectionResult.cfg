SPECIFICATION Spec
CONSTANTS
    TickModes = {"SYNC"}
    SocketThread = TRUE
    ErrorCallback = TRUE
    ConnectMayFail = FALSE
    SendMayFail = FALSE
    Answers = {"accepted"}
    DisconnectArgs = {}
    Given <- TwoAddresses
    Redirections <- NoRedirections
    MaxConnects = 1
    MaxSockets = 2
    MaxRequests = 0
    Null = Null
INVARIANT
    ResultReported

