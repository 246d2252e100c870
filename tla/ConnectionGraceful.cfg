SPECIFICATION Spec
CONSTANTS
    TickModes = {"SYNC"}
    SocketThread = FALSE
    ErrorCallback = FALSE
    ConnectMayFail = FALSE
    SendMayFail = FALSE
    Answers = {"accepted"}
    DisconnectArgs = {"graceful"}
    Given <- TwoAddresses
    Redirections <- NoRedirections
    MaxConnects = 1
    MaxSockets = 2
    MaxRequests = 0
    Null = Null
PROPERTY
    StaysDisconnected

