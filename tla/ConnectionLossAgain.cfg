SPECIFICATION FairSpec
CONSTANTS
    TickModes = {"SYNC"}
    SocketThread = FALSE
    ErrorCallback = FALSE
    ConnectMayFail = FALSE
    SendMayFail = FALSE
    Answers <- OneBroker
    DisconnectArgs = {"hard"}
    Given <- TwoAddresses
    Redirections <- NoRedirections
    MaxConnects = 2
    MaxSockets = 2
    MaxRequests = 0
    Null = Null
PROPERTY
    LossNoticed

