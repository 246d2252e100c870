SPECIFICATION Spec
CONSTANTS
    TickModes = {"SYNC"}
    SocketThread = FALSE
    ErrorCallback = FALSE
    ConnectMayFail = TRUE
    SendMayFail = FALSE
    Answers <- OneBroker
    DisconnectArgs = {"hard"}
    Given <- TwoAddresses
    Redirections <- NoRedirections
    MaxConnects = 3
    MaxSockets = 2
    MaxRequests = 1
    Null = Null
INVARIANTS
    FailsAtMostOnce
    ConnectLeads

