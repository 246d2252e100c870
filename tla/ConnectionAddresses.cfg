SPECIFICATION Spec
CONSTANTS
    TickModes = {"SYNC"}
    SocketThread = FALSE
    ErrorCallback = FALSE
    ConnectMayFail = FALSE
    SendMayFail = FALSE
    Answers <- KnownSessions
    DisconnectArgs = {}
    Given <- TwoAddresses
    Redirections <- ToAnother
    MaxConnects = 1
    MaxSockets = 2
    MaxRequests = 0
    Null = Null
PROPERTY
    OtherAddressesTried

