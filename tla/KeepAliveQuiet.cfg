SPECIFICATION FairSpec
CONSTANTS
    MsPerSec = 2
    Wrap = 16
    PingAlways = FALSE
    DefaultPingInterval = 5
    PingTimeOut = 3
    KeepAlives = {0, 3, 8}
    NoProperty = NoProperty
    ServerKeepAlives = {NoProperty, 4}
    AnswerTime = 3
    MaxBlocked = 1
    RedirectWhileAwaiting = FALSE
    MaxConnections = 2
    MaxPings = 2
    Forever = 25
INVARIANTS
    NotCutOff
