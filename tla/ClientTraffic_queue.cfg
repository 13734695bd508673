SPECIFICATION FairSpec
CONSTANTS
    AutoReconnect = TRUE
    Timed = TRUE
    TimedCount = 2
    Delayed = TRUE
    MaxConn = 2
    MaxItems = 3
INVARIANTS
    InOrder
    OneLossPerConnection
PROPERTIES
    DisconnectActs
    TimersEnd
    StopEndsAll
