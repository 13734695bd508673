SPECIFICATION Spec
CONSTANTS
    AutoReconnect = TRUE
    Timed = FALSE
    TimedCount = 0
    Delayed = TRUE
    MaxConn = 2
    MaxItems = 2
INVARIANT CloseIsOwn
