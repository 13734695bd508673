SPECIFICATION FairSpec
CONSTANTS
    AutoReconnect = TRUE
    ReconnectMax = 2
    AttemptCap = 4
INVARIANTS
    TypeOK
    UiAgrees
    StoppedStaysOffline
    RetriesEnd
PROPERTIES
    StopEndsTask
    LossIsRetried
    ImplementsLifecycle
