SPECIFICATION RestartSpec
CONSTANTS
    AutoReconnect = TRUE
    ReconnectMax = 1
    AttemptCap = 2
INVARIANTS
    ReplacementIsShown
