SPECIFICATION Spec
CONSTANTS
  AutoReconnect = TRUE
  ReconnectMax = 2
  AttemptCap = 4
INVARIANTS StopClearsReconnecting
