SPECIFICATION FairSpec
CONSTANTS
    None = None
    Conn = {k1, k2}
    Addr = {a1, a2}
    MaxConnections = 1
    Handshake = TRUE
INVARIANTS
    WithinLimit
    ListReflectsPeers
    UiShowsPeers
PROPERTIES
    SlotsComeBack
    StopEndsAll
    ImplementsLifecycle
