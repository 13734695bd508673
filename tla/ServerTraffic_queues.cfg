SPECIFICATION FairTrafficSpec
CONSTANTS
    None = None
    Conn = {k1, k2}
    Addr = {a1, a2}
    MaxConnections = 0
    Handshake = FALSE
    Msg = {m1}
    Answer = {r1}
INVARIANTS
    InOrder
PROPERTIES
    SendMeetsPeers
    QueuesDrain
CHECK_DEADLOCK FALSE
