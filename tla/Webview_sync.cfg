SPECIFICATION FairSpec
CONSTANTS
    None = None
    Addr = {a1, a2}
    MaxDatagrams = 2
    Sync = {y1}
    MaxReloads = 1
INVARIANTS
    SettledAgrees
    NothingUnreadInView
PROPERTIES
    StopIsShown
    ImplementsLifecycle
