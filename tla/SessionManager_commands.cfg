SPECIFICATION Spec
CONSTANTS
    None = None
    Uid = {u1, u2}
    Command = {c1, c2}
    MaxSessions = 3
INVARIANTS
    TypeOK
    MapIsSound
    HoldsEveryRunningUncontended
    OneRunning
    DeletedIsStopped
    AcknowledgedSurvives
SYMMETRY Interchangeable
