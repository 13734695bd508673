SPECIFICATION Spec
CONSTANTS
    None = None
    Uid = {u1}
    Command = {c1, c2}
    MaxSessions = 2
INVARIANT HoldsEveryRunning
