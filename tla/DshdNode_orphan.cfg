SPECIFICATION Spec
CONSTANTS
    MaxSpawns = 1
    Authority <- MCAuthority
    NoContext = NoContext
    QueueCap = 3
    MaxShutdowns = 1
    MaxFences = 0
    Faults = {}
CHECK_DEADLOCK FALSE
INVARIANT NoOrphans
