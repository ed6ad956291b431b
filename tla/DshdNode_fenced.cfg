SPECIFICATION FairSpec
CONSTANTS
    MaxSpawns = 1
    Authority <- MCAuthority
    NoContext = NoContext
    QueueCap = 2
    MaxShutdowns = 1
    MaxFences = 1
    Faults = {}
CHECK_DEADLOCK FALSE
PROPERTY FencedShutdownShowsStopped
