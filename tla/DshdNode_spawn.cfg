SPECIFICATION FairSpec
CONSTANTS
    MaxSpawns = 2
    Authority <- MCAuthority
    NoContext = NoContext
    QueueCap = 3
    MaxShutdowns = 0
    MaxFences = 0
    Faults = {"spawn"}
CHECK_DEADLOCK FALSE
PROPERTY AlwaysRecovers
