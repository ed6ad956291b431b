SPECIFICATION FairSpec
CONSTANTS
    MaxSpawns = 2
    Authority <- MCAuthority
    NoContext = NoContext
    QueueCap = 2
    MaxShutdowns = 1
    MaxFences = 1
    Faults = {"spawn", "protocol", "wait"}
CHECK_DEADLOCK FALSE
INVARIANTS TypeOK AckMeansReaped RightChild
PROPERTIES SpawnsOnlyWhenActive ImplementsReducer ClosingEnds Recovers
