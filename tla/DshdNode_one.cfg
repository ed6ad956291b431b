SPECIFICATION Spec
CONSTANTS
    MaxSpawns = 2
    Authority <- MCAuthority
    NoContext = NoContext
    QueueCap = 3
    MaxShutdowns = 0
    MaxFences = 0
    Faults = {"protocol"}
CHECK_DEADLOCK FALSE
INVARIANT AtMostOneHarness
