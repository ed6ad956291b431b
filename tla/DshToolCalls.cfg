SPECIFICATION FairSpec
CONSTANTS
    N = 3
    MaxParallel = 2
    Faults = {"prepare", "dispatch", "finalize"}
    Retryable = {2}
CHECK_DEADLOCK FALSE
INVARIANTS TypeOK BarrierHolds StepIsHonest
PROPERTIES KeepsLedger AbortEnds
