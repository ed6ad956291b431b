SPECIFICATION FairSpec
CONSTANTS
    N = 2
    MaxSteps = 1
    MaxActivity = 0
    GapSends = TRUE
PROPERTIES NothingLeftBehind
