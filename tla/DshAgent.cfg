SPECIFICATION FairSpec
CONSTANTS
    N = 2
    MaxSteps = 2
    MaxActivity = 2
    GapSends = FALSE
INVARIANTS TypeOK OwnTurn
PROPERTIES KeepsTrace CancelIsRecorded DisposerSeesIdle NothingLeftBehind AbortConverges WakeSurvivesCancel
