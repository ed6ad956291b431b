SPECIFICATION Spec
CONSTANTS
    Daemon = {d1, d2, d3}
    NodeId = {n1, n2}
    NoFile = NoFile
    Corrupt = Corrupt
    MaxStarts = 4
    MaxLosses = 1
SYMMETRY DaemonSymmetry
CHECK_DEADLOCK FALSE
INVARIANTS TypeOK AcknowledgedIsForGood ServesWhatIsStored RaceHasWinner
