SPECIFICATION FairSpec
CONSTANTS
    Slots = {1, 2}
    Clients = {a, b}
    MaxEvents = 3
    MaxTrouble = 1
CHECK_DEADLOCK FALSE
INVARIANTS TypeOK NotStranded LiveSessionIsTheLog InspectionIsFresh
PROPERTIES KeepsDurableLog Answered
