SPECIFICATION FairSpec
CONSTANTS
    Jobs = {1, 2}
    Stubborn = {2}
    Owners = {a}
    Nobody = nobody
    NoCall = 0
    Calls = {c, d}
    Limit = 1
    Budget = 1
CHECK_DEADLOCK FALSE
INVARIANTS TypeOK CompletionIsHeard NothingOutlivesItsOwner
PROPERTIES KeepsRecord DisposalEnds
