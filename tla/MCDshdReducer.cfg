SPECIFICATION MCSpec
CONSTANTS
    Authority = {a1, a2}
    NoContext = NoContext
    Attempts = {1, 2, 3}
    MaxGeneration = 3
INVARIANTS TypeOK HonestLabel
PROPERTIES ClosedNeverAdopts KeepsContextPromise
