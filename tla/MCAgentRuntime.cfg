SPECIFICATION RuntimeSpec
CONSTANTS
    Runs = {r1, r2}
    NoRun = NoRun
    MaxCrashes = 1
    MaxRequests = 2
    Providers = 3
    MaxAttempts = 3
INVARIANTS
    MarkerOfHolder
    SweepSparesHolders
    TurnsInOrder
    FailsOnlyExhausted
PROPERTIES
    EveryRunEnds
    NoCallAfterAbort
    EndsInTime
CHECK_DEADLOCK FALSE
