SPECIFICATION FairSpec
CONSTANTS
    Runs = {r1, r2}
    NoRun = NoRun
    MaxCrashes = 0
    MaxRequests = 0
INVARIANTS
    TurnsSerialized
CHECK_DEADLOCK FALSE
