SPECIFICATION FairWorkSpec
CONSTANTS
    c1 = c1
    c2 = c2
    c3 = c3
    p1 = p1
    p2 = p2
    Clients = {c1, c3}
    Processes = {p1, p2}
    ProcessOf <- MCProcessOf
    Requests <- MCRequests
    NoFile = NoFile
    NoKey = NoKey
    NoRequest = NoRequest
    MaxCrashes = 1
    MaxItems = 2
INVARIANTS
    CopyIsFresh
    FlagIsTruthful
PROPERTIES
    MutexUntilMisfire
    QueueUntilMisfire
    EveryCallReturns
CONSTRAINT OneItemAfterMisfire
CHECK_DEADLOCK FALSE
