SPECIFICATION FairSpec
CONSTANTS
    c1 = c1
    c2 = c2
    c3 = c3
    p1 = p1
    p2 = p2
    TaskSchedules = {"task"}
    TemplateSchedules = {"template"}
    FileSchedules = {"file"}
    Recurring = {"task"}
    Unparsable = {}
    Clients = {c1, c2, c3}
    ProcessOf <- TwoProcesses
    HandClients = {c2}
    CronClients = {c1}
    Interval = 1
    ListLimit = 1
    MaxTime = 1
    MaxEdits = 2
    MaxCrashes = 1
INVARIANT
    OverlapGuard
PROPERTY
    AttemptMovesOn
    DueIsServed
CONSTRAINT
    TwoEvents
