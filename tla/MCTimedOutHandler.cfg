SPECIFICATION Spec
CONSTANTS
    c1 = c1
    c2 = c2
    c3 = c3
    p1 = p1
    p2 = p2
    TaskSchedules = {}
    TemplateSchedules = {}
    FileSchedules = {"file"}
    Recurring = {}
    Unparsable = {}
    Clients = {c1, c3}
    ProcessOf <- TwoProcesses
    HandClients = {}
    CronClients = {c1}
    Interval = 1
    ListLimit = 1
    MaxTime = 1
    MaxEdits = 0
    MaxCrashes = 0
INVARIANT
    FileRunsExclusively
