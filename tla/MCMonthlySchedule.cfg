SPECIFICATION FairSpec
CONSTANTS
    c1 = c1
    c2 = c2
    c3 = c3
    p1 = p1
    p2 = p2
    TaskSchedules = {}
    TemplateSchedules = {"daily", "monthly"}
    FileSchedules = {}
    Recurring = {"daily", "monthly"}
    Unparsable = {"monthly"}
    Clients = {c1}
    ProcessOf <- TwoProcesses
    HandClients = {}
    CronClients = {c1}
    Interval = 2
    ListLimit = 50
    MaxTime = 0
    MaxEdits = 0
    MaxCrashes = 0
PROPERTY
    DueIsServed
