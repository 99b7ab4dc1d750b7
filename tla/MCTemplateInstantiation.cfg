SPECIFICATION FairInstantiationSpec
CONSTANTS
    Names = {"a", "b", "c"}
    NoName = "none"
    MaxTasks = 3
    Callers = {"c1", "c2"}
    Missions = {"m1", "m2"}
    Prefixes = {"p1", "p2"}
    NoMission = "none"
INVARIANTS
    VerdictIsRight
    OrderIsRight
    DependsOnOwnTasks
    OneTaskPerStep
PROPERTIES
    EveryInstantiationEnds
CHECK_DEADLOCK FALSE
