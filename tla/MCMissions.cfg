SPECIFICATION FairSpec
CONSTANTS
    Tasks = {"t1", "t2"}
    Runs = {"r1", "r2"}
    MaxEdits = 2
    MaxStarts = 1
INVARIANTS
    MissionsInv
    NoZombieMissionRun
    RunningMissionIsRun
PROPERTIES
    EveryMissionRunEnds
CHECK_DEADLOCK FALSE
