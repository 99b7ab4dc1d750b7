SPECIFICATION FairExecutionSpec
CONSTANTS
    StepCount = 3
    MaxAttempts = 8
    MaxRuns = 8
    CallBudget = 6
    MaxCrashes = 1
    Executors = {e1}
    ApiUsers = FALSE
    AwaitingSteps <- FirstStep
    HttpSteps <- LastStep
    RetryLimit <- RetryOnce
INVARIANTS
    NoZombieStep
    OneRunPerStep
PROPERTIES
    DisciplinedSpec
    ImplementsStepOrder
    EveryRunEnds
    ExecutorReturns
CHECK_DEADLOCK FALSE
