SPECIFICATION ExecutionSpec
CONSTANTS
    StepCount = 2
    MaxAttempts = 2
    MaxRuns = 2
    CallBudget = 0
    MaxCrashes = 1
    Executors = {e1, e2}
    ApiUsers = TRUE
    AwaitingSteps <- FirstStep
    HttpSteps <- LastStep
    RetryLimit <- RetryOnce
INVARIANTS
    ExecutionInv
    CompletedExact
    LatestAttemptAgrees
    CancelledNeverCompleted
PROPERTIES
    Spec
CHECK_DEADLOCK FALSE
