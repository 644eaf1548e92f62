CONSTANTS
    MaxRetries = 0
    BatchSize = 2
    HasBudget = TRUE
    Chat = FALSE
    LateCalls = FALSE
    MaxInputs = 2
    Requests = {r1}
    Starter = Starter
    Sweeper = Sweeper
    HandlersMayDie = FALSE
    CommitMayFail = FALSE
    Reliable = TRUE
    GraceSuffices = FALSE
SPECIFICATION RunSpec
INVARIANTS FailureIsSettled
CHECK_DEADLOCK FALSE
