CONSTANTS
    MaxRetries = 0
    BatchSize = 1
    HasBudget = TRUE
    Chat = FALSE
    LateCalls = FALSE
    MaxInputs = 2
    Requests = {r1, r2}
    Starter = Starter
    Sweeper = Sweeper
    HandlersMayDie = FALSE
    CommitMayFail = FALSE
    Reliable = TRUE
    GraceSuffices = TRUE
SPECIFICATION RunFairSpec
PROPERTIES EveryRunSettles SettlesForGood
CHECK_DEADLOCK FALSE
