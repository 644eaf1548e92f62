CONSTANTS
    MaxRetries = 0
    BatchSize = 1
    HasBudget = FALSE
    Chat = FALSE
    LateCalls = FALSE
    MaxInputs = 2
    Requests = {r1, r2}
    Starter = Starter
    Sweeper = Sweeper
    HandlersMayDie = FALSE
    CommitMayFail = FALSE
    Reliable = FALSE
    GraceSuffices = FALSE
SPECIFICATION RunSpec
CONSTRAINT OneFault
SYMMETRY Perms
INVARIANTS SuccessIsSettled
CHECK_DEADLOCK FALSE
