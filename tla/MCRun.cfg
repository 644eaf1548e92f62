CONSTANTS
    MaxRetries = 0
    BatchSize = 1
    HasBudget = FALSE
    Chat = FALSE
    LateCalls = FALSE
    MaxInputs = 2
    Requests = {r1, r2}
    Starter = Starter
    Sweeper = Sweeper
    HandlersMayDie = TRUE
    CommitMayFail = TRUE
    Reliable = FALSE
    GraceSuffices = FALSE
SPECIFICATION RunSpec
CONSTRAINT OneFault
SYMMETRY Perms
INVARIANTS RunTypeOK CompletedRunEnded
PROPERTIES SuccessWasSettled RunDeliversInOrder
CHECK_DEADLOCK FALSE
