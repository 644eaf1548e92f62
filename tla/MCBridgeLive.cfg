CONSTANTS
    MaxRetries = 1
    BatchSize = 2
    HasBudget = TRUE
    Chat = TRUE
    LateCalls = TRUE
    MaxInputs = 2
SPECIFICATION FairSpec
PROPERTIES Terminates
CHECK_DEADLOCK FALSE
