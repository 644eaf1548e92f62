CONSTANTS
    MaxRetries = 1
    BatchSize = 2
    HasBudget = FALSE
    Chat = FALSE
    LateCalls = TRUE
    MaxInputs = 2
SPECIFICATION Spec
PROPERTIES NoReplayAfterMutation
CHECK_DEADLOCK FALSE
