CONSTANTS
    MaxRetries = 1
    BatchSize = 2
    HasBudget = TRUE
    Chat = FALSE
    LateCalls = FALSE
    MaxInputs = 2
SPECIFICATION Spec
PROPERTIES AbortedEndIsIgnored
CHECK_DEADLOCK FALSE
