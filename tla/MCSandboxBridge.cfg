CONSTANTS
    MaxRetries = 1
    BatchSize = 2
    HasBudget = FALSE
    Chat = FALSE
    LateCalls = FALSE
    MaxInputs = 4
SPECIFICATION Spec
INVARIANTS TypeOK SuccessIsDelivered FailureIsVisible
PROPERTIES NoReplayAfterMutation AbortedEndIsIgnored
CHECK_DEADLOCK FALSE
