CONSTANTS
    Requests = {r1, r2, r3}
    NoRequest = NoRequest
    TransientFaults = TRUE
    Clients = {c1}
    MaxAgentEvents = 3
    Evaluators = 2
    SubscriberBuffer = 2
    Experiments = {e1}
    Workers = {w1, w2}
    None = None
    Planned = 2
    DbMayFail = TRUE
    WorkersMayDie = TRUE
    LockMayDrop = TRUE
SPECIFICATION ServicesSpec
INVARIANTS
    RefundedOnce RefundWasConfirmed CheckpointTellsTheEffect
    StreamFollowsTranscript SettledRunIsCleanedUp
PROPERTIES
    RequestsReturn StreamsEnd StartsReturn
CHECK_DEADLOCK FALSE
