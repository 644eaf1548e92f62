CONSTANTS
    Requests = {r1, r2}
    Starter = Starter
    Sweeper = Sweeper
    HandlersMayDie = TRUE
    CommitMayFail = FALSE
    MaxEvents = 3
SYMMETRY Perms
SPECIFICATION Spec
INVARIANTS TypeOK CompletedHasEvidence AckedIsKept
PROPERTIES SettledIsFinal DeliversInOrder
CHECK_DEADLOCK FALSE
