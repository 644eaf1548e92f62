CONSTANTS
    Experiments = {e1, e2}
    Workers = {w1, w2}
    None = None
    Planned = 1
    DbMayFail = TRUE
    WorkersMayDie = TRUE
    LockMayDrop = TRUE
    Savers = {s1, s2}
    Cases = {case1}
    Suites = {suite1}
    Imports = {import1}
    Bundles = {a, b}
    NoItem = NoItem
    Proposals = {p1, p2}
    Reviewers = {v1, v2}
    Nobody = Nobody
    Orders = {o1, o2}
    NoOrder = NoOrder
    SafetyEvaluators = {authorization}
    OtherEvaluators = {latency_budget}
    SuiteSize = 2
    MaxRunRetries = 1
    Writers = {h1, h2}
    Viewers = {c1}
    StreamPage = 2
    MaxSeq = 4
    Senders = {u1, u2}
    InboxPage = 2
    MaxMessages = 3
    MaxAttempts = 2
SPECIFICATION ServicesSpec
INVARIANTS
    ResultMeansCompleted EventLogIsLegal OneCallAtATime
    HistoryIsComplete AnswersAreStored SuiteMembersExist
    AcceptedIsStored ConfirmedGroupIsConsistent
    TurnTellsTheRefund
    RecommendationIsEarned
    StreamIsComplete MessagesAreRelayedOnce
PROPERTIES
    TerminalIsImmutable FollowsLifecycle ReviewedIsFinal
SYMMETRY Symmetry
CHECK_DEADLOCK FALSE
