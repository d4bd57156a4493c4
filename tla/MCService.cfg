SPECIFICATION Spec
CONSTANTS
    Lines <- MCLines
    Answers <- MCAnswers
    MaxLine = 3
    TailSize = 2
    MaxCount = 20
    MaxRead = 3
    HoldLimit = 3
    PromptEstimate = 4
    Upstreams = {u1}
    MaxHealthScore = 4
    Policies <- MCPolicies
    MaxHealthNow = 7
    Viewers = {v1}
    FeedCapacity = 1
    ActiveSnapshotLimit = 1
    Channels = {1}
    MaxRows = 2
    MaxInFlight = 2
    MaxUpdates = 3
    MaxRotations = 1
    Requests = {r1, r2}
    Tokens = {"t1", "t2"}
    BootstrapToken = "t1"
    MaxWaiters = 1
    MaxGeneration = 3
    MaxRestarts = 1
    Handlers = {1, 2, 3}
    QueueCapacity = 2
    BatchSize = 2
INVARIANTS
    TypeOK
    AccountIsTheAnswer
    HealthIsEarned
    ShutdownKeepsRows
    GrantsAreCurrent
PROPERTIES
    FeedsCatchUp
    EveryRequestAnswered
CHECK_DEADLOCK FALSE
