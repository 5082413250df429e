SPECIFICATION FairLeaderSpec
CONSTANTS
    l = l
    f1 = f1
    f2 = f2
    w1 = w1
    w2 = w2
    h1 = h1
    h2 = h2
    h3 = h3
    Leader = l
    NoHandler = NoHandler
    Brokers <- TwoFollowers
    Replicas <- TwoReplicas
    Callers <- OneCaller
    Handlers <- TwoHandlers
    MaxOffset = 1
    LagTimeout = 0
    StatusPolls = FALSE
    Disconnects = TRUE
    Timeouts = FALSE
INVARIANT
    ReleasedUnlessPolled
PROPERTIES
    ProduceCompletes
    FollowersCatchUp
