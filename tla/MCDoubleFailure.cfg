SPECIFICATION FairSpec
CONSTANTS
    N = 3
    Topics = {t}
    NumPartitions = 3
    ReplicationFactor = 3
    FailAfter = 2
    Handlers = {h}
    NoTopic = NoTopic
    MaxRecords = 4
    MaxCrashes = 2
    MaxRestarts = 0
    MaxInputs = 0
    BothFaults = TRUE
PROPERTY
    LeaderReplaced
CHECK_DEADLOCK FALSE
