SPECIFICATION FairSpec
CONSTANTS
    N = 3
    Topics = {t}
    NumPartitions = 3
    ReplicationFactor = 2
    FailAfter = 1
    Handlers = {h}
    NoTopic = NoTopic
    MaxRecords = 4
    MaxCrashes = 1
    MaxRestarts = 1
    MaxInputs = 1
    BothFaults = FALSE
INVARIANTS
    TypeOK
    SingleWriterPrefix
    RestartKeepsView
    AppliedIsLogged
    RecordsDecode
PROPERTIES
    OneController
    LeaderReplaced
    ViewsConverge
CHECK_DEADLOCK FALSE
