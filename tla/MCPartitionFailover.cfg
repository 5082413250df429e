SPECIFICATION DataSpec
CONSTANTS
    N = 3
    t = t
    Topics = {t}
    Part <- MCPart
    NumPartitions = 1
    ReplicationFactor = 3
    FailAfter = 1
    Handlers = {}
    NoTopic = NoTopic
    MaxRecords = 3
    MaxCrashes = 2
    MaxRestarts = 0
    MaxInputs = 1
    BothFaults = TRUE
    MaxProduced = 2
INVARIANTS
    AckedIsHeld
    LogsAgree
CHECK_DEADLOCK FALSE
