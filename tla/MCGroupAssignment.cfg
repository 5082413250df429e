SPECIFICATION AssignmentSpec
CONSTANTS
    NoMember = NoMember
    Member = {1, 2}
    MaxJoins = 3
    PartitionCount <- MCCounts
    Subscriptions <- MCSubscriptions
    Inputs <- MCInputs
INVARIANTS
    AssignorsAreEven
    NoOverlapNoGaps
PROPERTY
    CrashedAreEvicted
CHECK_DEADLOCK FALSE
