SPECIFICATION CrashSpec
CONSTANTS
    a = a
    b = b
    NoMember = NoMember
    Member <- TwoMembers
    MaxJoins = 3
PROPERTY
    SurvivorIsReleased
CHECK_DEADLOCK FALSE
