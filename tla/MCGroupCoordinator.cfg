SPECIFICATION Spec
CONSTANTS
    a = a
    b = b
    c = c
    NoMember = NoMember
    Member <- ThreeMembers
    MaxJoins = 4
SYMMETRY Symmetric
INVARIANTS
    TypeOK
    MembersMatchJoinOrder
    LeaderIsFirst
    RebalanceHasTimer
    SessionsAreTimed
    GenerationIsCovered
    StableIsAssigned
CHECK_DEADLOCK FALSE
