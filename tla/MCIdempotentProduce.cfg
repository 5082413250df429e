SPECIFICATION FairSpec
CONSTANTS
    p = p
    q = q
    Producer <- Two
    Counts = {2}
    MaxBatches <- ThreeAndOne
    VarintBits = 8
    GroupBits = 3
    Streams <- MCStreams
    Half = 4
    Restarts = 1
INVARIANTS
    TypeOK
    LandsOnce
    AckedIsLogged
    VarintsAreExact
    BatchesReadBack
PROPERTY
    SentIsAcked
CHECK_DEADLOCK FALSE
