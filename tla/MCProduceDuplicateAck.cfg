SPECIFICATION Spec
CONSTANTS
    p = p
    q = q
    Producer <- One
    Counts = {1, 2}
    MaxBatches <- TwoBatches
    VarintBits = 8
    GroupBits = 3
    Streams <- MCStreams
    Half = 8
    Restarts = 0
PROPERTY
    AckedIsReplicated
CHECK_DEADLOCK FALSE
