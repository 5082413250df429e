SPECIFICATION FaultSpec
CONSTANTS
    short = short
    long = long
    Payload <- MCPayload
    PayloadBytes <- MCBytes
    HeaderBytes = 1
    MaxSegmentBytes = 7
    IndexInterval = 3
    MaxOffset = 4
INVARIANT
    ReadIsExact
