SPECIFICATION StoreSpec
CONSTANTS
    Key <- MCKey
    Payload <- MCPayload
    PayloadBytes <- MCBytes
    HeaderBytes = 1
    MaxSegmentBytes = 7
    IndexInterval = 3
    MaxOffset = 4
INVARIANTS
    StoreTypeOK
    FetchReturnsLastCommit
    ReadIsExact
    ListedRangeIsWhole
    IndexIsSound
PROPERTY
    ImplementsAppendOnlyLog
