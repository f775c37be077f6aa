SPECIFICATION FairSpec
CONSTANTS
    H = 2
    MaxRecvBuf = 6
    MaxNetMsg = 6
    Block = 2
    Streams <- MCStreams
INVARIANTS
    BytesAccounted
    NothingLeftBehind
    OverrunsOnlyOnEntry
    IntactUnlessSplit
PROPERTIES
    AllReadUnlessFull
    KeepsContract
    EventuallyRead
\* the peer may stop sending, and a closed connection stays closed
CHECK_DEADLOCK FALSE
