SPECIFICATION FairSpec
CONSTANTS
    H = 3
    C = 2
    RcvBuf = 8
    Block = 4
    TooLarge = 12
    Word = 32
    QueueCap = 1
    Sessions <- MCSessions
INVARIANTS
    BytesAccounted
    IntactUnlessShort
PROPERTY
    EventuallyRead
\* the client is closed, or the peer sends no more
CHECK_DEADLOCK FALSE
