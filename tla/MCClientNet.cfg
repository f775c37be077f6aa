SPECIFICATION FairSpec
CONSTANTS
    Data <- MCData
    QueueCap = 1
    MaxFds = 2
    MaxCalls = 2
    MaxBreaks = 2
    MayFail <- NetFails
INVARIANTS
    UnitsInOrder
    NothingDropped
    NoThreadOutlivesClient
PROPERTIES
    AcceptedIsSent
    CloseCompletes
\* the client is closed, and then over
CHECK_DEADLOCK FALSE
