SPECIFICATION Spec
CONSTANTS
    a = a
    b = b
    Conn = {a, b}
    ThreadCnt = 2
    QueueCap = 2
    ScanOn = TRUE
    MayFail <- SomeFail
    MaxMsgs = 2
INVARIANTS
    Conservation
    ReportConsistent
    NoThreadOutlivesServer
PROPERTY
    DeliversInOrder
\* the process ends
CHECK_DEADLOCK FALSE
