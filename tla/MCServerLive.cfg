SPECIFICATION FairSpec
CONSTANTS
    a = a
    b = b
    Conn = {a}
    ThreadCnt = 2
    QueueCap = 2
    ScanOn = FALSE
    MayFail <- NoFailure
    MaxMsgs = 2
PROPERTIES AcceptedIsTaken ShutdownCompletes
CHECK_DEADLOCK FALSE
