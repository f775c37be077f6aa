SPECIFICATION FairSpec
CONSTANTS
    c1 = c1
    c2 = c2
    c3 = c3
    a1 = a1
    a2 = a2
    Conn = {c1, c2, c3}
    Ip = {a1, a2}
    IpOf <- MCIpOf
    Listen = Listen
    None = None
    MaxIn = 1
    MaxSend = 1
    Endless = TRUE
    MaxFds = 2
    Faults <- AllFaults
INVARIANTS
    EventsAreLive
    ClientCntIsOpenSocks
    NoLostWakeup
PROPERTY
    ExitReturns
\* the thread waits for events, or has returned
CHECK_DEADLOCK FALSE
