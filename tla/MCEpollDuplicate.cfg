SPECIFICATION Spec
CONSTANTS
    c1 = c1
    c2 = c2
    c3 = c3
    a1 = a1
    a2 = a2
    Conn = {c1, c2, c3}
    Ip = {a1, a2}
    IpOf <- MCIpOf
    Listen = Listen
    None = None
    MaxIn = 2
    MaxSend = 1
    Endless = FALSE
    MaxFds = 3
    Faults <- NoFaults
INVARIANT
    NoDuplicateConnection
\* the thread waits for events, or has returned
CHECK_DEADLOCK FALSE
