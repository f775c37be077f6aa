SPECIFICATION Spec
CONSTANTS
    H = 2
    MaxRecvBuf = 6
    MaxNetMsg = 6
    Block = 2
    Streams <- MCWavs
INVARIANT
    MessagesIntact
\* the peer may stop sending, and a closed connection stays closed
CHECK_DEADLOCK FALSE
