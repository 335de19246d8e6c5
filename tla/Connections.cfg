CONSTANTS
    Proc = {p1, p2, p3}
    Client = {c1, c2}
    Name <- MCName
    Cut <- MCCut
    Activation = FALSE
    TcpCapacity = 2
    WrCapacity = 4
    TcpSockBuf = 2
    MaxBytes = 7
    WrSockBuf = 6
    MaxFrames = 4
    MaxLockStepFrames = 3
    MaxDatagrams = 2
SPECIFICATION ConnSpec
INVARIANTS
    SessionsForwardable Restartable
    ProxyTypesOK StreamIntegrity EofIsReal FramingKept
PROPERTIES
    WaitingAccepted Forwarded FrameReaches
CHECK_DEADLOCK FALSE
