CONSTANTS
    Base = 4
    HdrLen = 2
    Capacity = 4
    EOL <- MCEOL
    ConnectCmd <- MCConnectCmd
    Commands <- MCCommandsCrLf
    Payloads <- MCPayloads
    LockStep = TRUE
    SockBuf = 6
    MaxFrames = 2
    MaxDatagrams = 0
SPECIFICATION FairSpec
PROPERTIES
    FrameReaches
CHECK_DEADLOCK FALSE
