SPECIFICATION TcpFairSpec
CONSTANTS
    FrameLen = 2
    Kernel = 3
    RecvMax = 3
    ClientRecvMax = 3
    Budget = 2
    MaxRx = 5
    MaxPending = 4
    MaxTx = 4
    MaxFrames = 4
PROPERTIES
    UplinkInOrder
    DownlinkInOrder
    NeverGivenUp
    DownlinkFlows
CHECK_DEADLOCK FALSE
