CONSTANTS
    r1 = r1
    r2 = r2
    n1 = n1
    t1 = t1
    p1 = p1
    None = None
    Buffer <- MCBuffer
    OwnBuffer <- MCLiveOwnBuffer
    Packet <- OtherPackets
    Roles <- Slave
    TxCap = 1
    RxCap = 1
    RcCap = 1
SPECIFICATION FairSpec
PROPERTY Returns
