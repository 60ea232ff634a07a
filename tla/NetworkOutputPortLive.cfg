CONSTANTS
    NumBufids = 4
    PortIds <- MCPortIds
    NumQueues = 2
    TsTypes <- MCTwoTypes
    GateVectors <- MCQueue0Open
    Modes <- Qbv
SPECIFICATION FairSpec
PROPERTIES
    HandshakeCompletes
    TopQueueServed
VIEW LiveRegisters
