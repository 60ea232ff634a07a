CONSTANTS
    NumBufids = 4
    PortIds <- MCPortIds
    NumQueues = 3
    TsTypes <- MCTwoTypes
    GateVectors <- MCAllGates
    Modes <- Qch
SPECIFICATION Spec
INVARIANTS
    TypeOK
    Accounted
PROPERTIES
    CqfHold
    ImplementsQueues
VIEW LiveRegistersAndSlot
