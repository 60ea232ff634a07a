CONSTANTS
    NumPorts = 2
    NumBufids = 4
    NoBufid = NoBufid
    Wired <- MCWired
    HostPort <- MCHost
    OutMaps <- MCOutMaps
SPECIFICATION Spec
INVARIANTS
    TypeOK
    OneOwner
    CountIsCopies
    MonitorsQuiet
PROPERTIES
    OfferHeld
VIEW LiveRegisters
