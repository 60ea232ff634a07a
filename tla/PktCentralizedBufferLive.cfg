CONSTANTS
    NumPorts = 2
    NumBufids = 3
    NoBufid = NoBufid
    Wired <- MCWired
    HostPort <- MCHost
    OutMaps <- MCTwoMaps
SPECIFICATION FairSpec
PROPERTIES
    ImplementsPool
    LastReleaseReturns
    NoStarvation
VIEW LiveRegisters
