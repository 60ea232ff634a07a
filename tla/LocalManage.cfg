SPECIFICATION FairSpec
CONSTANTS
    Config <- MCConfig
    Ports = 2
    MaxDepth = 16
    Batch = 6
    TxCap = 22
INVARIANTS
    TypeOK
    OpensConfigured
PROPERTY
    Opens
\* the thread pauses for ever and nothing is left to send
CHECK_DEADLOCK FALSE
