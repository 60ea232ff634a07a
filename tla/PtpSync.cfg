SPECIFICATION Spec
CONSTANTS
    Low = 5
    Digit = 8
    Top = 256
    Word = 1024
    Start = 12
    Skews <- MCSkews
    LinkDelay = {0, 1}
    Timer = 2
    Part = 16
    TxCap = 3
    PeriodCycles = 5
    PeriodReg = 4
    MaxSync = 4
    MaxNow = 17
    NetCap = 2
INVARIANTS
    TypeOK
    GuideIsSum
    GuidesByOneCycle
PROPERTY
    SyncStep
\* the bounds end every behaviour
CHECK_DEADLOCK FALSE
