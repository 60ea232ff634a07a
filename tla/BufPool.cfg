CONSTANTS
    b1 = b1  b2 = b2  b3 = b3  b4 = b4  b5 = b5  b6 = b6
    request = request  response = response  regroup = regroup
    Buffer <- Six
    ListNum = 2
    PoolNum = 3
    Thread <- Services
    Getters <- TwoAllocate
    Putters <- TwoFree
SPECIFICATION Spec
SYMMETRY BufferSymmetry
INVARIANTS TypeOK NothingShared ChainsLongEnough SlotsWhole
    WrongCountOnlyAfterRace
PROPERTIES LostOnlyByOverwrite
