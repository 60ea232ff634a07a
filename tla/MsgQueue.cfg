CONSTANTS
    m1 = m1  m2 = m2  m3 = m3  Nothing = Nothing
    Message <- ThreeMessages
    QueueSize = 4
SPECIFICATION FairSpec
INVARIANTS TypeOK NullOutsideWindow
PROPERTIES ImplementsChannel WriteReturns StoredIsRead
