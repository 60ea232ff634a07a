SPECIFICATION Spec
CONSTANTS
    ts = ts
    rc = rc
    other = other
    Tuple <- MCTuple
    NoTuple = NoTuple
    Static <- MCStatic
    TableLen = 5
    Packet <- MCPacket
    None = None
INVARIANTS
    TypeOK
    TagsRight
    NoStrayFlow
