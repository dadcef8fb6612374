CONSTANTS
    chat = chat
    Actions = {chat}
    DefaultGrant = {chat}
    Records <- MCBlocks
    Effects <- MCBlockEffects
    Peers = {p1, p2}
    Instances = {i1, i2}
    Inodes = {n1, n2, n3}
    NoInode = NoInode
    NoRecord = NoRecord
    Empty = Empty
    Torn = Torn
SPECIFICATION Spec
SYMMETRY MCSymmetry
INVARIANTS
    TypeOK
    IntactUnlessOverlap
    DurableUnlessOutdated
PROPERTIES
    ImplementsSerialMap
CHECK_DEADLOCK FALSE
