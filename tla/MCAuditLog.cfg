SPECIFICATION AuditSpec
CONSTANTS
    Writers = {w1, w2}
    Keep = 2
    MaxSize = 2
    MaxEntries = 10
SYMMETRY MCSymmetry
INVARIANTS AuditTypeOK NewestKeptUnlessRaced BoundedUnlessRaced
CHECK_DEADLOCK FALSE
