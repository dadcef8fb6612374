CONSTANTS
    Messages = {m1, m2}
    Workers = {w1, w2}
    NoMessage = NoMessage
    Stamps <- MCStamps
    Second = 2
    Skew = 2
    TTL = 6
    MaxSeen = 0
    Patience = 1
    MaxClock = 14
SPECIFICATION Spec
INVARIANTS
    TypeOK
    AtMostOnce
CHECK_DEADLOCK FALSE
