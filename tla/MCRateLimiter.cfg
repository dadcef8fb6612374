SPECIFICATION Spec
CONSTANTS
    Threads = {t1, t2}
    Actions = {task}
    Global = Global
    Limits <- MCLimits
    Token = 2
    From = 1
    To = 2
    MaxClock = 2
    MaxChecks = 3
SYMMETRY MCSymmetry
INVARIANTS TypeOK WithinLimitUnlessRaced
CHECK_DEADLOCK FALSE
