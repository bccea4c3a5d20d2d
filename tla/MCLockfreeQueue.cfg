SPECIFICATION Spec
CONSTANTS
    Threads = {t1, t2, t3}
    MaxPushes = 2
    MaxPops = 1
    MaxNodes = 4
INVARIANT ElementsIntact
SYMMETRY ThreadSymmetry
CHECK_DEADLOCK FALSE
