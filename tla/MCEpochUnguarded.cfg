SPECIFICATION Spec
CONSTANTS
    Threads = {t1, t2, t3}
    Nodes = {n1}
    max_threads = 2
    reclaim_threshold = 2
    MaxEpoch = 2
    NoThread = NoThread
    NoNode = NoNode
    Unguarded = TRUE
INVARIANT NoUseAfterFree
SYMMETRY ThreadSymmetry
CHECK_DEADLOCK FALSE
