SPECIFICATION Spec
CONSTANTS
    Threads = {t1, t2, t3}
    Nodes = {n1, n2}
    max_threads = 2
    reclaim_threshold = 2
    MaxEpoch = 4
    NoThread = NoThread
    NoNode = NoNode
    Unguarded = FALSE
INVARIANTS
    NoUseAfterFree
    AtOnePlace
    NothingLost
SYMMETRY ThreadSymmetry
CHECK_DEADLOCK FALSE
