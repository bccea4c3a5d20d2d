SPECIFICATION Spec
CONSTANTS
    Threads = {t1, t2, t3}
    Nodes = {n1, n2}
    max_hazard_pointers = 2
    ReclaimThreshold = 2
    MaxPushes = 4
    NoThread = NoThread
    Outsider = Outsider
    MaxOutsiders = 0
    Null = Null
INVARIANTS
    TypeOK
    NoUseAfterFree
    ReclaimedOnce
    NodesAccountedFor
PROPERTY ImplementsStack
SYMMETRY StackSymmetry
