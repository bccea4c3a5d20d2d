SPECIFICATION Spec
CONSTANTS
    Threads = {t1, t2}
    Nodes = {head, n1, n2, n3}
    head_ = head
    Keys = {1, 2, 3}
    Ops = {"erase"}
    InitialSets = {{1, 2, 3}}
    MaxCalls = 4
    max_hazard_pointers = 4
    ReclaimThreshold = 1
    NoThread = NoThread
    Outsider = Outsider
    MaxOutsiders = 0
    Null = Null
INVARIANT NoUseAfterFree
SYMMETRY ListSymmetry
CHECK_DEADLOCK FALSE
