SPECIFICATION SpecSeen
CONSTANTS
    Threads = {t1, t2}
    Nodes = {head, n1, n2, n3}
    head_ = head
    Keys = {1, 2}
    Ops = {"insert", "erase", "contains"}
    InitialSets = {{}, {1}, {2}, {1, 2}}
    MaxCalls = 3
    max_hazard_pointers = 4
    ReclaimThreshold = 4
    NoThread = NoThread
    Outsider = Outsider
    MaxOutsiders = 1
    Null = Null
INVARIANTS
    TypeOK
    Sorted
    UnlinkedOnce
    AnswersAreTrue
PROPERTY ImplementsSet
SYMMETRY ListSymmetry
CHECK_DEADLOCK FALSE
