SPECIFICATION SetsSpec
CONSTANTS
    Threads = {t1, t2, t3}
    NoThread = NoThread
    Keys = {1, 2}
    max_level = 1
    InitialSets = {{}, {1}, {1, 2}}
    MaxNodes = 7
    MaxCalls = 3
    MapKeys = {1, 2, 3}
    MapHash <- Hashes
    MapBits = 3
    MapSizes = 16
    Maps <- SmallMaps
    MaxMapCalls = 2
INVARIANTS
    TowersAreWhole
    NodesAccountedFor
    NoDeadlock
    AnswersAreTrue
    SplitOrdered
    SizeIsExact
    LookupsAreTrue
PROPERTIES
    ImplementsSet
    KeysAreASet
SYMMETRY ThreadSymmetry
CHECK_DEADLOCK FALSE
