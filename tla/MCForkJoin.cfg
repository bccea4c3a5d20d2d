SPECIFICATION FairSpec
CONSTANTS
    thread_count = 2
    Callers = {c1}
    Inputs <- Ranges
    Match = 1
    Bad = 7
    Depth = 3
    min_per_thread = 1
    sequential_threshold = 2
    hardware_threads = 2
INVARIANTS
    ResultIsRight
    NoStrayTasks
PROPERTIES
    CallsReturn
    FuturesSettle
CHECK_DEADLOCK FALSE
