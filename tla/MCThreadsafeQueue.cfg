SPECIFICATION FairSpec
CONSTANTS
    Threads = {t1, t2, t3}
    MaxPushes = 3
    NoThread = NoThread
    None = None
    Empty = Empty
INVARIANT TypeOK
PROPERTIES
    ImplementsQueue
    HeadMutexIsReleased
CHECK_DEADLOCK FALSE
