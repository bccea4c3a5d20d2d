SPECIFICATION FairSpec
CONSTANTS
    Threads = {t1, t2}
    MaxPushes = 2
    NoThread = NoThread
    None = None
    Empty = Empty
PROPERTY WaitersAreServed
CHECK_DEADLOCK FALSE
