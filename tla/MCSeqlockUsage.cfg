SPECIFICATION SyncSpec
CONSTANTS
    Threads = {t1, t2, t3, t4}
    capacity_ = 2
    MaxPushes = 4
    Participants = {t1, t2, t3}
    MaxPermits = 2
    MaxPhases = 3
    Generations = 2
    Users = {t1, t2, t3}
    writer_bit = 4
    MaxWrites = 2
    UsageComment = TRUE
PROPERTY
    NoTornRead
CHECK_DEADLOCK FALSE
