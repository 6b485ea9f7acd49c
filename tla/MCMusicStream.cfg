CONSTANTS
    BUFSIZE = 2
    bufsize = 4
    targetbf = 2
    LOG_LEN = 3
    MaxSize = 5
SPECIFICATION FairSpec
INVARIANTS
    TypeOK
    RateIsSent
PROPERTIES
    QueueSpec
    EndsOnceStarted
CHECK_DEADLOCK FALSE
