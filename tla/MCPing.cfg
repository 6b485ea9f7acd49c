CONSTANTS
    PINGS = 3
    Gap = 1
    Drain = 1
    MICRO = 2
    Epoch = 5
    MaxDups = 1
    MaxIdle = 1
SPECIFICATION FairSpec
INVARIANTS
    TypeOK
    SignalsMatchBuffer
    AnswersFollowPings
    PingsSpaced
PROPERTY Finishes
CHECK_DEADLOCK FALSE
