CONSTANTS
    PINGS = 2
    Gap = 1
    Drain = 1
    MICRO = 2
    Epoch = 5
    MaxDups = 0
    MaxIdle = 1
SPECIFICATION Spec
INVARIANT CountedInTime
CHECK_DEADLOCK FALSE
