CONSTANTS
    BLOCKS = 3
    PINGS = 3
    Rules <- MCRules
    SenderTimeout = 2
    FirstTimeout = 1
    DataTimeout = 2
    MaxLost = 2
    MaxDups = 1
    MaxSwaps = 1
SPECIFICATION FairSpec
INVARIANTS
    TypeOK
    SurvivesLoss
    HolesReported
    PhasesApart
    DropsAsConfigured
PROPERTIES
    SenderEnds
    ReceiverEnds
CHECK_DEADLOCK FALSE
