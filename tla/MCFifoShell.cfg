CONSTANTS
    LEN = 2
    NL = NL
    Q = Q
    MaxLines = 3
    MaxOut = 5
    MaxKills = 2
    MaxStarts = 2
SPECIFICATION FairSpec
INVARIANTS
    OwnAnswer
    AnswersLag
PROPERTIES
    ServiceSpec
    Answered
CHECK_DEADLOCK FALSE
