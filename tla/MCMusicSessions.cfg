CONSTANTS
    Clients = {c1, c2, c3, c4}
    NoClient = NoClient
    MAX_SESSIONS = 2
SPECIFICATION FairSpec
INVARIANTS
    TypeOK
    AtMostMaxSessions
    CountMatchesChildren
PROPERTY Answered
CHECK_DEADLOCK FALSE
