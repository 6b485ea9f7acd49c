CONSTANTS
    c1 = c1
    c2 = c2
    c3 = c3
    Clients = {c1, c2, c3}
    Wrong = {c3}
    NoConn = NoConn
    BACKLOG = 1
    MaxConns <- MCMaxConns
SPECIFICATION FairSpec
PROPERTIES
    ServiceSpec
    Answered
CHECK_DEADLOCK FALSE
