CONSTANTS
    Clients = {c1, c2, c3}
    NoClient = NoClient
    Sources = {s1, s2}
    Dests = {d1, d2}
    SrcPorts = {8, 9}
    NoAddr = NoAddr
    NoDst = NoDst
    SESSIONS = 2
    FirstPort = 1
    LastPort = 3
    MaxPackets = 2
    MaxReplies = 1
SPECIFICATION Spec
SYMMETRY Symmetry
INVARIANTS
    RegistrationsHonoured
    RepliesReachSource
PROPERTY ServiceSpec
CHECK_DEADLOCK FALSE
