CONSTANTS
    Clients = {c1, c2}
    NoClient = NoClient
    Sources = {s1}
    Dests = {d1}
    SrcPorts = {9}
    NoAddr = NoAddr
    NoDst = NoDst
    BadDst = BadDst
    SESSIONS = 2
    NUM_PACKS = 2
    FirstPort = 1
    MaxDests = 2
    MaxPackets = 2
    MaxReplies = 1
SPECIFICATION Spec
INVARIANT SamePort
CHECK_DEADLOCK FALSE
