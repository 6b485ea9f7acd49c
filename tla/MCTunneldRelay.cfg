CONSTANTS
    Clients = {c1, c2}
    NoClient = NoClient
    Sources = {s1, s2}
    Dests = {d1, d2}
    SrcPorts = {8, 9}
    NoAddr = NoAddr
    NoDst = NoDst
    BadDst = BadDst
    SESSIONS = 2
    NUM_PACKS = 2
    FirstPort = 1
    MaxDests = 2
    MaxPackets = 4
    MaxReplies = 1
SPECIFICATION Spec
SYMMETRY Symmetry
INVARIANTS
    HopRegistered
    RepliesReachSource
    Balanced
    BurstBounded
    StatsTellSent
PROPERTY ServiceSpec
CHECK_DEADLOCK FALSE
