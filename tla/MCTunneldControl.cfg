CONSTANTS
    Clients = {c1, c2, c3}
    NoClient = NoClient
    Sources = {s1, s2, s3}
    Dests = {d1}
    SrcPorts = {9}
    NoAddr = NoAddr
    NoDst = NoDst
    BadDst = BadDst
    SESSIONS = 2
    NUM_PACKS = 2
    FirstPort = 1
    MaxDests = 3
    MaxPackets = 1
    MaxReplies = 0
SPECIFICATION FairSpec
INVARIANTS
    TypeOK
    OneSlotPerSource
    SamePortWhenQuiet
PROPERTIES
    Answered
    SessionEnds
CHECK_DEADLOCK FALSE
