\* A peer that sends DATA before OPEN_OK, against closeAll's claim to reclaim.
SPECIFICATION Spec
CONSTANTS
    o1 = o1
    o2 = o2
    s1 = s1
    s2 = s2
    i1 = i1
    None = None
    Sessions = {s1}
    Opens = {o1}
    Ids = {o1}
    SessOf <- OneSession
    IdOf <- OwnId
    ChunkSizes = {1}
    MaxChunk = 1
    MaxOpens = 1
    SessionCap = 1
    GlobalCap = 2
    EarlyData = TRUE
    PeerReads = FALSE
    CloseLog = TRUE
    Faulty = {s1}
    MaxData = 2
INVARIANT
    GlobalReclaimed
