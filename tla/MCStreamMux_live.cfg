\* Two OPENs of one session that carry the same id, DATA that need not wait for
\* OPEN_OK, and a peer that keeps reading while the connection is up.
SPECIFICATION FairSpec
CONSTANTS
    o1 = o1
    o2 = o2
    s1 = s1
    s2 = s2
    i1 = i1
    None = None
    Sessions = {s1}
    Opens = {o1, o2}
    Ids = {i1}
    SessOf <- OneSession
    IdOf <- SameId
    ChunkSizes = {1}
    MaxChunk = 1
    MaxOpens = 2
    SessionCap = 1
    GlobalCap = 2
    EarlyData = TRUE
    PeerReads = TRUE
    CloseLog = FALSE
    Faulty = {s1}
    MaxData = 1
CHECK_DEADLOCK FALSE
INVARIANTS
    NoOrphan
    OpenAnswered
PROPERTIES
    TornDown
    StreamEnds
