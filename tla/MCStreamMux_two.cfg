\* Two sessions, one of which may fail, one stream each, and a process-wide budget
\* smaller than the two session budgets together.
SPECIFICATION Spec
CONSTANTS
    o1 = o1
    o2 = o2
    s1 = s1
    s2 = s2
    i1 = i1
    None = None
    Sessions = {s1, s2}
    Opens = {o1, o2}
    Ids = {i1}
    SessOf <- TwoSessions
    IdOf <- SameId
    ChunkSizes = {1}
    MaxChunk = 1
    MaxOpens = 1
    SessionCap = 2
    GlobalCap = 2
    EarlyData = FALSE
    PeerReads = FALSE
    CloseLog = FALSE
    Faulty = {s1}
    MaxData = 2
INVARIANTS
    CapsHold
