SPECIFICATION FairSpec
CONSTANTS
    Conns = {a, b}
    Clients = {b}
    MaxConns = 1
    HandshakeTimeout = 1
    PageTimeout = 1
    MaxHeaderRead = 6
    MaxLine = 3
INVARIANTS
    SocketsBounded
    SlotBound
    DrainsOneRequest
    SessionShared
PROPERTY
    DialReturns
