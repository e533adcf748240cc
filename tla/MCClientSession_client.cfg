SPECIFICATION FairSpec
CONSTANTS
    a = a
    b = b
    Streams <- Two
    Fresh = {b}
    Down <- Fits
    ChanCap = 1
    WireCap = 1
    MayLeave = {a}
    MayFail = {b}
INVARIANT
    WholeAtEof
PROPERTIES
    DownloadArrives
    CopierReleased
    EndsWithSession
CHECK_DEADLOCK FALSE
