SPECIFICATION FairSpec
CONSTANTS
    a = a
    b = b
    Streams <- Two
    Fresh = {b}
    Down <- Overfull
    ChanCap = 1
    WireCap = 1
    MayLeave = {a}
    MayFail = {}
PROPERTY
    WriterWoken
CHECK_DEADLOCK FALSE
