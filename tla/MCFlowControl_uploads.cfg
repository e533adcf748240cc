\* Two uploads, in a session whose cap holds exactly one window; the process-wide
\* cap leaves it that window, or one byte less.
SPECIFICATION FairSpec
CONSTANTS
    a = a
    b = b
    Uploads <- Two
    Plan <- Mixed
    Window = 4
    SessionCap = 4
    GlobalCap = 6
    OtherBytes = {2, 3}
    HalfClose = {b}
    MayFail = {a}
    MayTimeOut = {b}
INVARIANTS
    WindowConserved
PROPERTIES
    ShedOnlyIfCrowded
    RefinesUpload
    UploadArrives
    NoStuckWriter
