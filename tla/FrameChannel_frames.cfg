SPECIFICATION FairSpec
CONSTANTS
    Writers = {w1, w2}
    Lengths = {247, 16375, 16376}
    MaxFrames = 3
CHECK_DEADLOCK FALSE
INVARIANTS
    Intact
    NonceFresh
PROPERTIES
    Delivered
