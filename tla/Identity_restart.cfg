SPECIFICATION Spec
CONSTANTS
    Missing = Missing
    Empty = Empty
    Invalid = Invalid
    MaxPicks = 5
PROPERTIES
    PskStable
    CnStable
    NeverTorn
