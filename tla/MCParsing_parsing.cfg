SPECIFICATION Spec
CONSTANTS
    KeyLen = 3
    Specs <- NoneOneOrTwo
    Targets <- Payloads
    Psks <- Keys
    Ports <- OnePort
INVARIANTS
    DialsWhatWasAsked
    RelaysExactlyListed
    SharesTheServer
