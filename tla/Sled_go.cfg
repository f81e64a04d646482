SPECIFICATION Spec
CONSTANTS
    c1 = c1
    c2 = c2
    c3 = c3
    b1 = b1
    b2 = b2
    b3 = b3
    b4 = b4
    b5 = b5
    Caller <- MCCaller
    Buf <- MCBuf
    NoBuf = NoBuf
    Missing = Missing
    MaxResets = 2
    Empties = TRUE
    Asks <- MCAsks
    Reuses <- MCReuses
INVARIANTS
    NoLostUpdate
    BuffersOwned
PROPERTIES
    RetriesEnd
