SPECIFICATION Spec
CONSTANTS
    Addr <- MCAddr
    Null = Null
    Config = {root}
    Codes <- MCCodes
    Nothing = Nothing
    MaxLeft = 2
    Unchecked <- Tolerant
INVARIANTS
    TypeOK
    HandlesIntact
    NothingLost
    ResultsDecisive
PROPERTIES
    ImplementsApi
