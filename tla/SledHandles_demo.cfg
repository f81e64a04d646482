SPECIFICATION Spec
CONSTANTS
    a1 = a1
    a2 = a2
    a3 = a3
    a4 = a4
    a5 = a5
    a6 = a6
    Addr <- MCAddr
    Null = Null
    MaxSets = 3
    MaxItems = 2
    FreesPath = FALSE
    FreesUsedConfig = TRUE
SYMMETRY Symmetry
INVARIANTS
    NoMisuse
