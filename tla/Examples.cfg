SPECIFICATION ExamplesSpec
CONSTANTS
    Addr <- MCAddr
    Null = Null
    Config = {root}
    Codes <- MCCodes
    Nothing = Nothing
    MaxLeft = 0
    Unchecked = {}
    MaxRows = 4
    NullPtr = NullPtr
\* The programs end.
CHECK_DEADLOCK FALSE
INVARIANTS
    UsesWhatIsThere
    ReleasesAll
    AbortsHaveACause
    CutShortOnlyByError
PROPERTIES
    Ends
