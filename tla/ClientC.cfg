SPECIFICATION Spec
CONSTANTS
    w1 = w1
    w2 = w2
    w3 = w3
    Waker <- MCWaker
    NoWaker = NoWaker
    ReqUnits = 2
    BodyUnits = 2
    TxCap = 1
INVARIANTS
    TypeOK
    WakersAccounted
    NoLostWakeup
    CleanExit
    ErrorsHaveACause
PROPERTIES
    Terminates
    ImplementsExchange
