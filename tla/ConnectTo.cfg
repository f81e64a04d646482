SPECIFICATION Spec
CONSTANTS
    Fd <- MCFd
    MaxAddrs = 4
INVARIANTS
    ReturnsTheOpenSocket
    FirstThatAccepts
