CONSTANTS
    Socks = {s1}
    NoFd = NoFd
    MaxCalls = 0
    MaxNet = 0
SPECIFICATION FairSpec
PROPERTIES ShutdownReturns
CHECK_DEADLOCK FALSE
