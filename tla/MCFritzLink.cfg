CONSTANTS
    Socks = {s1, s2}
    NoFd = NoFd
    MaxCalls = 2
    MaxNet = 1
SPECIFICATION Spec
SYMMETRY Symmetry
INVARIANTS
    TypeOK
    
    FirstConnectNotGivenUp
    WokenForSocket
    SocketOwned
CHECK_DEADLOCK FALSE
