CONSTANTS
    Socks = {s1}
    NoFd = NoFd
    MaxCalls = 0
    MaxNet = 0
SPECIFICATION Spec
INVARIANTS Reconnects
CHECK_DEADLOCK FALSE
