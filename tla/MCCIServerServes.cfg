CONSTANTS
    Peers = {p1}
    Fds = {f1}
    NoPeer = NoPeer
    NoSock = NoSock
    BadFd = BadFd
    MaxEvents = 2
    MaxBad = 1
    MaxUnread = 1
    MaxSay = 1
    Sayings = {"version", "leave"}
SPECIFICATION Spec
INVARIANTS
    ServesUntilShutdown
CHECK_DEADLOCK FALSE
