CONSTANTS
    Peers = {p1, p2}
    Fds = {f1, f2}
    NoPeer = NoPeer
    NoSock = NoSock
    BadFd = BadFd
    MaxEvents = 2
    MaxBad = 1
    MaxUnread = 1
    MaxSay = 1
    Sayings = {"version", "leave", "truncated", "short"}
SPECIFICATION Spec
SYMMETRY Symmetry
INVARIANTS
    TypeOK
    LockHeld
    OwnSocket
    DistinctSockets
    EventsInOrder
    Delivered
    MarkedForCause
CHECK_DEADLOCK FALSE
