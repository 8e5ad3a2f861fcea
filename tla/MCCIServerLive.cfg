CONSTANTS
    Peers = {p1, p2}
    Fds = {f1}
    NoPeer = NoPeer
    NoSock = NoSock
    BadFd = BadFd
    MaxEvents = 1
    MaxBad = 1
    MaxUnread = 1
    MaxSay = 1
    Sayings = {"leave", "request"}
SPECIFICATION FairSpec
INVARIANTS
    NoLeak
PROPERTIES
    
    GoneIsReleased
    ShutdownFinishes
CHECK_DEADLOCK FALSE
