CONSTANTS
    s1 = s1
    s2 = s2
    s3 = s3
    Starts = {s1, s2, s3}
    ByPath <- MCByPath
    Pids = {p1, p2, p3}
    NoFile = NoFile
    Empty = Empty
SPECIFICATION Spec
SYMMETRY Symmetry
INVARIANTS
    TypeOK
    OneDaemon
    FileNamesDaemon
    StaleForCause
PROPERTIES
    RefusedForCause
CHECK_DEADLOCK FALSE
