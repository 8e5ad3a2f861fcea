CONSTANTS
    Byte = 4
    Messages <- MCMessages
    DataSize = 8
    MaxMessages = 2
    MaxData = 48
SPECIFICATION FairSpec
INVARIANTS
    TypeOK
    SizeIsWritten
    ReceivedAsSent
    StaysInside
CHECK_DEADLOCK FALSE
PROPERTIES
    Arrives
