CONSTANTS
    Files <- CodeFiles
    Numbers <- Callers
    MaxUses = 2
SPECIFICATION Spec
INVARIANTS
    TypeOK
    FoundIsListed
    
    InUseIsUp
CHECK_DEADLOCK FALSE
