CONSTANTS
    Numbers = {t1, t2}
    Names = {ann}
    Blank = Blank
    Area = Area
    MaxCalls = 2
    MaxAdds = 2
SPECIFICATION FairSpec
INVARIANTS
    TypeOK
    AddedIsThere
    OneEntry
PROPERTIES
    CallCompletes
    ImplementsFeed
CHECK_DEADLOCK FALSE
