CONSTANTS
    Documents <- MCDocuments
    Numbers <- MCNumbers
    Pages <- MCPages
    SourceId = 1
    MaxLookups = 2
SPECIFICATION FairSpec
INVARIANTS
    TypeOK
    UrlFits
    UrlAsked
    
PROPERTIES
    LookupEnds
CHECK_DEADLOCK FALSE
