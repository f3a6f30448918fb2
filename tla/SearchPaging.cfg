SPECIFICATION Spec
CONSTANTS
    LongMax = 99
    Library <- MCLibrary
    Starts <- MCStarts
    Concurrency = 2
    MaxQuerySplits = 3
    MaxResultWindow = 8
    DefaultTrack = 3
    Mapped <- MCMapped
    DynamicTypes <- MCDynamicTypes
INVARIANTS
    TotalHonest
    PagesInOrder
    NoneSkipped
CHECK_DEADLOCK FALSE
