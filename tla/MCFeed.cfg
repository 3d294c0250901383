SPECIFICATION FairSpec
CONSTANTS
    Items = {1, 2, 3}
    PageSize = 2
    NumStorages = 1
    Configs <- All
    FirstTimes <- InOrder
    MaxTime = 3
    MaxChanges = 2
INVARIANTS
    TypeOK
    StoresAllNewer
    CatchesUp
    ArchivedAtEnd
PROPERTIES
    RunEnds
