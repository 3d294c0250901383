SPECIFICATION FairSpec
CONSTANTS
    MaxRetries = 3
    BaseDelay = 5
    MaxBackoff = 6
    MaxDuration = 15
    ShiftLimit = 2
    Errors <- MCErrors
    Tags <- MCTags
    Assets = {"a"}
    Parent <- MCParent
    Sizes <- MCSizes
    FirstReleases <- MCFirst
    NumStorages = 2
    NumLimit = 2
    SizeLimit = 2
    PageSize = 3
    MaxChanges = 1
INVARIANTS
    TypeOK
    NewestStored
    OkMeansPruned
    WaitsBetweenTries
PROPERTIES
    GoodCopiesUntouched
    CancelPrunesNothing
    SyncEnds
