SPECIFICATION MCSpec
CONSTANTS
    b1 = b1
    b2 = b2
    x1 = x1
    Upstreams <- OneOrTwo
    Workers = {w1, w2}
    Branches = {b1, b2}
    Commits = {x1, x2}
    NumStorages = 1
    Configs <- Varied
    MaxChanges = 1
    MaxCrashes = 1
INVARIANTS
    TypeOK
    StoredWhenUpdated
    FollowsAllBranches
PROPERTIES
    DeletionSafe
    ArchiveNeverRegresses
    SyncReturns
