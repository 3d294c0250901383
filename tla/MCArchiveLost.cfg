SPECIFICATION Spec
CONSTANTS
    b1 = b1
    b2 = b2
    x1 = x1
    Upstreams <- OneBranch
    Workers = {w1}
    Branches = {b1, b2}
    Commits = {x1, x2}
    NumStorages = 1
    Configs <- CachedCode
    MaxChanges = 1
    MaxCrashes = 0
INVARIANT ArchivedByNextRun
