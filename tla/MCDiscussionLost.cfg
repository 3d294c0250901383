SPECIFICATION Spec
CONSTANTS
    Items = {1, 2, 3}
    PageSize = 2
    NumStorages = 1
    Configs <- CachedDiscussion
    FirstTimes <- InOrder
    MaxTime = 3
    MaxChanges = 0
INVARIANT Resumes
