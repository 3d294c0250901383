SPECIFICATION Spec
CONSTANTS
    Tokens <- MCTokens
    LowerCase <- MCLowerCase
    Handlers = {h1, h2}
    Repositories <- MCRepositories
    RepositoryPatches <- MCRepositoryPatches
    RepositoryIds <- MCRepositoryIds
    Storages <- MCStorages
    StoragePatches <- MCStoragePatches
    StorageIds <- MCStorageIds
    FirstFiles <- MCFirstFiles
    MaxRequests = 2
INVARIANTS
    TypeOK
    StartsAgain
    KeysUnique
    FileFollowsMemory
    FoundHoweverSpelled
\* After the last request, with a file that no server starts from, nothing is left to do.
CHECK_DEADLOCK FALSE
