SPECIFICATION FairSpec
CONSTANTS
    r1 = r1
    Requests = {r1}
    Jobs = {j1}
    RequestOf <- MCRequestOf
    Cancels = {c1, c2}
    NumComponents = 1
    Streams = {s1}
INVARIANTS
    TypeOK
    NoStuckJob
    RegistryExact
    CompletedIsWhole
    CancelWins
    OkMeansAll
PROPERTIES
    ImplementsJobRow
    NoLineAfterVerdict
    JobEnds
    StreamEnds
