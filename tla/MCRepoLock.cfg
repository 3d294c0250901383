SPECIFICATION FairSpec
CONSTANTS
    p1 = p1
    p2 = p2
    t1 = t1
    t2 = t2
    t3 = t3
    r1 = r1
    Procs = {p1, p2}
    Threads = {t1, t2, t3}
    ProcOf <- MCProcOf
    Keys = {k1, k2}
    Roots = {r1}
    RootOf <- MCRootOf
    HandleLocks = FALSE
INVARIANTS
    TypeOK
    MutualExclusion
    HeldIsLocked
    NoLeakedToken
PROPERTIES
    ImplementsExclusiveLock
    CancelledCallReturns
    SomeoneGetsIn
