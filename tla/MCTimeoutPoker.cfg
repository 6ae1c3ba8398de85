\* Two IPC threads; two requests; three descriptors, so that they run out.
SPECIFICATION FairSpec
CONSTANTS
    c1 = c1
    c2 = c2
    f1 = f1
    f2 = f2
    f3 = f3
    NoFd = NoFd
    Uninit = Uninit
    Callers = {c1, c2}
    Fd = {f1, f2, f3}
    MaxRequests = 2
INVARIANTS
    OneOwner
    OrphansAreUnwatched
    WatchedPipesAreOurs
    ResultHandOver
PROPERTIES
    TimedRequestEnds
    CreateReturns
    ClosedHandleReleases
    ImplementsContract
CHECK_DEADLOCK FALSE
