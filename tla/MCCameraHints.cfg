\* Two thread identities, three GPU targets, three use cases, five calls, one failure.
SPECIFICATION FairSpec
CONSTANTS
    t1 = t1
    t2 = t2
    g1 = g1
    g2 = g2
    g3 = g3
    NoThread = NoThread
    Bogus = Bogus
    Caller = Caller
    NoFd = NoFd
    NoUsecase = NoUsecase
    Threads = {t1, t2}
    TargetFds = {g1, g2, g3}
    Usecases <- MCUsecases
    Cap <- MCCap
    CameraTargetFps = 30
    MaxCalls = 5
    MaxFailures = 1
INVARIANTS
    LiveThreadHasHandle
    NoStaleTarget
    QuietAfterReset
PROPERTIES
    ResetReturns
    TargetConverges
CHECK_DEADLOCK FALSE
