\* Two thread identities, three GPU targets, three use cases, three calls, one failure.
SPECIFICATION Spec
CONSTANTS
    t1 = t1
    t2 = t2
    g1 = g1
    g2 = g2
    g3 = g3
    NoThread = NoThread
    Bogus = Bogus
    Caller = Caller
    NoFd = NoFd
    NoUsecase = NoUsecase
    Threads = {t1, t2}
    TargetFds = {g1, g2, g3}
    Usecases <- MCUsecases
    Cap <- MCCap
    CameraTargetFps = 30
    MaxCalls = 3
    MaxFailures = 1
INVARIANT ResetCancelsTarget
CHECK_DEADLOCK FALSE
