\* Two polled drivers and one with an input device; three calls; a pipe of one byte.
SPECIFICATION FairSpec
CONSTANTS
    light = light
    mpl = mpl
    proximity = proximity
    Polled = {light, proximity}
    FdDrivers = {mpl}
    Order <- LightMplProx
    PollTimes <- Times
    Indefinite = 9
    Room = 5
    MaxQueued = 2
    PipeSize = 1
    MaxCalls = 3
INVARIANTS
    NoStaleSleep
PROPERTIES
    PolledAreServed
    QueuedAreRead
