\* A ring of five events, samples of three, six samples, three of them in the kernel at once.
SPECIFICATION FairSpec
CONSTANTS
    NoEvent = NoEvent
    Event <- MCEvent
    NumEvents = 5
    Axes = 2
    Rooms = {0, 1, 2}
    MaxSamples = 6
    MaxQueued = 9
PROPERTIES
    ImplementsFifo
    SamplesIntact
    KernelIsRead
CHECK_DEADLOCK FALSE
