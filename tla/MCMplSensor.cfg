\* Neither enabling nor polling is bounded but by MaxCalls; a division that
\* traps ends the process.
CONSTANTS
    Handles = {"Accelerometer", "LinearAccel"}
    Delays = {50}
    IntSpan = 4294
    MinDelay = 10
    DefaultPoll = 40
    IdlePoll = 400
    DefaultRate = 20
    WindowSize = 2
    Threshold = 1
    Positions = {0, 2}
    mIntegratedAccel = TRUE
    HasCompass = TRUE
    MaxCalls = 3
SPECIFICATION Spec
INVARIANTS SumIsWindow RateIsMinimum
PROPERTIES PowerFollowsMask LeavesIdle
CHECK_DEADLOCK FALSE
