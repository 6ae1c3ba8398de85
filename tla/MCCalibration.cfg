\* Two blocks, two lives, three calls; one reading besides the cleared one.
SPECIFICATION Spec
CONSTANTS
    Callback = {}
    MaxDataCb = 1
    Sample = {0, 1}
    Bias = {"none", "found"}
    Matrix = {"identity", "skewed"}
    Quat = {"unit"}
    MaxCounter = 0
    Features <- MCFeatures
    NumBoxes = 2
    Learnable = {3}
    MaxCalls = 3
    MaxBoots = 2
INVARIANTS
    CalibratedUsesBias
    MessageIsCurrent
PROPERTIES
    RoundTrip
CHECK_DEADLOCK FALSE
