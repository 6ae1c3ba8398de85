\* Three features, the sensors MPLSensor builds samples of, two quaternions of each kind.
SPECIFICATION Spec
CONSTANTS
    Callback <- MCCallback
    MaxDataCb = 4
    Sample = {0}
    Bias = {"none"}
    Matrix = {"identity"}
    Quat = {"unit", "turned"}
    MaxCounter = 0
    Features <- MCFeatures
    Built = {"gyro", "accel", "compass"}
    Accuracy = {0}
    RateMs <- MCRateMs
INVARIANTS
    HalQuatIsCurrent
    TableOrdered
PROPERTIES
    SampleSeenByAll
    MagReportedOnce
