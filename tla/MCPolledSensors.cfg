\* Drivers of every shape, with readings on both sides of its threshold.
SPECIFICATION FairSpec
CONSTANTS
    Classes = {"AmbientLightSensor", "ProximitySensor", "Cm3218Light", "Tcs3772Prox",
               "Max44005Light", "Max44005Prox", "ltr558Light", "ltr558Prox", "Isl29018Prox"}
    Readings = {0, 1, 3}
    ProxThresholds = {1, 99}
    LtrThreshold <- MCLtrThreshold
    UINT_MAX = 99
    MaxFailures = 2
INVARIANTS
    PowerSequence
PROPERTIES
    Followed
