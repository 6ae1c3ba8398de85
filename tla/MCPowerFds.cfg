\* Every field can be open at once, with one descriptor the process inherited.
SPECIFICATION FdsSpec
CONSTANTS
    NumFds = 3
    Inherited = 1
    Profiles <- MCProfiles
    CameraCaps <- MCCameraCaps
INVARIANTS
    NodesAreNamed
PROPERTIES
    ResetLiftsCamera
