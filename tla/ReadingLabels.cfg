SPECIFICATION Spec
CONSTANTS
    a = a
    b = b
    MaxEntries = 2
    Configurations <- MCConfigurations
    MaxVersion = 2
    ReadsFail = TRUE
    Pool = 2
    MaxLosses = 1
INVARIANT ReadingsLabelled
CHECK_DEADLOCK FALSE
