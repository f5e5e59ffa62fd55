SPECIFICATION Spec
CONSTANTS
    a = a
    b = b
    MaxEntries = 2
    Configurations <- MCConfigurations
    MaxVersion = 2
    ReadsFail = TRUE
    Pool = 2
    MaxLosses = 1
INVARIANTS
    TypeOK
    ImportedAsWritten
    ObjectsAsDefined
    EnabledUnlessRefused
    AcquiredOneWay
    ReportedChangesArrive
PROPERTIES
    NeverOlder
    MislabelledAfterFailure
    Delivered
\* No polling interval, or no connection: the system comes to rest.
CHECK_DEADLOCK FALSE
