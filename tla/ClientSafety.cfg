SPECIFICATION Spec
CONSTANTS
    N = 3
    OsiConn = {1, 2}
    TransferSets = TRUE
    Failures = {"endpoint", "client"}
    ErrorReads = {"ok", "error"}
    Polling = TRUE
INVARIANTS
    TypeOK
    SingleAssociation
    OpenIsActive
    NothingLeft
    StopNotBlocked
    IInv
PROPERTIES
    StaysWithServer
    PollRacesOnlySelection
    NullClientOnlyAfterFailedCreate
    StopBounded
    ImplementsFailover
