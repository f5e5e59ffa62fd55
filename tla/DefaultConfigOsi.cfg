SPECIFICATION Spec
CONSTANTS
    N = 1
    OsiConn = {}
    TransferSets = FALSE
    Failures = {}
    ErrorReads = {"ok"}
    Polling = FALSE
INVARIANT OsiNotDereferenced
