SPECIFICATION Spec
CONSTANTS
    N = 1
    OsiConn = {1}
    TransferSets = TRUE
    Failures = {}
    ErrorReads = {"ok"}
    Polling = FALSE
INVARIANT NoDoubleDestroy
