SPECIFICATION ControlSpec
CONSTANTS
    N = 1
    OsiConn = {1}
    TransferSets = FALSE
    Failures = {}
    ErrorReads = {"ok"}
    Polling = FALSE
INVARIANT CommandHasClient
