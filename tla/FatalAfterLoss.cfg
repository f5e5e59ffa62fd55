SPECIFICATION FairSpec
CONSTANTS
    N = 2
    OsiConn = {1, 2}
    TransferSets = FALSE
    Failures = {}
    ErrorReads = {"ok", "error"}
    Polling = FALSE
PROPERTIES
    Recovery
