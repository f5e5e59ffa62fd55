SPECIFICATION PluginSpec
CONSTANTS
    N = 1
    OsiConn = {1}
    TransferSets = FALSE
    Failures = {"endpoint"}
    ErrorReads = {"ok", "error"}
    Polling = FALSE
    Categories <- DefaultCategories
    MaxReconfigures = 1
    Operating = FALSE
INVARIANT ConfigInForce
