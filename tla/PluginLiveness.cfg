SPECIFICATION PluginFairSpec
CONSTANTS
    N = 2
    OsiConn = {1, 2}
    TransferSets = FALSE
    Failures = {}
    ErrorReads = {"ok"}
    Polling = FALSE
    Categories <- RestartCategories
    MaxReconfigures = 1
    Operating = FALSE
PROPERTIES
    Recovery
    StopTerminates
    RestartsAfterReconfigure
