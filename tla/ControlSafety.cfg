SPECIFICATION PluginSpec
CONSTANTS
    N = 2
    OsiConn = {1, 2}
    TransferSets = FALSE
    Failures = {"endpoint"}
    ErrorReads = {"ok", "error"}
    Polling = FALSE
    Categories <- MCCategories
    MaxReconfigures = 1
    Operating = TRUE
INVARIANTS
    PluginTypeOK
    ConfigOutlivesClient
    ClientNeverLost
    StaleOnlyWithoutItems
    
PROPERTIES
    DeletedOnlyByStop
