SPECIFICATION Spec
CONSTANTS
    Overlaps = {}
    Tls = TRUE
    Failures = {"endpoint", "client"}
    Osi = TRUE
    TransferSets = TRUE
    ErrorReads = {"ok", "error"}
INVARIANTS
    NoStaleHandle
    TlsOutlivesEndpoint
    TlsReleased
PROPERTY ImplementsConnection
