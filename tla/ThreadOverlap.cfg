SPECIFICATION Spec
CONSTANTS
    Overlaps = {"poll"}
    Tls = FALSE
    Failures = {}
    Osi = TRUE
    TransferSets = FALSE
    ErrorReads = {"ok"}
INVARIANT NoStaleHandle
