SPECIFICATION Spec
CONSTANTS
    None = None
    Uploads = {u1}
    Fallbacks = {f1}
    Workers = {w1, w2}
    Requests = {r1, r2}
    MaxRetries = 2
    SoftLimit = 1
    HardLimit = 2
    LockTTL = 3
    ProgressTTL = 3
    FaultKinds = {"publish", "db", "s3", "broker", "lost", "crash", "connection"}
    MaxFaults = 2
SYMMETRY Symmetry
INVARIANT TypeOK
INVARIANT DoneSignalImpliesResult
INVARIANT ProcessingHasMetadata
PROPERTY SourceKeptUntilResult
PROPERTY SettledIsFinal
