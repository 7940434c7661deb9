SPECIFICATION FairSpec
CONSTANTS
    None = None
    Uploads = {u1}
    Fallbacks = {}
    Workers = {w1, w2}
    Requests = {r1, r2}
    MaxRetries = 1
    SoftLimit = 1
    HardLimit = 2
    LockTTL = 3
    ProgressTTL = 1
    FaultKinds = {"publish", "connection"}
    MaxFaults = 1
PROPERTY QueueDrains
PROPERTY UploadCompletes
