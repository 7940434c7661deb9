SPECIFICATION FairSpec
CONSTANTS
    None = None
    Uploads = {}
    Fallbacks = {f1}
    Workers = {w1}
    Requests = {r1}
    MaxRetries = 2
    SoftLimit = 1
    HardLimit = 2
    LockTTL = 3
    ProgressTTL = 3
    FaultKinds = {}
    MaxFaults = 0
PROPERTY FallbackCompletes
