SPECIFICATION FairSpec
CONSTANTS
    None = None
    Uploads = {u1}
    Fallbacks = {}
    Workers = {w1}
    Requests = {r1}
    MaxRetries = 2
    SoftLimit = 1
    HardLimit = 2
    LockTTL = 3
    ProgressTTL = 3
    FaultKinds = {"s3"}
    MaxFaults = 1
PROPERTY InterruptedJobSettles
