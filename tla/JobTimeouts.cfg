SPECIFICATION Spec
CONSTANTS
    None = None
    Uploads = {u1}
    Fallbacks = {}
    Workers = {w1, w2}
    Requests = {r1}
    MaxRetries = 1
    SoftLimit = 1
    HardLimit = 2
    LockTTL = 3
    ProgressTTL = 3
    FaultKinds = {"lock", "connection", "slow", "backlog"}
    MaxFaults = 1
SYMMETRY Symmetry
INVARIANT MutualExclusion
PROPERTY ImplementsContract
