SPECIFICATION Spec
CONSTANTS
    None = None
    Emails = {e1}
    Browsers = {b1}
    Requests = {r1, r2}
    Tabs = 2
    FaultKinds = {}
    MaxFaults = 0
INVARIANT DuplicateIsConflict
CHECK_DEADLOCK FALSE
