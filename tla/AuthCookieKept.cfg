SPECIFICATION Spec
CONSTANTS
    None = None
    Emails = {e1}
    Browsers = {b1, b2}
    Requests = {r1, r2, r3, r4}
    Tabs = 1
    FaultKinds = {}
    MaxFaults = 0
PROPERTY RejectedCookieIsCleared
CHECK_DEADLOCK FALSE
