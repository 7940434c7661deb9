SPECIFICATION Spec
CONSTANTS
    None = None
    Emails = {e1}
    Browsers = {b1, b2}
    Requests = {r1, r2, r3, r4, r5}
    Tabs = 1
    FaultKinds = {"abort", "unsure", "lost", "expire", "deactivate"}
    MaxFaults = 1
INVARIANT TypeOK
INVARIANT SessionHeld
INVARIANT ExchangedOnce
PROPERTY ImplementsSessionContract
SYMMETRY Symmetry
CHECK_DEADLOCK FALSE
