SPECIFICATION Spec
CONSTANTS
    Orders = {o1}
    Handlers = {h1, h2}
    NoOrder = NoOrder
    MaxAttempts = 2
    MaxRetries = 1
    MaxErrors = 1
    MaxCrashes = 0
    o1 = o1
    o2 = o2
    h1 = h1
    h2 = h2
SYMMETRY HandlerSymmetry
INVARIANTS
    ReturnedAsRecorded
CHECK_DEADLOCK FALSE
