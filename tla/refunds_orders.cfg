SPECIFICATION Spec
CONSTANTS
    Orders = {o1, o2}
    Handlers = {h1, h2}
    NoOrder = NoOrder
    MaxAttempts = 2
    MaxRetries = 0
    MaxErrors = 0
    MaxCrashes = 1
    o1 = o1
    o2 = o2
    h1 = h1
    h2 = h2
SYMMETRY Symmetric
INVARIANTS
    PaymentStatusIsEarned
CHECK_DEADLOCK FALSE
