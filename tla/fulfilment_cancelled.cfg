SPECIFICATION Spec
CONSTANTS
    r1 = r1
    r2 = r2
    w1 = w1
    w2 = w2
    Riders = {r1, r2}
    NoRider = NoRider
    Requests = {w1, w2}
    Quantity = 1
    Qrs = {1, 2}
    MaxInterventions = 0
SYMMETRY Symmetric
CHECK_DEADLOCK FALSE
PROPERTIES
    CancelledIsFinal
