SPECIFICATION EventuallySpec
CONSTANTS
    j1 = j1
    j2 = j2
    w1 = w1
    w2 = w2
    p1 = p1
    h1 = h1
    h2 = h2
    o1 = o1
    Jobs = {j1, j2}
    Workers = {w1, w2}
    NoJob = NoJob
    MaxFaults = 1
    Payments = {p1}
    NoPayment = NoPayment
    Amount <- Amounts
    Handlers = {h1, h2}
    MaxInterruptions = 1
    NoOrder = NoOrder
INVARIANTS
    ProcessedIsMailed
    DuplicatesNeedFaults
    FundingIsRecorded
PROPERTIES
    ConfirmationArrives
    CapturedTopUpArrives
    RefundSettles
CHECK_DEADLOCK FALSE
