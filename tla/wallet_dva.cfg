SPECIFICATION FundingSpec
CONSTANTS
    Payments = {p1}
    p1 = p1
    h1 = h1
    h2 = h2
    h3 = h3
    NoPayment = NoPayment
    Amount <- Amounts
    Handlers = {h1, h2}
    MaxInterruptions = 0
CHECK_DEADLOCK FALSE
INVARIANTS
    ProcessedIsCredited
