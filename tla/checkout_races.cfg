SPECIFICATION Spec
CONSTANTS
    u1 = u1
    u2 = u2
    g1 = g1
    g2 = g2
    g3 = g3
    s1 = s1
    s2 = s2
    h1 = h1
    h2 = h2
    Owner <- SingleGroup
    Users = {u1}
    Stores = {s1,s2}
    Groups = {g1}
    NoGroup = NoGroup
    Methods = {"CARD", "BANK_TRANSFER", "KLUMP_BNPL", "WALLET"}
    Handlers = {h1,h2}
    InitStock = 1
    InitWallet = 2
    Price <- UnitPrices
    MaxQty = 1
    MaxCalls = 2
    MaxFaults = 1
    SnapshotReads = TRUE
SYMMETRY HandlerSymmetry
INVARIANTS
    ConfirmedIsPaidFor
    SettlementMatchesOrders
    ReleasedMoneyHasRefund
    GoodsAndMoneyConserved
PROPERTIES
    OutcomeIsFinal
    KeepsContract
