SPECIFICATION Spec
CONSTANTS
    u1 = u1
    u2 = u2
    g1 = g1
    g2 = g2
    g3 = g3
    s1 = s1
    s2 = s2
    h1 = h1
    h2 = h2
    Owner <- ThreeGroups
    Users = {u1,u2}
    Stores = {s1}
    Groups = {g1,g2,g3}
    NoGroup = NoGroup
    Methods = {"CARD"}
    Handlers = {h1}
    InitStock = 2
    InitWallet = 0
    Price <- UnitPrices
    MaxQty = 1
    MaxCalls = 1
    MaxFaults = 0
    SnapshotReads = TRUE
SYMMETRY GroupSymmetry
INVARIANTS
    StockConserved
    OneActiveCheckout
