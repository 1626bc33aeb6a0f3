SPECIFICATION FairSpec
CONSTANTS
    u1 = u1
    u2 = u2
    g1 = g1
    g2 = g2
    g3 = g3
    s1 = s1
    s2 = s2
    h1 = h1
    h2 = h2
    Owner <- SingleGroup
    Users = {u1}
    Stores = {s1}
    Groups = {g1}
    NoGroup = NoGroup
    Methods = {"CARD", "BANK_TRANSFER"}
    Handlers = {h1,h2}
    InitStock = 1
    InitWallet = 0
    Price <- UnitPrices
    MaxQty = 1
    MaxCalls = 1
    MaxFaults = 1
    SnapshotReads = TRUE
PROPERTIES
    CapturedIsHonoured
