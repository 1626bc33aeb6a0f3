SPECIFICATION CommerceSpec
CONSTANTS
    Tellers = {t1, t2}
    Sales = {o1}
    Trips = {d1}
    Earning = 2
    Amounts = {1, 2}
    MaxBanks = 3
    MaxPayouts = 2
    Clerks = {c1, c2}
    VendorAuto = TRUE
    TokenLife = 3
    TokenBuffer = 1
    Goods = 2
    MaxErrands = 6
    Counters = {h1, h2}
    Purchases = {1, 2}
    Friends = {f1, f2}
    Vouchers = {v1, v2}
    Cashback = 2
    PointsEarned = 1
    PointsCost = 1
    FriendReward = 1
    CodeAttempts = 3
    Collisions = 2
    MaxDealings = 6
    Shoppers = {u1, u2}
    Campaigns = {g1, g2}
    UsageLimit = 1
    MaxCheckouts = 3
    LoanRequests = {a1, a2}
    CartTotals = {100, 103}
    Months = 2
    Rate = 10
    StartDates <- Dates
    Repayments = {r1, r2}
    Cashiers = {s1, s2}
    MaxCartEdits = 1
    ShopCount = 4
    Subtotals = {1, 3}
    Fees = {0, 2}
    VoucherOffers <- VoucherKinds
    CouponOffers <- CouponKinds
    Windows = {w1, w2}
    MaxAddresses = 3
    Pictures = {1, 2, 3}
    Products = {1, 2, 3}
    CompareLimit = 1
    MaxClicks = 3
INVARIANTS
    PayoutsHaveCover
    MerchantsAreSound
    RewardsAddUp
    
    LoansAreHonoured
    QuoteIsExact
    ShopperRowsAreSound
SYMMETRY PromotionSymmetry
CHECK_DEADLOCK FALSE
