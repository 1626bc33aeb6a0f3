SPECIFICATION FairSpec
CONSTANTS
    c1 = c1
    u1 = u1
    w1 = w1
    w2 = w2
    r1 = r1
    r2 = r2
    Campaigns = {c1}
    NoCampaign = NoCampaign
    Users = {u1}
    Workers = {w1, w2}
    Requests = {r1, r2}
    DailyLimit = 1
    BatchSize = 1
    MaxVersions = 2
    MaxRequests = 3
    MaxFaults = 1
INVARIANTS
    OnlyApprovedIsPushed
    ReachesEveryoneOnce
PROPERTIES
    ScheduledEnds
