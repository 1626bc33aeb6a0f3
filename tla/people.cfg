SPECIFICATION PeopleSpec
CONSTANTS
    r1 = r1
    r2 = r2
    s1 = s1
    s2 = s2
    l1 = l1
    l2 = l2
    d1 = d1
    d2 = d2
    h1 = h1
    h2 = h2
    a1 = a1
    a2 = a2
    u1 = u1
    u2 = u2
    Requests = {r1, r2}
    Sessions = {s1, s2}
    MaxAttempts = 1
    MaxChallenges = 2
    MaxPasswords = 3
    MaxRotations = 2
    MaxStarted = 3
    Members = {m1, m2}
    FirstAdmin = m1
    Logins = {l1, l2}
    Desks = {d1, d2}
    GivenRoles = {"SUPER_ADMIN", "OPERATIONS_ADMIN"}
    MaxStaffOps = 5
    Users = {"root", "agent", "ann"}
    RolesOf <- RolesAtStart
    Tickets = {1, 2, 3}
    Policies = {"orders_refund_approve"}
    Grantable = {"FINANCE_ADMIN"}
    Overridable = {"roles.assign"}
    Handlers = {h1, h2}
    MaxCalls = 4
    Agents = {a1, a2}
    Applications <- RiderApplications
    AutoApprove = TRUE
    MaxVisits = 4
    Couriers = {c1, c2}
    Customer = cu
    Onlookers = {n1}
    Uplinks = {u1, u2}
    MaxPositions = 4
    SeedRuns = {q1, q2}
    MaxSeeds = 2
    MaxSettings = 1
    Talkers = {k1, k2}
    PageSize = 2
    MaxMessages = 4
    MaxTalks = 3
INVARIANTS
    SessionsAreSound
    CodesAreSound
    StaffAccessIsSound
    AuthorityIsSound
PROPERTIES
    OnboardingIsSound
    PositionsAreGuarded
    ConversationsAreSound
    RerunsAreHarmless
CHECK_DEADLOCK FALSE
