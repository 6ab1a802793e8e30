CONSTANTS
    p1 = p1
    p2 = p2
    u1 = u1
    u2 = u2
    e1 = e1
    k1 = k1
    r1 = r1
    r2 = r2
    i1 = i1
    i2 = i2
    o1 = o1
    m1 = m1
    x1 = x1
    t1 = t1
    t2 = t2
    d1 = d1
    d2 = d2
    n1 = n1
    j1 = j1
    b1 = b1
    b2 = b2
    k2 = k2
    w1 = w1
    c1 = c1
    Focus = {"sessions", "accounts", "onboarding", "stock", "loyalty", "reviews", "pickup",
             "notifications", "payouts"}
    Procs = {p1, p2}
    Processors = {p1, p2}
    RestaurantOf <- Owed
    MayForce = FALSE
    MaxRequests = 1
    Users = {u1}
    People = {u1, u2}
    Emails = {e1}
    Codes = {k1}
    MaxTokens = 3
    Restaurants = {r1}
    Items = {i1, i2}
    Orders = {o1}
    MaxStock = 1
    MaxEdits = 1
    Rows = {r1, r2}
    Promos = {x1}
    Limit = 1
    MaxGrants = 1
    MaxChanges = 2
    Meals = {m1}
    Stars = {1, 2}
    Tickets = {t1, t2}
    MaxAttempts = 2
    Devices = {d1, d2}
    Events = {n1}
    Campaigns = {c1}
    MaxRegistered = 2
    Children = {j1}
    Batches = {b1, b2}
    Creators = {k2}
    Callbacks = {w1}
    MaxFaults = 1
    Nothing = Nothing
SPECIFICATION ServicesSpec
CHECK_DEADLOCK FALSE
SYMMETRY Symmetry
INVARIANTS
    ServicesTypeOK
    SuccessorsBounded
    VerifiedWasProven
    OnlyApprovedGoLive
    PointsWereGranted
    OneReviewPerMeal
    CodesShownAreKept
    SentByOneWorker
    PaidMeansTransferred
    PaidOutOnce
PROPERTIES
    PaysByContract
    RevokedStaysRevoked
    DeductionsExact
