CONSTANTS
    p1 = p1
    p2 = p2
    k1 = k1
    w1 = w1
    o1 = o1
    x1 = x1
    r1 = r1
    r2 = r2
    b1 = b1
    u1 = u1
    e1 = e1
    q1 = q1
    i1 = i1
    i2 = i2
    y1 = y1
    d1 = d1
    d2 = d2
    n1 = n1
    g1 = g1
    Focus = {"payouts", "accounts", "stock", "loyalty", "notifications"}
    Procs = {p1, p2}
    Orders = {o1}
    Callbacks = {w1}
    Children = {x1}
    Restaurants = {r1}
    Batches = {b1}
    Creators = {k1}
    Users = {u1}
    Emails = {e1}
    Codes = {q1}
    Items = {i1}
    MaxStock = 1
    Rows = {r1}
    Promos = {y1}
    Limit = 1
    MaxGrants = 1
    Devices = {d1, d2}
    Events = {n1}
    Campaigns = {g1}
    Nothing = Nothing
SPECIFICATION FairSpec
CHECK_DEADLOCK FALSE
PROPERTIES
    AskingAgainSettles
    EventuallyVerified
    SoldOutIsHidden
    SwitchedOffIsForgotten
    EveryDeviceIsTold
