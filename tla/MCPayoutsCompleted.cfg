CONSTANTS
    c1 = c1
    c2 = c2
    r1 = r1
    r2 = r2
    b1 = b1
    k1 = k1
    p1 = p1
    p2 = p2
    Children = {c1}
    Restaurants = {r1}
    RestaurantOf <- Together
    Batches = {b1}
    Creators = {k1}
    Processors = {p1, p2}
    Callbacks = {}
    Nothing = Nothing
    MayForce = FALSE
    MaxRequests = 2
    MaxFaults = 0
SPECIFICATION Spec
CHECK_DEADLOCK FALSE
INVARIANTS
    NoneFailedOnceCompleted
