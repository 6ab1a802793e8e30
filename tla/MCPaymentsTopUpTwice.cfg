CONSTANTS
    o1 = o1
    t1 = t1
    t2 = t2
    c1 = c1
    c2 = c2
    w1 = w1
    w2 = w2
    v1 = v1
    Orders = {o1}
    Txs = {t1, t2}
    Consumers = {c1}
    Webhooks = {w1, w2}
    Visits = {v1}
    Nothing = Nothing
    TopUp = {o1}
    SuccessWords = {"success"}
    MaxFaults = 0
SPECIFICATION Spec
CHECK_DEADLOCK FALSE
INVARIANTS
    ToppedUpOnce
