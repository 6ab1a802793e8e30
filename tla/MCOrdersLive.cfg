CONSTANTS
    o1 = o1
    h1 = h1
    h2 = h2
    c1 = c1
    s1 = s1
    Orders = {o1}
    Handlers = {h1}
    Consumers = {c1}
    Schedulers = {s1}
    Nobody = Nobody
    Requests <- ProgressRequests
    Replies = {"success", "failed"}
    MaxFaults = 1
SPECIFICATION FairSpec
CHECK_DEADLOCK FALSE
PROPERTIES
    CancelJobSettles
    SuccessIsRecorded
