\* One start request, two grants of it and two loads of the callback.
CONSTANTS
    Flows = {f1}
    Whole = {}
    Grants = {g1, g2}
    Users = {u1}
    Proxies = {q1, q2}
    Returns = {r1}
    SessionIds = {s1, s2}
    None = None
SPECIFICATION FairSpec
PROPERTIES
    CallbackCounts
CHECK_DEADLOCK FALSE
