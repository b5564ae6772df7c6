CONSTANTS
    g1 = g1
    t1 = t1
    t2 = t2
    None = None
    Identities = {i1}
    UserIds = {u1, u2}
    Identifiers = {g1, t1}
    MethodOf <- MCMethodOf
    Sessions = {w1, w2}
    Deletes = {d1}
SPECIFICATION Spec
INVARIANT
    AccountPurged
CHECK_DEADLOCK FALSE
