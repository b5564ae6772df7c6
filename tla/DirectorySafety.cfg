CONSTANTS
    g1 = g1
    t1 = t1
    t2 = t2
    None = None
    Identities = {i1, i2}
    UserIds = {u1, u2}
    Identifiers = {t1, t2}
    MethodOf <- MCMethodOf
    Sessions = {w1, w2}
    Deletes = {d1}
SPECIFICATION Spec
CONSTRAINT TwoNamings
SYMMETRY Symmetry
INVARIANTS
    TypeOK
    JwtMatchesIdentity
    IdentifierWasNamed
    DirectoryInv
    StableUserIDWhenQuiet
    QuietDeletePurgesUser
CHECK_DEADLOCK FALSE
