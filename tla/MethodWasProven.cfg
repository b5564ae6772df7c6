CONSTANTS
    Identities = {i1}
    SessionIds = {s1, s2, s3}
    Providers = {google}
    Contexts = {x1}
    Dones = {d1}
    None = None
SPECIFICATION Spec
INVARIANT
    MethodWasProven
CHECK_DEADLOCK FALSE
