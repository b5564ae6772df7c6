\* One step-up whose done page is loaded twice, beside another session, of the same
\* user or of another.
CONSTANTS
    Identities = {i1, i2}
    SessionIds = {s1, s2}
    Providers = {google}
    Contexts = {x1}
    Dones = {d1, d2}
    None = None
SPECIFICATION FairSpec
PROPERTIES
    MethodLands
    ImplementsSessionAssurance
CHECK_DEADLOCK FALSE
