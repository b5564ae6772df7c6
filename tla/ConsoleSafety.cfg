\* Two tabs, three scripts and three sessions.
CONSTANTS
    Tabs = {b1, b2}
    Scripts = {r1, r2, r3}
    SessionIds = {s1, s2, s3}
    None = None
SPECIFICATION Spec
SYMMETRY Symmetry
INVARIANTS
    TypeOK
    LiveSessionIsHeld
    LogoutEndsSession
    WebInv
CHECK_DEADLOCK FALSE
