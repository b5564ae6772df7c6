\* Two sign-ins, from one start request or from two, with two loads of the
\* callback; the state of one flow is short enough to be sent as it is.
CONSTANTS
    Flows = {f1, f2}
    Whole = {f2}
    Grants = {g1, g2}
    Users = {u1, u2}
    Proxies = {q1, q2}
    Returns = {r1}
    SessionIds = {s1, s2}
    None = None
SPECIFICATION Spec
SYMMETRY Symmetry
INVARIANTS
    TypeOK
    TokenOfOwnStart
    OneSessionPerSignIn
    OneSessionPerStart
    ContextAwaitsReturn
    LoginInv
CHECK_DEADLOCK FALSE
