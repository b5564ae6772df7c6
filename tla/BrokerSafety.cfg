\* Two flows, two authorizations, two callbacks and two token calls at once: the
\* invariants, every step a step of OneShotGrant, and what is dead stays dead.
CONSTANTS
    Flows = {f1, f2}
    States = {s1, s2}
    Codes = {k1, k2}
    Users = {u1}
    Callbacks = {c1, c2}
    Tokens = {t1, t2}
    AuthTTL = 1
    CodeTTL = 1
    MaxNow = 2
    None = None
SPECIFICATION Spec
SYMMETRY Symmetry
INVARIANTS
    TypeOK
    AuthorizationConsumedOnce
    OneIDTokenPerLogin
    TokenMatchesLogin
    ErrorEndsLogin
    BrokerInv
PROPERTIES
    ImplementsOneShotGrant
    DeadStaysDead
CHECK_DEADLOCK FALSE
