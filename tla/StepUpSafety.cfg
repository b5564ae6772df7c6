\* Two step-ups of one session, or of two, with two loads of their done pages,
\* beside ordinary logins; accounts of two identities.
CONSTANTS
    Identities = {i1, i2}
    SessionIds = {s1, s2, s3}
    Providers = {google}
    Contexts = {x1, x2}
    Dones = {d1, d2}
    None = None
SPECIFICATION Spec
SYMMETRY Symmetry
CONSTRAINT FourSessionsAndStepUps
INVARIANTS
    TypeOK
    MethodOfOwnStepUp
    EndedAfterMerge
    NoDuplicateUnlessOverlapped
    StepUpLeavesOneSession
    StepUpInv
CHECK_DEADLOCK FALSE
