\* Three requests, two sessions and one identity, which has nothing yet, or Google
\* and a passkey: registration, login, link and refresh by e-mail code, and the link
\* and the removal of a passkey; at most one session ends and one row expires.
CONSTANTS
    Requests = {r1, r2, r3}
    SessionIds = {s1, s2}
    Identities = {i1}
    Ops = {"email_login_start", "email_register_start", "email_verify", "email_link_start", "stepup_email_start", "passkey_link_start", "passkey_link_finish", "passkey_remove"}
    Passkeys = {k1, k2}
    Enrolled = {{}, {"google", k1}}
    None = None
SPECIFICATION Spec
SYMMETRY Symmetry
CONSTRAINT OneEnds
INVARIANTS
    TypeOK
    RefServesItsFinish
    AnswerNamesHeldSession
    AnswerShowsOutcome
    CeremonyInv
PROPERTIES
    LinkedAddressKept
CHECK_DEADLOCK FALSE
