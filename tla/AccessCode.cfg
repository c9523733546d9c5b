\* Two requests at a time for the codes of two managers.
CONSTANTS
    Clients = {c1, c2}
    Managers = {m1, m2}
    Codes = {k1, k2}
    NoCode = NoCode
    Nobody = Nobody
    CODE_ATTEMPTS = 2
    MAX_CODE_ATTEMPTS = 2
    LOCK_DURATION = 2
    EMAIL_COOLDOWN = 1
    EMAIL_WINDOW = 4
    MAX_EMAILS_PER_WINDOW = 2
    MaxTime = 5
    MaxRequests = 6
    MaxCrashes = 1
SPECIFICATION Spec
SYMMETRY Interchangeable
INVARIANTS TypeOK PermanentCode EmailsSpaced EmailsPerWindow AttemptsBounded
CHECK_DEADLOCK FALSE
