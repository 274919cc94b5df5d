SPECIFICATION Spec
CONSTANTS
    Registrations = {r1, r2}
    Phones <- MCPhones
    AccountNumbers <- MCAccountNumbers
    Normal <- MCNormal
    LoginPhone = "01"
    Attempts = {a1, a2}
    MAX_LOGIN_FAILURES = 2
    MaxAttempts = 4
    Nobody = Nobody
CHECK_DEADLOCK FALSE
INVARIANTS
    TypeOK
    AccountsAreWhole
    LoginGuessesBounded
    LoginCounterWillExpire
PROPERTIES
    ResolutionIsStable
