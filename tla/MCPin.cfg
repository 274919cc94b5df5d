SPECIFICATION FairSpec
CONSTANTS
    Attempts = {a1, a2}
    Pins = {right, other}
    FirstPin = right
    MAX_PIN_FAILURES = 2
    MaxAttempts = 4
CHECK_DEADLOCK FALSE
INVARIANTS
    TypeOK
    GuessesBounded
    AcceptedPinIsCurrent
PROPERTIES
    LockoutEnds
