SPECIFICATION Spec
CONSTANTS
    Tokens = {t1, t2}
    NoToken = NoToken
CHECK_DEADLOCK FALSE
INVARIANTS
    LiveSessionsAreListed
    ResetDropsFinishedLogins
