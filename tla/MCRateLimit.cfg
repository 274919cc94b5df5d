SPECIFICATION FairSpec
CONSTANTS
    Callers = {c1, c2}
    max_requests = 2
    Window = 3
    Slack = 1
    MaxDelay = 2
CHECK_DEADLOCK FALSE
INVARIANTS
    TypeOK
    AdmissionsBounded
    RefusalsAreEarned
PROPERTY RoomReturns
