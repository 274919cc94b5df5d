SPECIFICATION Spec
CONSTANTS
    NUsers = 3
    Procs = {p1, p2, p3}
    k1 = k1  k2 = k2
    Keys = {k1, k2}
    Requests = {request1}
    Links = {link1}
    RequestRow <- MCRequestRow
    LinkRow <- MCLinkRow
    Jobs <- MCJobs
    SEED_BALANCE_PAISA = 4
    PER_TRANSFER_CAP_PAISA = 3
    DAILY_OUTFLOW_CAP_PAISA = 4
    MaxCalls = 3
    NoProc = NoProc
    NoUser = NoUser
    NoKey = NoKey
    NoEntity = NoEntity
SYMMETRY Symmetry
CHECK_DEADLOCK FALSE
INVARIANTS
    NoMoneyCreated
    ObligationPaidOnce
    NoDeadlock
PROPERTIES
    ImplementsBank
