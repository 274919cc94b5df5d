SPECIFICATION ObligationSpec
CONSTANTS
    NUsers = 3
    Procs = {p1, p2}
    Viewers = {v1}
    Keys = {k1, k2}
    Requests = {}
    Links = {link1}
    RequestRow <- MCRequestRow
    LinkRow <- MCLinkRow
    Jobs <- MCJobs
    SEED_BALANCE_PAISA = 3
    PER_TRANSFER_CAP_PAISA = 3
    DAILY_OUTFLOW_CAP_PAISA = 4
    MaxCalls = 3
    NoProc = NoProc
    NoUser = NoUser
    NoKey = NoKey
    NoEntity = NoEntity
CHECK_DEADLOCK FALSE
INVARIANT ClaimerGetsReplay
