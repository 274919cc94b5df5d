SPECIFICATION Spec
CONSTANTS
    NUsers = 2
    Procs = {p1, p2}
    Keys = {k1, k2}
    Requests = {}
    Links = {}
    RequestRow <- MCRequestRow
    LinkRow <- MCLinkRow
    Jobs <- MCJobs
    SEED_BALANCE_PAISA = 3
    PER_TRANSFER_CAP_PAISA = 3
    DAILY_OUTFLOW_CAP_PAISA = 2
    MaxCalls = 3
    NoProc = NoProc
    NoUser = NoUser
    NoKey = NoKey
    NoEntity = NoEntity
SYMMETRY Symmetry
CHECK_DEADLOCK FALSE
INVARIANTS
    TypeOK
    LedgerExplainsBalances
    KeyMovesMoneyOnce
    DailyCapHolds
    ReadsAreFresh
    AnswersAreTrue
PROPERTIES
    RecordsArePermanent
