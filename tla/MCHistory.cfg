SPECIFICATION Spec
CONSTANTS
    Txns = {t1, t2, t3}
    Amounts = {1}
    SEED_BALANCE_PAISA = 1
    Limit = 1
    MAX_STATEMENT_ROWS = 3
    NoTxn = NoTxn
SYMMETRY Symmetry
CHECK_DEADLOCK FALSE
INVARIANTS
    TypeOK
    StatementAddsUp
    WalkMissesNothing
PROPERTIES
    PastStatementsStay
    PagesDescend
