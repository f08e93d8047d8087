SPECIFICATION RunSpec
CONSTANTS
    User = {u1}
    Client = {k1}
    Code = {g1}
    Token = {t1, t2, t3}
    Worker = {p1, p2}
    NULL = NULL
    SINGLE_ACCESS_TOKEN = TRUE
SYMMETRY Symmetry
INVARIANTS TypeOK WithinGrant SpentIsDead OneLiveTokenAlone
CHECK_DEADLOCK FALSE
