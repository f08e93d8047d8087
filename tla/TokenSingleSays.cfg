SPECIFICATION Spec
CONSTANTS
    User = {u1}
    Client = {k1}
    Code = {g1}
    Token = {t1, t2}
    Worker = {p1}
    NULL = NULL
    SINGLE_ACCESS_TOKEN = TRUE
SYMMETRY Symmetry
INVARIANT SingleToken
CHECK_DEADLOCK FALSE
