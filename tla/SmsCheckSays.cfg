SPECIFICATION Spec
CONSTANTS
    Phone = {ph1}
    Code = {c1}
    WebProc = {p1}
    ApiProc = {}
    Serial = {1}
    NULL = NULL
    FREQUENTLY_TIME = 1
    EXPIRE_TIME = 3
    TIME_OUT = 2
    LOCKOUT_PERIOD = 1
    DAY = 4
    MAX_FAILED = 2
    MaxTime = 5
    MaxCount = 3
SYMMETRY Symmetry
PROPERTY CheckAcceptsFreshCode
CHECK_DEADLOCK FALSE
