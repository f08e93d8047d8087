SPECIFICATION Spec
CONSTANTS
    Phone = {ph1}
    Code = {c1, c2}
    WebProc = {p1, p2}
    ApiProc = {p1, p2}
    Serial = {}
    NULL = NULL
    FREQUENTLY_TIME = 0
    EXPIRE_TIME = 1
    TIME_OUT = 1
    LOCKOUT_PERIOD = 1
    DAY = 2
    MAX_FAILED = 1
    MaxTime = 1
    MaxCount = 1
SYMMETRY Symmetry
INVARIANTS TypeOK SuccessIsProved
PROPERTIES GrantFollowsProof NeverWaitingAgain
CHECK_DEADLOCK FALSE
