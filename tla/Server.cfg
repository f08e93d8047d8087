SPECIFICATION Spec
CONSTANTS
    NULL = NULL
    Only = p1
    Worker = {w1, w2}
    Person = {"ann", "bob"}
    AccountUser = {u1, u2, u3}
    Account = {"wx", "qq1", "qq2"}
    Provider = {"qq", "weixin"}
    provider <- ProviderOf
    union <- UnionOf
    accountHolder <- Anns
    registered <- Registered
    MaxRow = 3
    CodePhone = {ph}
    Code = {c1, c2}
    Serial = {1}
    FREQUENTLY_TIME = 1
    EXPIRE_TIME = 3
    TIME_OUT = 2
    LOCKOUT_PERIOD = 1
    DAY = 5
    MAX_FAILED = 3
    MaxTime = 3
    MaxCount = 4
    User = {u1, u2}
    Phone = {"ph1", "ph2"}
    Secret = {"s1", "s2"}
    Email = {"mail"}
    userHuman <- HumanOf
    phoneHolder <- HolderOf
    chooser <- ChooserOf
    Upload = {l1, l2, l3}
    MaxFiles = 4
SYMMETRY Symmetry
INVARIANTS LoginsKept CodesRationed AnswersTrue
CHECK_DEADLOCK FALSE
