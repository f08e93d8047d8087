SPECIFICATION FairSpec
CONSTANTS
    ann = ann
    bob = bob
    u1 = u1
    u2 = u2
    u3 = u3
    wx1 = wx1
    wx2 = wx2
    wx3 = wx3
    qq1 = qq1
    qq2 = qq2
    unionA = unionA
    NULL = NULL
    Person = {ann, bob}
    User = {u1, u2}
    Account = {qq1}
    Provider = {"qq", "weixin", "weixinapp"}
    Worker = {p1, p2}
    provider <- MCprovider
    union <- MCunion
    holder <- MCholder
    registered <- MCregistered
    RepeatableRead = TRUE
    MaxRow = 2
INVARIANT OneOwner
PROPERTIES RegistryKept Answered
CHECK_DEADLOCK FALSE
