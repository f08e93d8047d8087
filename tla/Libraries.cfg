SPECIFICATION Spec
CONSTANTS
    NULL = NULL
    modA = modA
    modB = modB
    modC = modC
    modD = modD
    reqA = reqA
    reqB = reqB
    reqD = reqD
    Mod = {modA, modB, modC, modD}
    Req = {reqA, reqB, reqD}
    deps <- Deps
    Shim = {modC}
    Failures = {"error", "timeout"}
    Fragment = {"o", "x", "y", "z"}
    First = "o"
    Routes <- RouteTable
    Later <- RouteOfY
    MaxEntries = 2
    MaxEvents = 2
    Upload = {"f1", "f2", "f3", "f4"}
    Vetoed = {"f4"}
    Setting <- UploadSettings
    Size = 2
    Chunk = 2
    Modal = {"m1", "m2"}
    Backed = {"m1"}
    MaxBackdrops = 3
    MaxPad = 2
    Items = 3
    Wraps = {TRUE, FALSE}
    MaxWaits = 2
    MaxSlids = 2
INVARIANTS CallbacksRight AddressShown UploadsCounted NothingLeft CarouselObeys
PROPERTIES Served
CHECK_DEADLOCK FALSE
