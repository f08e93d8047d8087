SPECIFICATION Spec
CONSTANTS
    NULL = NULL
    Page = {1, 2, 3, 4, 5}
    MaxHistory = 4
    MaxWire = 2
    MaxPosts = 2
    Failures = {"http", "network", "data"}
    Dialog = {a1, a2, a3}
    Sheet = {s1}
    Popover = {o1}
    Popup = {u1, u2}
    Picker = {k1}
    Login = {l1}
    MaxBusy = 3
    Panel = {"left", "right"}
    Swiped = "left"
    Width = 3
    Year = 3
    First = 4
    Last = 8
    Today = 5
    MaxShift = 3
    Photo = {1, 2, 3}
    MaxOpen = 2
    Row = {"a", "b", "c"}
    Setting <- Settings
    MaxCloses = 1
    System = {"ios", "android"}
    Finger = {f1, f2}
    MaxPending = 2
    Note = {n1, n2, n3, n4}
    Custom = {n3, n4}
INVARIANTS PagesAgree CoversAgree RestingPanels MonthsAgree  OutIsKnown RefreshShown
PROPERTIES GesturesKept LocksFreed
CHECK_DEADLOCK FALSE
