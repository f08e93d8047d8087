SPECIFICATION Spec
CONSTANTS
    NULL = NULL
    Length <- Lengths
    Item = {1, 2, 3}
    ListStart <- ListAtFirst
    Screen = 1
    RowsBefore = 1
    RowsAfter = 1
    SwiperSetting <- SwiperSettings
    SwiperSlide = {"a", "b", "c"}
    MaxSlides = 3
    MaxPlays = 2
    ScrollSetting <- ScrollSettings
    Ends <- ScrollEnds
    Step = 1
    Threshold = 1
    ClickSetting <- ClickSettings
    ClickElem = {"p", "q", "i", "k"}
    Skip = {"k"}
    Field = {"i"}
    InScroll = {"p"}
    Rippled = {"p", "q"}
    Cid = {cidA, cidB}
    MaxId = 2
    MaxWire = 2
    MonthOf <- MonthsOfDates
    YearMonths = 2
    Week = 2
    First = 2
    Last = 4
    Today = 3
    DefaultView = 4
    TipSetting <- TipSettings
    MaxWaits = 3
    Panels = 3
    MaxMoves = 2
    BarSetting <- BarSettings
    BarItem = {1, 2}
    Matches <- QueryMatches
    MaxTimers = 3
    SelectSetting <- SelectSettings
    Option = {"a", "b", "c"}
    Later = {"d"}
    Unselectable = {"c"}
INVARIANTS RestsRight DataAgree ValuesAgree OneClick OpenAgree
PROPERTIES StepsKeep
CHECK_DEADLOCK FALSE
