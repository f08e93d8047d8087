------------------------------ MODULE MCWidgets -------------------------------
(***************************************************************************)
(* Widgets of which no step has to come: they are checked for what always  *)
(* holds.  They share no state, so the component named by on takes all the *)
(* steps.                                                                  *)
(***************************************************************************)
EXTENDS Integers, TLC

CONSTANTS
    NULL,
    Length,                                                       \* Picker
    Item, ListStart, Screen, RowsBefore, RowsAfter,                   \* VirtualList
    SwiperSetting, SwiperSlide, MaxSlides, MaxPlays,                    \* Swiper
    ScrollSetting, Ends, Step, Threshold,                         \* Scroller
    ClickSetting, ClickElem, Skip, Field, InScroll, Rippled,       \* FastClicks
    Cid, MaxId, MaxWire,                                          \* Collections
    MonthOf, YearMonths, Week, First, Last, Today, DefaultView,   \* Datepicker
    TipSetting, MaxWaits,                                         \* Tooltip
    Panels, MaxMoves,                                             \* Accordion
    BarSetting, BarItem, Matches, MaxTimers,                        \* Searchbar
    SelectSetting, Option, Later, Unselectable                       \* SmartSelect

VARIABLES
    on,
    option, turned, goal, pickerActive, pickerChosen, filled, result, pickerTouch, frames,
    pickerOpen,
    items, filtered, filtering, cache, virtualRows, virtualScroll, painted, muddled,
    swiperOpt, slides, size, swiperActive, translate, isBeginning, isEnd, swiperTrans,
    swiperAnimating, ends, resumes, swiperTouch, lock, autoplaying, paused, timers,
    swiperId, loose, stuck, restarted,
    scrollOpt, down, scrollMoved, start, dir, scrollY, max, page, inTransition, scrollTrans,
    scrollAnimating, loops, wheel, bar, scrollOdd,
    fastOpt, finger, fastMoved, quick, clicked, trackClick, targetElement, needsFastClick,
    activeSelection, isMoved, tapHoldFired, activable, fastActive, activeTO, removes,
    needsTO, holdTO, strays, native, fastFocus, rippleTarget, rippleTO, wave, waveRemove,
    orphan, tap, got, fastOdd,
    collectionsId, collectionsHeard, made, list, length, byId, collectionsRows, wire, doubled,
    datepickerO, date, view, ref, datepickerFocus, same, default, shared, input, typed, mode,
    place, shifted,
    tooltipOpt, over, tooltipEnabled, dead, hoverState, timeout, attached, shown, fades,
    waits, hears, tooltipOdd, caught,
    class, expanded, data, moves, bare, early,
    barOpt, value, focused, searchHeard, silent, query, searchRows, found, searchEnabled,
    notEmpty, overlay, searchActive, late, crossed,
    smart, options, selectChosen, text, selectOpen, apart, stale

pickerVars == <<option, turned, goal, pickerActive, pickerChosen, filled, result, pickerTouch,
                frames, pickerOpen>>
virtualVars == <<items, filtered, filtering, cache, virtualRows, virtualScroll, painted,
                 muddled>>
swiperVars == <<swiperOpt, slides, size, swiperActive, translate, isBeginning, isEnd,
                swiperTrans, swiperAnimating, ends, resumes, swiperTouch, lock, autoplaying,
                paused, timers, swiperId, loose, stuck, restarted>>
scrollVars == <<scrollOpt, down, scrollMoved, start, dir, scrollY, max, page, inTransition,
                scrollTrans, scrollAnimating, loops, wheel, bar, scrollOdd>>
fastVars == <<fastOpt, finger, fastMoved, quick, clicked, trackClick, targetElement,
              needsFastClick, activeSelection, isMoved, tapHoldFired, activable, fastActive,
              activeTO, removes, needsTO, holdTO, strays, native, fastFocus, rippleTarget,
              rippleTO, wave, waveRemove, orphan, tap, got, fastOdd>>
collectionsVars == <<collectionsId, collectionsHeard, made, list, length, byId, collectionsRows,
                     wire, doubled>>
datepickerVars == <<datepickerO, date, view, ref, datepickerFocus, same, default, shared,
                    input, typed, mode, place, shifted>>
tooltipVars == <<tooltipOpt, over, tooltipEnabled, dead, hoverState, timeout, attached, shown,
                 fades, waits, hears, tooltipOdd, caught>>
accordionVars == <<class, expanded, data, moves, bare, early>>
searchVars == <<barOpt, value, focused, searchHeard, silent, query, searchRows, found,
                searchEnabled, notEmpty, overlay, searchActive, late, crossed>>
selectVars == <<smart, options, selectChosen, text, selectOpen, apart, stale>>

Picker == INSTANCE Picker WITH
    active <- pickerActive, chosen <- pickerChosen, touch <- pickerTouch, open <- pickerOpen

VirtualList == INSTANCE VirtualList WITH
    Start <- ListStart, rows <- virtualRows, scroll <- virtualScroll

Swiper == INSTANCE Swiper WITH
    Setting <- SwiperSetting, Slide <- SwiperSlide, MaxTimers <- MaxPlays,
    opt <- swiperOpt, active <- swiperActive, trans <- swiperTrans, animating <- swiperAnimating, touch <- swiperTouch, id <- swiperId

Scroller == INSTANCE Scroller WITH
    Setting <- ScrollSetting, opt <- scrollOpt, moved <- scrollMoved, y <- scrollY,
    trans <- scrollTrans, animating <- scrollAnimating, odd <- scrollOdd

FastClicks == INSTANCE FastClicks WITH
    Setting <- ClickSetting, Elem <- ClickElem, opt <- fastOpt, moved <- fastMoved, active <- fastActive,
    focus <- fastFocus, odd <- fastOdd

Collections == INSTANCE Collections WITH
    id <- collectionsId, heard <- collectionsHeard, rows <- collectionsRows

Datepicker == INSTANCE Datepicker WITH o <- datepickerO, focus <- datepickerFocus

Tooltip == INSTANCE Tooltip WITH
    Setting <- TipSetting, opt <- tooltipOpt, enabled <- tooltipEnabled, odd <- tooltipOdd

Accordion == INSTANCE Accordion

Searchbar == INSTANCE Searchbar WITH
    Setting <- BarSetting, Items <- BarItem, heard <- searchHeard, rows <- searchRows, enabled <- searchEnabled,
    active <- searchActive

SmartSelect == INSTANCE SmartSelect WITH
    Setting <- SelectSetting, Off <- Unselectable, chosen <- selectChosen,
    open <- selectOpen

ASSUME AssumptionOfPicker == Picker!PickerAssumption
ASSUME AssumptionOfList == VirtualList!ListAssumption
ASSUME AssumptionOfSlides == Swiper!SwiperAssumption
ASSUME AssumptionOfScrolls == Scroller!ScrollAssumption
ASSUME AssumptionOfClicks == FastClicks!ClickAssumption
ASSUME AssumptionOfModels == Collections!CollectionAssumption
ASSUME AssumptionOfDates == Datepicker!DatesAssumption
ASSUME AssumptionOfTips == Tooltip!TipAssumption
ASSUME AssumptionOfPanels == Accordion!AccordionAssumption
ASSUME AssumptionOfSearch == Searchbar!SearchAssumption
ASSUME AssumptionOfSelect == SmartSelect!SelectAssumption

Component == {"picker", "virtual", "swiper", "scroll", "fast", "collections", "datepicker",
              "tooltip", "accordion", "search", "select"}

\* A component that takes no steps starts in one way.
Init ==
    /\ on \in Component
    /\ Picker!Init /\ (on # "picker" => option.onTouchmove /\ option.onMomentum)
    /\ VirtualList!Init
    /\ Swiper!Init /\ (on # "swiper" => swiperOpt.uses = {"edit"})
    /\ Scroller!Init /\ (on # "scroll" => scrollOpt.css /\ max = -1)
    /\ FastClicks!Init /\ (on # "fast" => fastOpt.os = "ios")
    /\ Collections!Init
    /\ Datepicker!Init /\ (on # "datepicker" => datepickerO.autoclose /\ datepickerO.linked)
    /\ Tooltip!Init /\ (on # "tooltip" => tooltipOpt.trigger = "click" /\ ~tooltipOpt.show /\ ~tooltipOpt.hide)
    /\ Accordion!Init /\ (on # "accordion" => \A p \in 1..Panels : ~expanded[p])
    /\ Searchbar!Init /\ (on # "search" => barOpt.ios /\ barOpt.kind = "list")
    /\ SmartSelect!Init /\ (on # "select" => smart.multiple /\ smart.popup /\ smart.back /\ smart.valued /\ selectChosen = {})

Next ==
    \/ /\ on = "picker" /\ Picker!Next
       /\ UNCHANGED <<on, virtualVars, swiperVars, scrollVars, fastVars, collectionsVars,
                      datepickerVars, tooltipVars, accordionVars, searchVars, selectVars>>
    \/ /\ on = "virtual" /\ VirtualList!Next
       /\ UNCHANGED <<on, pickerVars, swiperVars, scrollVars, fastVars, collectionsVars,
                      datepickerVars, tooltipVars, accordionVars, searchVars, selectVars>>
    \/ /\ on = "swiper" /\ Swiper!Next
       /\ UNCHANGED <<on, pickerVars, virtualVars, scrollVars, fastVars, collectionsVars,
                      datepickerVars, tooltipVars, accordionVars, searchVars, selectVars>>
    \/ /\ on = "scroll" /\ Scroller!Next
       /\ UNCHANGED <<on, pickerVars, virtualVars, swiperVars, fastVars, collectionsVars,
                      datepickerVars, tooltipVars, accordionVars, searchVars, selectVars>>
    \/ /\ on = "fast" /\ FastClicks!Next
       /\ UNCHANGED <<on, pickerVars, virtualVars, swiperVars, scrollVars, collectionsVars,
                      datepickerVars, tooltipVars, accordionVars, searchVars, selectVars>>
    \/ /\ on = "collections" /\ Collections!Next
       /\ UNCHANGED <<on, pickerVars, virtualVars, swiperVars, scrollVars, fastVars,
                      datepickerVars, tooltipVars, accordionVars, searchVars, selectVars>>
    \/ /\ on = "datepicker" /\ Datepicker!Next
       /\ UNCHANGED <<on, pickerVars, virtualVars, swiperVars, scrollVars, fastVars,
                      collectionsVars, tooltipVars, accordionVars, searchVars, selectVars>>
    \/ /\ on = "tooltip" /\ Tooltip!Next
       /\ UNCHANGED <<on, pickerVars, virtualVars, swiperVars, scrollVars, fastVars,
                      collectionsVars, datepickerVars, accordionVars, searchVars, selectVars>>
    \/ /\ on = "accordion" /\ Accordion!Next
       /\ UNCHANGED <<on, pickerVars, virtualVars, swiperVars, scrollVars, fastVars,
                      collectionsVars, datepickerVars, tooltipVars, searchVars, selectVars>>
    \/ /\ on = "search" /\ Searchbar!Next
       /\ UNCHANGED <<on, pickerVars, virtualVars, swiperVars, scrollVars, fastVars,
                      collectionsVars, datepickerVars, tooltipVars, accordionVars, selectVars>>
    \/ /\ on = "select" /\ SmartSelect!Next
       /\ UNCHANGED <<on, pickerVars, virtualVars, swiperVars, scrollVars, fastVars,
                      collectionsVars, datepickerVars, tooltipVars, accordionVars, searchVars>>

vars == <<on, pickerVars, virtualVars, swiperVars, scrollVars, fastVars, collectionsVars,
          datepickerVars, tooltipVars, accordionVars, searchVars, selectVars>>

Spec ==
    /\ Init /\ [][Next]_vars

-----------------------------------------------------------------------------
\* What moves comes to rest where the widget counts on it: the wheels of the
\* picker, the slides, the scroller and its scrollbar; autoplay has one timeout.
RestsRight ==
    /\ Picker!RestShows
    /\ Swiper!RestsAtSlide /\ Swiper!OneTimer
    /\ Scroller!RestsInside /\ Scroller!RestsAtPage /\ Scroller!ScrollbarFades

\* Indexes, caches and what is seen of a list agree with the list.
DataAgree ==
    /\ Collections!IndexAgrees /\ Collections!ListensOnce
    /\ VirtualList!CacheMatches /\ VirtualList!ViewCovered
    /\ Searchbar!ResultsMatch

\* The field, and what is chosen in the widget that fills it, agree.
ValuesAgree ==
    /\ Picker!ResultFollows
    /\ Datepicker!InputAgrees
    /\ SmartSelect!SelectAgrees /\ SmartSelect!ListComplete

\* One tap is one click, and leaves nothing marked as touched.
OneClick == FastClicks!OneClick /\ FastClicks!PressedGoes

\* What is open, or hovered, or searched in, looks so, and nothing else does.
OpenAgree ==
    /\ Tooltip!LeftIsGone /\ Tooltip!HoveredIsShown
    /\ Accordion!OneOpen /\ Accordion!TriggersAgree
    /\ Searchbar!OverlayAgrees

\* A step changes what it is for: the next slide is the one after, another
\* slide, added or removed, leaves the one that is seen, an answer to fetch is
\* mirrored, a date picker that goes leaves the field with the date, a hold is
\* told of a finger.
StepsKeep ==
    /\ Swiper!NextIsNext /\ Swiper!KeepsPlace
    /\ Collections!Mirrors /\ Datepicker!HidingWrites /\ FastClicks!HoldIsHeld

-----------------------------------------------------------------------------
(* What the run gives the constants.                                       *)

\* The second wheel has one, two or three items.
Lengths == (0 :> 2) @@ (1 :> 1) @@ (2 :> 3)

\* Straight swipers, each used in one more way, and a loop that plays.
Straight(auto, use) ==
    [loop |-> FALSE, auto |-> auto, uses |-> {use}, slides |-> <<"a", "b">>, sizes |-> {2}]
SwiperSettings ==
    {Straight("none", "edit"), Straight("none", "lock"), Straight("stops", "start"),
     Straight("stays", "start"),
     [loop |-> TRUE, auto |-> "stays", uses |-> {}, slides |-> <<"a", "b">>, sizes |-> {1, 2}]}

\* Two queries, one that finds and one that does not.
QueryMatches == ("" :> {1, 2}) @@ ("x" :> {1}) @@ ("z" :> {})

ClickSettings == {[os |-> "ios", hold |-> TRUE, material |-> FALSE],
                  [os |-> "android", hold |-> FALSE, material |-> TRUE]}

ScrollEnds == {-2, -1}
ScrollSettings == {[css |-> TRUE, snap |-> TRUE], [css |-> FALSE, snap |-> FALSE]}

MonthsOfDates == <<1, 2, 2, 3, 4>>
ListAtFirst == <<1, 2, 3>>
TipSettings == [trigger : {"hover", "click"}, show : BOOLEAN, hide : BOOLEAN]
BarSettings == [ios : BOOLEAN, kind : {"list", "virtual", "custom"}]
SelectSettings == [multiple : BOOLEAN, popup : BOOLEAN, back : BOOLEAN, valued : BOOLEAN]
=============================================================================
