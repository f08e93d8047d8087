---------------------------- MODULE MCCoursePages -----------------------------
(***************************************************************************)
(* The teacher's application and the parts of framework7 that end what     *)
(* they began: dialogs, panels, the calendar, photos, rows of lists, the   *)
(* pull to refresh, notifications.  They share no state, so the component  *)
(* named by on takes all the steps.                                        *)
(***************************************************************************)
EXTENDS Integers, TLC

CONSTANTS
    NULL,
    Page, MaxHistory, MaxWire, MaxPosts, Failures,                \* TeacherApp
    Dialog, Sheet, Popover, Popup, Picker, Login, MaxBusy,        \* Modals
    Panel, Swiped, Width,                                         \* Panels
    Year, First, Last, Today, MaxShift,                           \* Calendar
    Photo, MaxOpen,                                               \* PhotoBrowser
    Row, Setting, MaxCloses,                                      \* ListRows
    System, Finger, MaxPending,                                   \* PullToRefresh
    Note, Custom                                                  \* Notifications

VARIABLES
    on,
    view, wire, cache, appShown, appTouch, appSwipe, posting, stored, crossed, appLost,
    el, overlay, stack,
    active, panelsShown, pos, closing, panelsAllow, ends, finger, rushed,
    months, marked, current, shift, animating, onEnd, calendarOpened, value, calendarSwipe,
    allowClick, disturbed,
    kind, photoOpened, made, inDom, leaving, photoContainer, live, listens, index, previous,
    sliding, gesture, image, scale, pinching, enlarged, held, photoPull, thrown, photoAllow, later,
    crowded, unheard, forsaken, strayed,
    uses, order, openedClass, listAt, listMoving, closes, deleting, openedEl, listAllow,
    listTouch, sortable, listPull, listLost,
    os, down, top, touchId, isTouched, isMoved, wasScrolled, refresh, translate, refreshing,
    pullPull, transitioning, pullMoving, cleans, pending, again, pullLost,
    note, hold, told, notesContainer, beside

appVars == <<view, wire, cache, appShown, appTouch, appSwipe, posting, stored, crossed,
             appLost>>
modalsVars == <<el, overlay, stack>>
panelsVars == <<active, panelsShown, pos, closing, panelsAllow, ends, finger, rushed>>
calendarVars == <<months, marked, current, shift, animating, onEnd, calendarOpened, value,
                  calendarSwipe, allowClick, disturbed>>
photoVars == <<kind, photoOpened, made, inDom, leaving, photoContainer, live, listens, index,
               previous, sliding, gesture, image, scale, pinching, enlarged, held, photoPull,
               thrown, photoAllow, later, crowded, unheard, forsaken, strayed>>
listVars == <<uses, order, openedClass, listAt, listMoving, closes, deleting, openedEl,
              listAllow, listTouch, sortable, listPull, listLost>>
pullVars == <<os, down, top, touchId, isTouched, isMoved, wasScrolled, refresh, translate,
              refreshing, pullPull, transitioning, pullMoving, cleans, pending, again,
              pullLost>>
notesVars == <<note, hold, told, notesContainer, beside>>

App == INSTANCE TeacherApp WITH
    shown <- appShown, touch <- appTouch, swipe <- appSwipe, lost <- appLost

Modals == INSTANCE Modals

Panels == INSTANCE Panels WITH shown <- panelsShown, allow <- panelsAllow

Calendar == INSTANCE Calendar WITH opened <- calendarOpened, swipe <- calendarSwipe

PhotoBrowser == INSTANCE PhotoBrowser WITH
    opened <- photoOpened, container <- photoContainer, pull <- photoPull, allow <- photoAllow

ListRows == INSTANCE ListRows WITH
    at <- listAt, moving <- listMoving, allow <- listAllow, touch <- listTouch, pull <- listPull,
    lost <- listLost

PullToRefresh == INSTANCE PullToRefresh WITH
    pull <- pullPull, moving <- pullMoving, lost <- pullLost

Notes == INSTANCE Notifications WITH container <- notesContainer

ASSUME AssumptionOfPages == App!PagesAssumption
ASSUME AssumptionOfModals == Modals!ModalsAssumption
ASSUME AssumptionOfPanels == Panels!PanelsAssumption
ASSUME AssumptionOfCalendar == Calendar!CalendarAssumption
ASSUME AssumptionOfPhotos == PhotoBrowser!PhotosAssumption
ASSUME AssumptionOfRows == ListRows!RowsAssumption

Component == {"app", "modals", "panels", "calendar", "photo", "list", "pull", "notes"}

AnyOf(set) == CHOOSE x \in set : TRUE

\* A component that takes no steps starts in one way.
Init ==
    /\ on \in Component
    /\ App!Init /\ Modals!Init /\ Panels!Init /\ Calendar!Init
    /\ PhotoBrowser!Init /\ (on # "photo" => kind = "page" /\ index = AnyOf(Photo))
    /\ ListRows!Init /\ (on # "list" => [rows |-> order, uses |-> uses] = AnyOf(Setting))
    /\ PullToRefresh!Init /\ (on # "pull" => os = AnyOf(System) /\ top)
    /\ Notes!Init

Next ==
    \/ /\ on = "app" /\ App!Next
       /\ UNCHANGED <<on, modalsVars, panelsVars, calendarVars, photoVars, listVars, pullVars,
                      notesVars>>
    \/ /\ on = "modals" /\ Modals!Next
       /\ UNCHANGED <<on, appVars, panelsVars, calendarVars, photoVars, listVars, pullVars,
                      notesVars>>
    \/ /\ on = "panels" /\ Panels!Next
       /\ UNCHANGED <<on, appVars, modalsVars, calendarVars, photoVars, listVars, pullVars,
                      notesVars>>
    \/ /\ on = "calendar" /\ Calendar!Next
       /\ UNCHANGED <<on, appVars, modalsVars, panelsVars, photoVars, listVars, pullVars,
                      notesVars>>
    \/ /\ on = "photo" /\ PhotoBrowser!Next
       /\ UNCHANGED <<on, appVars, modalsVars, panelsVars, calendarVars, listVars, pullVars,
                      notesVars>>
    \/ /\ on = "list" /\ ListRows!Next
       /\ UNCHANGED <<on, appVars, modalsVars, panelsVars, calendarVars, photoVars, pullVars,
                      notesVars>>
    \/ /\ on = "pull" /\ PullToRefresh!Next
       /\ UNCHANGED <<on, appVars, modalsVars, panelsVars, calendarVars, photoVars, listVars,
                      notesVars>>
    \/ /\ on = "notes" /\ Notes!Next
       /\ UNCHANGED <<on, appVars, modalsVars, panelsVars, calendarVars, photoVars, listVars,
                      pullVars>>

vars == <<on, appVars, modalsVars, panelsVars, calendarVars, photoVars, listVars, pullVars,
          notesVars>>

Spec ==
    /\ Init /\ [][Next]_vars
    /\ WF_appVars(on = "app" /\ (App!PageArrives \/ App!PageFails))
    /\ WF_appVars(on = "app" /\ (App!DataArrives \/ App!DataFails))
    /\ WF_appVars(on = "app" /\ App!AnimationEnd)
    /\ WF_appVars(on = "app" /\ App!TransitionEnd)
    /\ \A p \in Panel : WF_panelsVars(on = "panels" /\ Panels!TransitionEnd(p))
    /\ WF_calendarVars(on = "calendar" /\ Calendar!MonthChangeEnd)
    /\ WF_photoVars(on = "photo" /\ ((\E n \in later : PhotoBrowser!PulledBack(n)) \/ PhotoBrowser!PullTimer))
    /\ \A r \in Row : WF_listVars(on = "list" /\ ListRows!CloseTimeout(r))
    /\ WF_pullVars(on = "pull" /\ PullToRefresh!TransitionEnd)
    /\ \A n \in Note : WF_notesVars(on = "notes" /\ Notes!HoldTimeout(n))
    /\ \A n \in Note : WF_notesVars(on = "notes" /\ Notes!TransitionEnd(n))

-----------------------------------------------------------------------------
\* What is seen of the pages, the address, the history and the indicator agree
\* (teacher.js on the views and the router of framework7).
PagesAgree == App!Settled /\ App!IndicatorMeansLoading

\* What covers the page belongs to something open, and goes with it: overlays
\* to modals, which are displayed (but for one opened while it was closing) and
\* of which one dialog is seen at a time, and the container to its
\* notifications, of which each is told once that it closes.
CoversAgree ==
    /\ Modals!NoOrphanOverlay /\ Modals!OpenIsDisplayed /\ Modals!OneDialog
    /\ Notes!ContainerShown /\ Notes!ClosedOnce

\* At rest exactly the active panel is displayed.
RestingPanels == Panels!RestingPanels

\* The calendar shows the month it names, and one beyond its limits at most.
MonthsAgree == Calendar!CalendarShows /\ Calendar!OneBeyond

\* The photo browser that is open is in the page, one that is closed goes, and
\* at most one photo is enlarged, the one that the browser would put back, which
\* at rest is the one in sight.
PhotosAgree ==
    PhotoBrowser!OpenIsShown /\ PhotoBrowser!EnlargedIsKnown /\ PhotoBrowser!EnlargedInSight

\* The row that is out is the one the code will close.
OutIsKnown == ListRows!OutIsKnown

\* The content shows that it refreshes as long as it does.
RefreshShown == PullToRefresh!RefreshShown

\* A row that was sorted lands where it was seen, and another finger does not
\* let go what one finger pulls.
GesturesKept == ListRows!SortLands /\ PullToRefresh!PullsOn

\* Whatever an animation or a request locks is given back: changing pages,
\* panels, sliding months, swiping rows and photos; and what is to go goes.
\* Excepted, by the histories of the modules: data of a page that is lost, a load
\* that crosses a finger, a photo whose element has gone, a second photo browser,
\* and a pull that the system cancels or another finger begins anew.
LocksFreed ==
    /\ on = "app" => App!FreeAgain
    /\ Panels!PanelsUnlocked /\ Calendar!SlideEnds
    /\ ListRows!SwipesAgain /\ PhotoBrowser!PhotosSwipeAgain
    /\ PullToRefresh!MarksGo /\ Notes!HeldGoes

-----------------------------------------------------------------------------
\* What the rows are used for, in the runs.
Settings ==
    {[rows |-> <<"a", "b">>, uses |-> {"swipe", u}] : u \in {"open", "delete", "sort"}}
        \cup {[rows |-> <<"a", "b", "c">>, uses |-> {"sort"}]}
=============================================================================
