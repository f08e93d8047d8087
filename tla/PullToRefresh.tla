--------------------------- MODULE PullToRefresh ---------------------------
(***************************************************************************)
(* Pulling a page of framework7.js down to refresh it: the content follows *)
(* the finger, and released far enough it asks the page for new content    *)
(* and shows that until the page says it is done.                          *)
(***************************************************************************)
EXTENDS Integers, FiniteSets

CONSTANTS
    NULL,
    System,      \* "ios", "android"
    Finger,
    MaxPending   \* bound on the refreshes a page has not done

VARIABLES
    os,
    down,        \* fingers on the content
    top,         \* the content is scrolled to its top
    touchId, isTouched, isMoved, wasScrolled, refresh,
    translate,   \* how far it is pulled by the finger, 2: beyond the trigger distance
    refreshing, pull,   \* its classes: refreshing; pull-up "up" or pull-down "down"
    transitioning, moving,  \* the class; a transition is under way
    cleans,      \* a listener of the transition's end will take the classes away
    pending,     \* refreshes that the page has not done
    again, lost  \* history: a pull was released while it refreshed; a touch was cancelled,
                 \* or begun anew by a finger on another element of the content

pullVars == <<os, down, top, touchId, isTouched, isMoved, wasScrolled, refresh, translate,
              refreshing, pull, transitioning, moving, cleans, pending, again, lost>>
touchVars == <<touchId, isTouched, isMoved, wasScrolled>>
viewVars == <<refresh, translate, refreshing, pull, transitioning, moving, cleans, pending, again>>

\* Android numbers fingers from 0, and 0 counts as no identifier.
KnowsFinger == os = "ios"

-----------------------------------------------------------------------------
Init ==
    /\ os \in System /\ down = {} /\ top \in BOOLEAN /\ touchId = NULL /\ isTouched = FALSE
    /\ isMoved = FALSE /\ wasScrolled = FALSE /\ refresh = FALSE /\ translate = 0
    /\ refreshing = FALSE /\ pull = NULL /\ transitioning = FALSE /\ moving = FALSE /\ cleans = FALSE /\ pending = 0
    /\ again = FALSE /\ lost = FALSE

\* beside: the fingers on the same element of the content, one of which is the first
\* of targetTouches unless there is none.
Ignored(beside) == isTouched /\ (os = "ios" \/ beside # {})
TouchStart(f) ==
    /\ f \notin down /\ down' = down \cup {f}
    /\ \E beside \in SUBSET down :
           IF Ignored(beside) THEN UNCHANGED <<touchVars, lost>>
           ELSE /\ isMoved' = FALSE /\ isTouched' = TRUE /\ wasScrolled' = FALSE
                /\ touchId' \in IF beside = {} THEN {f} ELSE beside
                /\ lost' = (lost \/ isTouched)
    /\ UNCHANGED <<os, top, viewVars>>

\* Sideways at first, or far below the first screen: it is let go.
LetGo ==
    /\ isTouched /\ ~isMoved /\ down # {} /\ isTouched' = FALSE
    /\ \E far \in BOOLEAN : (far => ~top) /\ transitioning' = (transitioning /\ ~far)
    /\ UNCHANGED <<os, down, top, touchId, isMoved, wasScrolled, refresh, translate, refreshing,
                   pull, moving, cleans, pending, again, lost>>

\* The finger, or another if it was taken away, is y below where it began. Once
\* scrolled, the content of an iPhone is pulled by the browser.
TouchMove(y) ==
    /\ isTouched /\ down # {}
    /\ isMoved' = TRUE /\ wasScrolled' = (wasScrolled \/ ~top)
    /\ transitioning' = (transitioning /\ isMoved)
    /\ IF y > 0 /\ top
       THEN /\ translate' = IF os = "android" \/ ~wasScrolled' THEN y ELSE translate
            /\ refresh' = (y = 2) /\ pull' = IF y = 2 THEN "up" ELSE "down"
       ELSE pull' = NULL /\ refresh' = FALSE /\ UNCHANGED translate
    /\ moving' = IF translate' = translate THEN moving ELSE transitioning'
    /\ UNCHANGED <<os, down, top, touchId, isTouched, refreshing, cleans, pending, again, lost>>

\* The release. The content goes to where its classes put it.
Another(f) == KnowsFinger /\ f # touchId
TouchEnd(f) ==
    /\ f \in down /\ down' = down \ {f}
    /\ IF Another(f) THEN UNCHANGED <<touchVars, viewVars>>
       ELSE /\ isTouched' = FALSE /\ isMoved' = FALSE /\ UNCHANGED <<touchId, wasScrolled, cleans>>
            /\ IF isTouched /\ isMoved
               THEN /\ translate' = 0 /\ transitioning' = (transitioning \/ translate > 0)
                    /\ moving' = (moving \/ translate > 0)
                    /\ IF refresh
                       THEN /\ pending < MaxPending /\ pending' = pending + 1
                            /\ refreshing' = TRUE /\ again' = (again \/ refreshing)
                            /\ UNCHANGED pull
                       ELSE /\ pull' = IF pull = "down" THEN NULL ELSE pull
                            /\ UNCHANGED <<pending, refreshing, again>>
                    /\ UNCHANGED refresh
               ELSE UNCHANGED <<refresh, translate, refreshing, pull, transitioning, moving, pending, again>>
    /\ UNCHANGED <<os, top, lost>>

\* Nobody listens to a touch that the system takes away.
TouchCancel(f) ==
    /\ f \in down /\ down' = down \ {f} /\ lost' = TRUE
    /\ UNCHANGED <<os, top, touchVars, viewVars>>

Scroll == top' = ~top /\ UNCHANGED <<os, down, touchVars, viewVars, lost>>

\* pullToRefreshTrigger, called by the page.
TriggersAlways == TRUE  \* mutant
Triggers == ~refreshing
Trigger ==
    /\ Triggers /\ pending < MaxPending /\ pending' = pending + 1
    /\ refreshing' = TRUE /\ transitioning' = TRUE /\ moving' = (moving \/ translate = 0)
    /\ UNCHANGED <<os, down, top, touchVars, refresh, translate, pull, cleans, again, lost>>

\* pullToRefreshDone, for any of the refreshes.
Done ==
    /\ pending > 0 /\ pending' = pending - 1
    /\ refreshing' = FALSE /\ cleans' = TRUE /\ transitioning' = TRUE
    /\ moving' = (moving \/ (refreshing /\ translate = 0))
    /\ UNCHANGED <<os, down, top, touchVars, refresh, translate, pull, again, lost>>

TransitionEnd ==
    /\ moving /\ moving' = FALSE
    /\ pull' = IF cleans THEN NULL ELSE pull
    /\ transitioning' = (transitioning /\ ~cleans) /\ cleans' = FALSE
    /\ UNCHANGED <<os, down, top, touchVars, refresh, translate, refreshing, pending, again, lost>>

Next ==
    \/ \E f \in Finger : TouchStart(f) \/ TouchEnd(f) \/ TouchCancel(f)
    \/ \E y \in 0..2 : TouchMove(y)
    \/ LetGo \/ Scroll \/ Trigger \/ Done \/ TransitionEnd

Spec == Init /\ [][Next]_pullVars /\ WF_pullVars(TransitionEnd)

-----------------------------------------------------------------------------
\* The content shows that it refreshes exactly as long as the page has not
\* done it, unless it was pulled and released again meanwhile.
RefreshShown == ~again => (refreshing <=> pending > 0)

\* The content is let go only when the finger that pulls it leaves, where
\* fingers can be told apart: another finger does not end the pull.
PullsOn == [][os = "ios" /\ isTouched /\ isMoved /\ touchId \in down' => isTouched']_pullVars

\* Let alone, the content rests without a mark of the pull.
Alone == ~isTouched /\ ~refreshing
MarksGo == Alone /\ pull # NULL ~> (pull = NULL \/ ~Alone \/ lost)
=============================================================================
