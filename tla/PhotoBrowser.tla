---------------------------- MODULE PhotoBrowser ----------------------------
(***************************************************************************)
(* The photo browser of Framework7: opened on its own, in a popup or as a  *)
(* page; its photos slide, are enlarged by two fingers or a double tap,    *)
(* and are thrown away upwards to close it (framework7.js, "Photo          *)
(* Browser").  Every opening makes a new element; the n-th is n.  Every    *)
(* slide has an image.                                                     *)
(***************************************************************************)
EXTENDS Integers, FiniteSets

CONSTANTS Photo, MaxOpen   \* the slides; bound on openings

\* 0 stands for no slide.
PhotosAssumption == 0 \notin Photo

VARIABLES
    kind,       \* params.type
    opened,     \* pb.opened
    made,       \* elements made so far
    inDom,      \* those in the page
    leaving,    \* those with a closing animation, or going with their page
    container,  \* elements that pb.container stands for
    live,       \* element of pb.swiper, 0 without
    listens,    \* onPageBeforeRemove is attached
    index,      \* swiper.activeIndex
    previous,   \* swiper.previousIndex
    sliding,    \* swiper.animating
    gesture,    \* gestureSlide, 0 for none
    image,      \* slide of gestureImg, 0 for none
    scale,      \* 1 is the image's own, 0 stands for less, 2 for more
    pinching,   \* two fingers are on a slide
    enlarged,   \* slides whose image is drawn at another scale
    held,       \* a finger is on the photos
    pull,       \* swipeToCloseIsTouched
    thrown,     \* element of swipeToCloseActiveSlide once started, 0 before
    allow,      \* allowSwipeToClose
    later,      \* what is to end: 0 the timer that closes, n the way back of a photo of n
    crowded,    \* history: opened while the last one was still there
    unheard,    \* history: the listener was lost with another page
    forsaken,   \* history: a photo went back, or was thrown, in an element that had gone
    strayed     \* history: see SlideTo and GestureStart

photoVars == <<kind, opened, made, inDom, leaving, container, live, listens, index, previous,
               sliding, gesture, image, scale, pinching, enlarged, held, pull, thrown, allow, later,
               crowded, unheard, forsaken, strayed>>
slideVars == <<index, previous, sliding>>
zoomVars == <<gesture, image, scale, pinching, enlarged, strayed>>
elementVars == <<kind, opened, made, inDom, leaving, container, live, listens, crowded, unheard>>
pullVars == <<held, pull, thrown, allow, later, forsaken>>

Init ==
    /\ kind \in {"standalone", "popup", "page"}
    /\ opened = FALSE /\ made = 0 /\ inDom = {} /\ leaving = {} /\ container = {} /\ live = 0
    /\ listens = FALSE /\ index \in Photo /\ previous = index /\ sliding = FALSE
    /\ gesture = 0 /\ image = 0 /\ scale = 1 /\ pinching = FALSE /\ enlarged = {}
    /\ held = FALSE /\ pull = FALSE /\ thrown = 0 /\ allow = TRUE /\ later = {}
    /\ crowded = FALSE /\ unheard = FALSE /\ forsaken = FALSE /\ strayed = FALSE

-----------------------------------------------------------------------------
(* open and close.                                                         *)

\* Opened again while the last one is still there, the container is both.
Open(i) ==
    /\ ~opened \/ live = 0
    /\ made < MaxOpen
    /\ opened' = TRUE /\ made' = made + 1 /\ live' = made + 1
    /\ inDom' = inDom \cup {made + 1} /\ container' = inDom'
    /\ listens' = (kind = "page")
    /\ index' = i /\ previous' = i /\ sliding' = FALSE /\ enlarged' = {} /\ strayed' = FALSE
    /\ crowded' = (inDom # {})
    /\ UNCHANGED <<kind, leaving, unheard, gesture, image, scale, pinching, pullVars>>

\* pb.close: the swiper goes at once, with what it heard of the finger; the
\* element with its animation.  The scale and the swipe stay as they are.
Forgets == gesture' = 0 /\ image' = 0
Closed ==
    /\ opened' = FALSE
    /\ IF live = 0 THEN UNCHANGED <<live, slideVars, zoomVars, held>>
       ELSE /\ live' = 0 /\ sliding' = FALSE /\ enlarged' = {} /\ held' = FALSE
            /\ Forgets /\ pinching' = FALSE
            /\ UNCHANGED <<index, previous, scale, strayed>>

Shown == live # 0 /\ live \in inDom

CloseLink ==
    /\ Shown
    /\ Closed
    /\ leaving' = leaving \cup (IF kind = "standalone" THEN container ELSE {live})
    /\ UNCHANGED <<kind, made, inDom, container, listens, crowded, unheard, pull, thrown, allow,
                   later, forsaken>>

\* A popup is closed, or a page left, without the browser's link.
Left ==
    /\ kind # "standalone" /\ live \in inDom \ leaving
    /\ leaving' = leaving \cup {live}
    /\ UNCHANGED <<kind, opened, made, inDom, container, live, listens, crowded, unheard, slideVars,
                   zoomVars, pullVars>>

\* An element is gone: its animation ended (then all of pb.container goes), its
\* popup is closed, or its page is removed, which closes the browser.
TellsNot == FALSE  \* mutant
Tells == kind = "popup" \/ (kind = "page" /\ listens)
Gone(n) ==
    /\ n \in leaving
    /\ LET gone == IF kind = "standalone" THEN container ELSE {n}
       IN  /\ inDom' = inDom \ gone /\ leaving' = leaving \ gone
           /\ later' = later \ gone /\ forsaken' = (forsaken \/ later \cap gone # {})
    /\ listens' = (listens /\ kind # "page")
    /\ IF Tells THEN Closed ELSE UNCHANGED <<opened, live, slideVars, zoomVars, held>>
    /\ UNCHANGED <<kind, made, container, crowded, unheard, pull, thrown, allow>>

\* The listener leaves with the first page that is removed, whichever it is.
OtherPageRemoved ==
    /\ listens /\ listens' = FALSE
    /\ unheard' = TRUE
    /\ UNCHANGED <<kind, opened, made, inDom, leaving, container, live, crowded, slideVars, zoomVars,
                   pullVars>>

-----------------------------------------------------------------------------
(* The slides and their zoom.                                              *)

\* open of a browser that is open, its buttons, or a finger: also to the slide
\* it stands at, or goes to already; a finger may have drawn it away.
SlideTo(i) ==
    /\ live # 0
    /\ index' = i /\ previous' = index
    /\ \/ sliding' = TRUE
       \/ i = index /\ UNCHANGED sliding
    /\ strayed' = (strayed \/ (i = index /\ sliding))
    /\ UNCHANGED <<elementVars, gesture, image, scale, pinching, enlarged, pullVars>>

DrawnAt(x) == enlarged' = IF x = 1 THEN enlarged \ {image'} ELSE enlarged \cup {image'}

\* onSliderTransitionEnd puts the image back that was enlarged on another slide.
Resets == gesture # 0 /\ previous # index
SlideEnd ==
    /\ Shown /\ sliding /\ sliding' = FALSE
    /\ IF Resets
       THEN /\ gesture' = 0 /\ image' = 0 /\ scale' = 1 /\ enlarged' = enlarged \ {image}
            /\ UNCHANGED <<pinching, strayed>>
       ELSE UNCHANGED zoomVars
    /\ UNCHANGED <<elementVars, index, previous, pullVars>>

\* Two fingers on a slide in sight, be it one that is drawn or slides past: its
\* image is taken, if none is held yet.
Takes(i) ==
    /\ gesture' = (IF gesture = 0 THEN i ELSE gesture)
    /\ image' = (IF gesture = 0 THEN i ELSE image)
GestureStart(i) ==
    /\ Shown /\ ~pinching
    /\ pinching' = TRUE
    /\ Takes(i)
    /\ strayed' = (strayed \/ (i # index /\ ~(sliding /\ previous # index)))
    /\ UNCHANGED <<elementVars, slideVars, scale, enlarged, pullVars>>

\* Meanwhile a slide may have ended, and the image be forgotten.
GestureChange ==
    /\ pinching /\ image # 0
    /\ scale' \in 0..2 /\ image' = image /\ DrawnAt(scale')
    /\ UNCHANGED <<elementVars, slideVars, gesture, pinching, strayed, pullVars>>

GestureEnd ==
    /\ pinching /\ pinching' = FALSE
    /\ IF image = 0 THEN UNCHANGED <<gesture, image, scale, enlarged>>
       ELSE /\ scale' = (IF scale = 0 THEN 1 ELSE scale) /\ image' = image /\ DrawnAt(scale')
            /\ gesture' = (IF scale' = 1 THEN 0 ELSE gesture)
    /\ UNCHANGED <<elementVars, slideVars, strayed, pullVars>>

\* Double tap
ToggleZoom ==
    /\ Shown /\ ~pinching
    /\ image' = IF gesture = 0 THEN index ELSE image
    /\ IF scale # 1 THEN scale' = 1 /\ gesture' = 0
       ELSE scale' = 2 /\ gesture' = (IF gesture = 0 THEN index ELSE gesture)
    /\ DrawnAt(scale')
    /\ UNCHANGED <<elementVars, slideVars, pinching, strayed, pullVars>>

-----------------------------------------------------------------------------
(* Swipe to close.                                                         *)

PullStart ==
    /\ Shown /\ kind # "page" /\ ~held /\ held' = TRUE
    /\ pull' = (pull \/ allow)
    /\ UNCHANGED <<elementVars, slideVars, zoomVars, thrown, allow, later, forsaken>>

\* A swipe that a closed browser did not end goes on with the photo it began with.
PullMove ==
    /\ Shown /\ held /\ pull /\ thrown = 0 /\ thrown' = live
    /\ UNCHANGED <<elementVars, slideVars, zoomVars, held, pull, allow, later, forsaken>>

\* Far enough it closes in a moment; otherwise the photo goes back, if it was
\* moved at all.  In an element that has gone nothing goes back.
Frees == later \cup ({thrown} \cap inDom)
PullEnd ==
    /\ held /\ held' = FALSE /\ pull' = FALSE /\ thrown' = 0
    /\ \/ thrown = 0 /\ UNCHANGED <<allow, later, forsaken>>
       \/ thrown # 0 /\ allow' = FALSE /\ later' = later \cup {0} /\ UNCHANGED forsaken
       \/ thrown # 0 /\ allow' = FALSE /\ later' = Frees
          /\ forsaken' = (forsaken \/ thrown \notin inDom)
       \/ thrown # 0 /\ allow' = TRUE /\ UNCHANGED <<later, forsaken>>
    /\ UNCHANGED <<elementVars, slideVars, zoomVars>>

PulledBack(n) ==
    /\ n \in later \ {0} /\ later' = later \ {n} /\ allow' = TRUE
    /\ UNCHANGED <<elementVars, slideVars, zoomVars, held, pull, thrown, forsaken>>

\* The timer closes a browser of its own, or the popup, whichever is there then.
PullTimer ==
    /\ 0 \in later /\ later' = later \ {0} /\ allow' = TRUE
    /\ IF kind = "standalone"
       THEN /\ Closed
            /\ leaving' = IF live = 0 THEN leaving ELSE leaving \cup container
       ELSE /\ leaving' = leaving \cup (inDom \cap {made})
            /\ UNCHANGED <<opened, live, slideVars, zoomVars, held>>
    /\ UNCHANGED <<kind, made, inDom, container, listens, crowded, unheard, pull, thrown, forsaken>>

\* Given two containers, Swiper makes one of each, and the one the browser keeps
\* is neither: a crowded browser is not followed further.
Next ==
    /\ ~crowded
    /\ \/ \E i \in Photo : Open(i) \/ SlideTo(i) \/ GestureStart(i)
       \/ \E n \in leaving : Gone(n)
       \/ \E n \in later : PulledBack(n)
       \/ CloseLink \/ Left \/ OtherPageRemoved \/ SlideEnd \/ GestureChange \/ GestureEnd
       \/ ToggleZoom \/ PullStart \/ PullMove \/ PullEnd \/ PullTimer

Spec == Init /\ [][Next]_photoVars /\ WF_photoVars((\E n \in later : PulledBack(n)) \/ PullTimer)

-----------------------------------------------------------------------------
\* A browser that says it is open has its photos on the page, and one that is
\* closed has none left after its animation: however it was closed - by its
\* link, the popup, the page or the swipe - unless it was opened again before
\* the last one was gone, or its page's listener was lost.
OpenIsShown ==
    ~crowded /\ ~unheard => /\ opened = (live # 0)
                            /\ live # 0 => live \in inDom
                            /\ inDom \subseteq leaving \cup {live}

\* Whatever slides meanwhile, and whenever it was closed: at most one photo is
\* drawn at another scale, and it is the one that the next double tap puts back.
EnlargedIsKnown ==
    enlarged # {} => enlarged = {gesture} /\ image = gesture /\ scale # 1

\* At rest it is the photo in sight: unless slideTo named the photo it went to
\* already while it slid, or two fingers took hold of a photo that was only
\* drawn into sight, or slid out of it again.
EnlargedInSight ==
    live # 0 /\ ~sliding /\ ~strayed => enlarged \subseteq {index}

\* The swipe that closes is taken again after the photo went back or the timer
\* closed, unless the photo's element had gone by then.
PhotosSwipeAgain == ~allow ~> allow \/ forsaken \/ crowded
=============================================================================
