------------------------------ MODULE Scroller ------------------------------
(***************************************************************************)
(* IScroll along one axis (iscroll.js): a finger, the wheel, keys and the  *)
(* page itself move the content, which runs on, bounces back, snaps to     *)
(* pages, and shows a scrollbar that fades.  It is moved by CSS            *)
(* transitions, which end with an event, or frame by frame.  Positions are *)
(* 0 at the top and negative below; content is dragged out of its bounds   *)
(* by one unit at most.  All easings have a CSS form.                      *)
(***************************************************************************)
EXTENDS Integers, FiniteSets

CONSTANTS
    NULL,
    Ends,     \* what wrapper height - content height may be, all negative
    Step,     \* height of the wrapper, distance of pages
    Setting,  \* options to check, [css (useTransition), snap]
    Threshold \* snapThreshold, in units

ScrollAssumption ==
    /\ Setting \subseteq [css : BOOLEAN, snap : BOOLEAN]
    /\ Ends \subseteq {n \in Int : n < 0} /\ Step \in Nat \ {0} /\ Threshold \in Int
    /\ NULL \notin [from : Int, to : Int]

VARIABLES
    opt,      \* options
    down,     \* a pointer is on the content, initiated
    moved, start, dir, \* of its gesture: moved, absStartY, directionY
    y,        \* this.y
    max,      \* maxScrollY
    page,     \* currentPage.pageY
    inTransition,
    trans,    \* external: transition of the content, [from, to], NULL for none
    animating,\* isAnimating
    loops,    \* animations that will ask for a frame, as trans
    wheel,    \* wheelTimeout is set
    bar,      \* the scrollbar's opacity, 0 or 1, once fadeTimeout is over
    odd       \* history: "cut", "lost", "raced", see below

scrollVars == <<opt, down, moved, start, dir, y, max, page, inTransition, trans,
                animating, loops, wheel, bar, odd>>

S == [moved |-> moved, y |-> y, start |-> start, dir |-> dir, max |-> max,
      page |-> page, inTransition |-> inTransition, trans |-> trans, animating |-> animating,
      loops |-> loops, bar |-> bar, odd |-> odd]
Become(s) ==
    /\ moved' = s.moved /\ y' = s.y /\ start' = s.start /\ dir' = s.dir
    /\ max' = s.max /\ page' = s.page /\ inTransition' = s.inTransition /\ trans' = s.trans
    /\ animating' = s.animating /\ loops' = s.loops /\ bar' = s.bar /\ odd' = s.odd
    /\ UNCHANGED opt

Least(a, b) == IF a < b THEN a ELSE b
Most(a, b) == IF a > b THEN a ELSE b
Clamp(lo, n, hi) == Most(lo, Least(n, hi))
Between(a, b) == Least(a, b) .. Most(a, b)

-----------------------------------------------------------------------------
(* What the handlers are made of.                                          *)

\* The events fade the scrollbar in and out.
ScrollStart(s) == [s EXCEPT !.bar = 1]
BeforeScrollStart(s) == {s, ScrollStart(s)}
ScrollEnd(s) == [s EXCEPT !.bar = 0, !.odd = @ \ {"cut"}]

\* A movement that stops without scrollEnd, or one that never starts.
Cut(s) == IF s.trans # NULL THEN [s EXCEPT !.odd = @ \cup {"cut"}] ELSE s

\* scrollTo, at once or in time: a transition to where the content is is none.
Jump(s, to) ==
    IF opt.css THEN [Cut(s) EXCEPT !.inTransition = FALSE, !.trans = NULL, !.y = to]
    ELSE [s EXCEPT !.y = to, !.odd = IF s.loops = {} THEN @ ELSE @ \cup {"raced"}]
Glide(s, to) ==
    IF ~opt.css
    THEN [s EXCEPT !.animating = TRUE, !.loops = @ \cup {[from |-> s.y, to |-> to]},
                   !.odd = IF s.loops = {} THEN @ ELSE @ \cup {"raced"}]
    ELSE IF s.trans = NULL /\ to = s.y
    THEN [s EXCEPT !.inTransition = TRUE, !.odd = @ \cup {"cut"}]
    ELSE [s EXCEPT !.inTransition = TRUE, !.y = to,
                   !.trans = [from |-> IF @ = NULL THEN s.y ELSE @.from, to |-> to]]
ScrollTo(s, to, timed) == IF timed THEN Glide(s, to) ELSE Jump(s, to)

\* resetPosition
Outside(s) == s.y > 0 \/ s.y < s.max
ResetPosition(s, timed) == ScrollTo(s, Clamp(s.max, s.y, 0), timed)

\* The pages, 0 to LastPage; goToPage.
LastPage(m) == (Step - m - 1) \div Step
PageTop(m, p) == Most(-Step * p, m)
GoToPage(s, p, timed) ==
    LET q == Clamp(0, p, LastPage(s.max))
    IN  ScrollTo([s EXCEPT !.page = q, !.odd = @ \ {"lost"}], PageTop(s.max, q), timed)

\* _nearestSnap: the page in use, while the threshold is not exceeded.
NearestSnap(s, to) ==
    LET t == Clamp(s.max, to, 0)
        near == {p \in 0..LastPage(s.max) : t >= -Step * p - Step \div 2}
        p == IF near = {} THEN LastPage(s.max) ELSE CHOOSE p \in near : \A q \in near : p <= q
        d == to - s.start
    IN  IF d < Threshold /\ -d < Threshold THEN s.page
        ELSE IF p = s.page THEN Clamp(0, p + s.dir, LastPage(s.max)) ELSE p

\* refresh
Refreshed(s, end) ==
    LET s1 == [s EXCEPT !.max = end, !.dir = 0]
        s2 == IF opt.snap THEN GoToPage(s1, s1.page, FALSE) ELSE s1
    IN  IF Outside(s2) THEN ResetPosition(s2, FALSE) ELSE s2

\* Where the content is seen.
Seen(s) == IF s.trans = NULL THEN {s.y} ELSE Between(s.trans.from, s.trans.to)

-----------------------------------------------------------------------------
Init ==
    /\ opt \in Setting
    /\ down = FALSE /\ moved = FALSE /\ y = 0 /\ start = 0 /\ dir = 0
    /\ max \in Ends /\ page = 0
    /\ inTransition = FALSE /\ trans = NULL /\ animating = FALSE /\ loops = {}
    /\ wheel = FALSE /\ bar = 0 /\ odd = {}

(* A pointer.                                                              *)

\* Where a gesture leaves the content is not told to the pages.
Astray(s) == IF opt.snap THEN [s EXCEPT !.odd = @ \cup {"lost"}] ELSE s

\* What moves is stopped where it is seen.
Halted(s) == IF s.trans # NULL \/ s.loops # {} THEN Astray(s) ELSE s
Stopped(s) ==
    IF opt.css /\ s.inTransition
    THEN {ScrollEnd([Halted(s) EXCEPT !.inTransition = FALSE, !.trans = NULL, !.y = p]) : p \in Seen(s)}
    ELSE IF ~opt.css /\ s.animating THEN {ScrollEnd([Halted(s) EXCEPT !.animating = FALSE])} ELSE {s}

Start ==
    /\ ~down /\ down' = TRUE
    /\ \E s \in Stopped(S) : \E t \in BeforeScrollStart([s EXCEPT !.start = s.y]) : Become(t)
    /\ UNCHANGED wheel

\* Outside of the bounds the content follows more slowly.
Move(d) ==
    /\ down
    /\ LET s == [S EXCEPT !.moved = TRUE, !.y = Clamp(max - 1, @ + d, 1), !.dir = -d]
       IN  Become(IF moved THEN s ELSE ScrollStart(s))
    /\ UNCHANGED <<down, wheel>>

\* _end, of a pointer that lay for some frames: after a fling it runs on, the way
\* it went since startY was last renewed, be it not at all.
RunsOn == max - 1 .. 1
Settles(s, to) ==
    LET p == NearestSnap(s, to)
        s1 == IF opt.snap THEN [s EXCEPT !.page = p, !.odd = @ \ {"lost"}] ELSE s
        goal == IF opt.snap THEN PageTop(max, p) ELSE to
    IN  IF goal # s.y THEN Glide(s1, goal) ELSE ScrollEnd(s1)
Ended(s, speed) ==
    CASE Outside(s) ->
            {Astray(ResetPosition(s, TRUE))}
      [] ~Outside(s) /\ ~moved -> {ScrollEnd(Jump(s, s.y))}
      [] ~Outside(s) /\ moved /\ speed = "flick" /\ opt.snap -> {GoToPage(s, page + dir, TRUE)}
      [] OTHER ->
            IF speed = "slow" THEN {Settles(Jump(s, s.y), s.y)}
            ELSE {Settles([Jump(s, s.y) EXCEPT !.inTransition = TRUE], t) : t \in RunsOn}
End(speed) ==
    /\ down /\ down' = FALSE
    /\ animating \/ loops = {}
    /\ \E s \in Ended([S EXCEPT !.inTransition = FALSE], speed) :
           Become([s EXCEPT !.moved = FALSE, !.start = 0, !.dir = 0])
    /\ UNCHANGED wheel

(* Other ways to move.                                                     *)

Wheel(d) ==
    /\ wheel' = TRUE
    /\ LET s == IF wheel THEN S ELSE ScrollStart(S)
       IN  Become(IF opt.snap THEN GoToPage(s, page - d, TRUE) ELSE Jump(s, Clamp(max, y + d, 0)))
    /\ UNCHANGED down
WheelTimeout ==
    /\ wheel /\ wheel' = FALSE /\ Become(ScrollEnd(S))
    /\ UNCHANGED down

\* _key stops a transition too, without scrollEnd.
Key(d) ==
    /\ \E p \in IF inTransition THEN Seen(S) ELSE {y} :
          LET s == IF opt.css /\ inTransition
                   THEN [Cut(S) EXCEPT !.y = p, !.trans = NULL, !.inTransition = FALSE] ELSE S
          IN  Become(IF opt.snap THEN GoToPage(s, page + d, TRUE) ELSE Jump(s, Clamp(max, s.y + d, 0)))
    /\ UNCHANGED <<down, wheel>>

\* scrollTo, scrollBy and scrollToElement, next and prev, by the page.
PageScrolls(to, timed) ==
    /\ ~opt.snap /\ to \in max..0 /\ Become(ScrollTo(S, to, timed))
    /\ UNCHANGED <<down, wheel>>
NextPrev(d) ==
    /\ opt.snap /\ Become(GoToPage(S, page + d, TRUE))
    /\ UNCHANGED <<down, wheel>>

(* Timers, frames and the end of transitions.                              *)

AtEnd(s) ==
    IF Outside(s) THEN ResetPosition(s, TRUE) ELSE ScrollEnd([s EXCEPT !.inTransition = FALSE])

TransitionEnd ==
    /\ trans # NULL
    /\ LET s == [S EXCEPT !.trans = NULL] IN Become(IF inTransition THEN AtEnd(s) ELSE s)
    /\ UNCHANGED <<down, wheel>>

Frame(l) ==
    /\ \E p \in Between(l.from, l.to) :
           Become([S EXCEPT !.y = p, !.loops = IF animating THEN @ ELSE @ \ {l}])
    /\ UNCHANGED <<down, wheel>>
LastFrame(l) ==
    /\ Become(AtEnd([S EXCEPT !.y = l.to, !.loops = @ \ {l}, !.animating = FALSE]))
    /\ UNCHANGED <<down, wheel>>

\* The content or the page changes its height: resize and, later, refresh.
Refresh(end) == Become(Refreshed(S, end)) /\ UNCHANGED <<down, wheel>>

Next ==
    /\ "raced" \notin odd
    /\ \/ Start
       \/ \E d \in {-1, 1} : Move(d) \/ Wheel(d) \/ Key(d) \/ NextPrev(d)
       \/ \E speed \in {"slow", "quick", "flick"} : End(speed)
       \/ \E to \in max..0, timed \in BOOLEAN : PageScrolls(to, timed)
       \/ WheelTimeout \/ TransitionEnd
       \/ \E end \in Ends : Refresh(end)
       \/ \E l \in loops : Frame(l) \/ LastFrame(l)

Spec == Init /\ [][Next]_scrollVars

-----------------------------------------------------------------------------
AtRest == ~down /\ trans = NULL /\ loops = {} /\ "raced" \notin odd

\* Content that rests lies within its bounds, after any gesture, interruption
\* and change of its height.
RestsInside == AtRest => max <= y /\ y <= 0

\* With pages it rests at the page the scroller counts on, unless the last
\* gesture was reset from beyond the ends, or did no more than take hold of
\* content on its way to another page: neither looks for a page.
RestsAtPage == AtRest /\ opt.snap /\ "lost" \notin odd => y = PageTop(max, page)

\* The scrollbar has faded when the content rests, however it came to rest:
\* unless the movement was cut off without scrollEnd.
ScrollbarFades == AtRest /\ ~wheel /\ odd = {} => bar = 0
=============================================================================
