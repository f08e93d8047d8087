------------------------------ MODULE Carousel ------------------------------
(***************************************************************************)
(* A carousel of Bootstrap (bootstrap.js): items that slide by themselves, *)
(* at arrows, keys and indicators, and rest while the pointer is over them.*)
(* While it slides, arrows are ignored and indicators are remembered.      *)
(***************************************************************************)
EXTENDS Integers, Sequences

CONSTANTS
    NULL,
    Items,  \* how many, counted from 0
    Wraps,  \* values of the option wrap
    MaxWaits, MaxSlids  \* bounds: requests that wait, timeouts that run

CarouselAssumption ==
    /\ Items \in Nat \ {0} /\ NULL \notin 0..Items - 1
    /\ Wraps \subseteq BOOLEAN /\ MaxWaits \in Nat /\ MaxSlids \in Nat

VARIABLES
    wrap,
    active,   \* the item with the class active
    next,     \* the item that slides in, NULL for none
    sliding, interval, paused,
    hovered,
    queue,    \* positions whose to() waits for slid, the first to come first
    slids,    \* timeouts that will tell slid
    resumed   \* history: cycles since the pointer came, it was told to

carouselVars == <<wrap, active, next, sliding, interval, paused, hovered, queue, slids, resumed>>

C == [active |-> active, next |-> next, sliding |-> sliding, interval |-> interval,
      paused |-> paused, queue |-> queue, slids |-> slids, resumed |-> resumed]
Become(state) == \E c \in {state} :
    /\ active' = c.active /\ next' = c.next /\ sliding' = c.sliding /\ interval' = c.interval
    /\ paused' = c.paused /\ queue' = c.queue /\ slids' = c.slids /\ resumed' = c.resumed
    /\ UNCHANGED wrap

-----------------------------------------------------------------------------
\* pause and cycle, told by the page or by an event of the pointer.
Pause(c) == [c EXCEPT !.paused = TRUE, !.interval = FALSE]
Cycle(c) == [c EXCEPT !.paused = FALSE, !.interval = TRUE]
ToldToCycle(c) == [Cycle(c) EXCEPT !.resumed = TRUE]
PauseAtEvent(c) == [c EXCEPT !.interval = FALSE, !.resumed = FALSE]
CycleAtEvent(c) == [c EXCEPT !.interval = ~c.paused, !.resumed = FALSE]

\* getItemForDirection: without wrap the last item is followed by itself.
ItemFor(c, d) ==
    LET i == c.active + d IN IF i \in 0..Items - 1 THEN i ELSE IF wrap THEN i % Items ELSE c.active

\* slide: who cycles is stopped and started again.
Restarted(c) == IF c.interval THEN Cycle(Pause(c)) ELSE c
Slide(c, i) ==
    IF i = c.active THEN [c EXCEPT !.sliding = FALSE]
    ELSE Restarted([c EXCEPT !.sliding = TRUE, !.next = i])

Turn(c, d) == IF c.sliding THEN c ELSE Slide(c, ItemFor(c, d))
To(c, i) ==
    CASE c.sliding -> [c EXCEPT !.queue = Append(@, i)]
      [] ~c.sliding /\ i = c.active -> ToldToCycle(Pause(c))
      [] OTHER -> Slide(c, i)

-----------------------------------------------------------------------------
Init ==
    /\ wrap \in Wraps /\ active = 0 /\ next = NULL /\ sliding = FALSE /\ interval \in BOOLEAN
    /\ paused = FALSE /\ hovered = FALSE /\ queue = <<>> /\ slids = 0 /\ resumed = FALSE

\* Arrows and keys, and the interval.
ArrowOrKey(d) == Become(Turn(C, d)) /\ UNCHANGED hovered
Interval == interval /\ Become(Turn(C, 1)) /\ UNCHANGED hovered
Indicator(i) == (sliding => Len(queue) < MaxWaits) /\ Become(To(C, i)) /\ UNCHANGED hovered

MouseEnter == ~hovered /\ hovered' = TRUE /\ Become(PauseAtEvent(C))
MouseLeave == hovered /\ hovered' = FALSE /\ Become(CycleAtEvent(C))
PageTells(pauses) == Become(IF pauses THEN Pause(C) ELSE ToldToCycle(C)) /\ UNCHANGED hovered

SlidesSilently(c) == [c EXCEPT !.active = c.next, !.next = NULL, !.sliding = FALSE]  \* mutant
Slides(c) == [c EXCEPT !.active = c.next, !.next = NULL, !.sliding = FALSE, !.slids = @ + 1]
TransitionEnd == next # NULL /\ slids < MaxSlids /\ Become(Slides(C)) /\ UNCHANGED hovered

\* Those who waited ask again, in the order they came: those that ask for the
\* item in view have it cycle, the first that asks for another slides, and
\* the others wait again.
Asked(c, q) ==
    LET others == {k \in DOMAIN q : q[k] # c.active}
        k == CHOOSE n \in others \cup {Len(q) + 1} : \A j \in others : n <= j
        there == IF k > 1 THEN ToldToCycle(Pause(c)) ELSE c
    IN  CASE c.sliding -> [c EXCEPT !.queue = q]
          [] ~c.sliding /\ k > Len(q) -> there
          [] OTHER -> [To(there, q[k]) EXCEPT !.queue = SubSeq(q, k + 1, Len(q))]
Slid ==
    /\ slids > 0
    /\ Become(Asked([C EXCEPT !.slids = @ - 1, !.queue = <<>>], queue))
    /\ UNCHANGED hovered

Next ==
    \/ \E d \in {-1, 1} : ArrowOrKey(d)
    \/ \E i \in 0..Items - 1 : Indicator(i)
    \/ Interval \/ MouseEnter \/ MouseLeave \/ TransitionEnd \/ Slid
    \/ \E pauses \in BOOLEAN : PageTells(pauses)

Spec == Init /\ [][Next]_carouselVars /\ WF_carouselVars(TransitionEnd) /\ WF_carouselVars(Slid)

-----------------------------------------------------------------------------
\* A request to slide that came while it was sliding is not forgotten: it
\* waits for an event that is still to come.
RequestsKept == queue # <<>> => sliding \/ slids > 0

\* Under the pointer nothing moves by itself, unless it was told to cycle or
\* the item in view was asked for again.
HoverHolds == hovered /\ ~resumed => ~interval

\* It does not stay between two items.
SlidingEnds == sliding ~> ~sliding
=============================================================================
