------------------------------ MODULE Tooltip ------------------------------
(***************************************************************************)
(* A tooltip or popover of Bootstrap (bootstrap.js): it fades in when the  *)
(* pointer comes to its element, or at a click, and out again, each after  *)
(* a delay or at once.  Who waits for the end of a transition of the tip   *)
(* hears the end of any of them.                                           *)
(***************************************************************************)
EXTENDS Integers, Sequences

CONSTANTS
    NULL,
    Setting,  \* to check: [trigger: "hover" or "click", show, hide: has a delay]
    MaxWaits  \* bound: waiting for a transition at once

TipAssumption == NULL \notin {"in", "out", "show", "hide"}

VARIABLES
    opt,
    over,       \* the pointer is over the element, or the last click was to show
    enabled, dead,
    hoverState, \* "in", "out" or NULL
    timeout,    \* what it will do, "show" or "hide", NULL if not set
    attached,   \* the tip is in the document
    shown,      \* it has the class in
    fades,      \* ... and the class fade, since it was first shown
    waits,      \* "shown", "hidden", "gone": who waits, in this order
    hears,      \* those of them who are being told of the end of a transition
    odd,        \* history: came back while the tip was fading, acted while disabled
    caught      \* history: came back while it was being destroyed

tipVars == <<opt, over, enabled, dead, hoverState, timeout, attached, shown, fades, waits, hears, odd, caught>>

T == [hoverState |-> hoverState, timeout |-> timeout, attached |-> attached, shown |-> shown,
      fades |-> fades, waits |-> waits, dead |-> dead, odd |-> odd, caught |-> caught]
Become(t) ==
    /\ hoverState' = t.hoverState /\ timeout' = t.timeout /\ attached' = t.attached
    /\ shown' = t.shown /\ fades' = t.fades /\ waits' = t.waits /\ dead' = t.dead /\ odd' = t.odd
    /\ caught' = t.caught /\ UNCHANGED opt
\* While somebody is being told nothing else happens.
Handles(t) == hears = <<>> /\ Become(t) /\ UNCHANGED hears

-----------------------------------------------------------------------------
Show(t) ==
    IF ~enabled THEN [t EXCEPT !.odd = TRUE]
    ELSE [t EXCEPT !.attached = TRUE, !.shown = TRUE, !.fades = TRUE, !.waits = Append(@, "shown")]

\* complete of hide: a tip hovered again stays where it is.
HideCompletes(t) == [t EXCEPT !.attached = IF t.hoverState = "in" THEN @ ELSE FALSE]
\* A tip that was ever shown waits for the end of a transition, in the document
\* or not.
Hide(t, kind) ==
    IF t.fades
    THEN [t EXCEPT !.shown = FALSE, !.waits = Append(@, kind), !.hoverState = NULL]
    ELSE [HideCompletes(t) EXCEPT !.hoverState = NULL, !.dead = @ \/ kind = "gone"]

Going(t) == \E i \in DOMAIN t.waits : t.waits[i] = "gone"
Enter(t) ==
    LET e == [t EXCEPT !.hoverState = "in", !.caught = @ \/ Going(t)]
    IN  IF t.attached THEN [e EXCEPT !.odd = @ \/ ~t.shown]
        ELSE IF opt.show THEN [e EXCEPT !.timeout = "show"]
        ELSE Show([e EXCEPT !.timeout = NULL])
Leave(t) ==
    IF opt.hide THEN [t EXCEPT !.hoverState = "out", !.timeout = "hide"]
    ELSE Hide([t EXCEPT !.hoverState = "out", !.timeout = NULL], "hidden")

\* complete of show: who left meanwhile leaves now.
ShowForgets(t) == [t EXCEPT !.hoverState = NULL]  \* mutant
ShowCompletes(t) ==
    LET s == [t EXCEPT !.hoverState = NULL] IN IF t.hoverState = "out" THEN Leave(s) ELSE s

Heard(t, w) ==
    CASE w = "shown" -> ShowCompletes(t)
      [] w = "hidden" -> HideCompletes(t)
      [] w = "gone" -> [HideCompletes(t) EXCEPT !.dead = TRUE]

-----------------------------------------------------------------------------
Init ==
    /\ opt \in Setting /\ over = FALSE /\ enabled = TRUE /\ dead = FALSE /\ hoverState = NULL
    /\ timeout = NULL /\ attached = FALSE /\ shown = FALSE /\ fades = FALSE /\ waits = <<>> /\ hears = <<>>
    /\ odd = FALSE /\ caught = FALSE

Room == Len(waits) < MaxWaits

\* Once it is destroyed its handlers are gone.
On(t) == IF dead THEN T ELSE t
MouseEnter ==
    /\ opt.trigger = "hover" /\ ~over /\ Room
    /\ over' = TRUE /\ Handles(On(Enter(T))) /\ UNCHANGED enabled
MouseLeave ==
    /\ opt.trigger = "hover" /\ over /\ Room
    /\ over' = FALSE /\ Handles(On([Leave(T) EXCEPT !.odd = FALSE])) /\ UNCHANGED enabled

\* toggle
Click ==
    /\ opt.trigger = "click" /\ ~dead /\ Room
    /\ over' = ~shown /\ Handles(IF shown THEN [Leave(T) EXCEPT !.odd = FALSE] ELSE Enter(T)) /\ UNCHANGED enabled

\* Who came back in time is not hidden, who left is not shown.
Due(t) ==
    CASE timeout = "show" /\ hoverState = "in" -> Show(t)
      [] timeout = "hide" /\ hoverState = "out" -> Hide(t, "hidden")
      [] OTHER -> t
Timeout ==
    /\ timeout # NULL /\ Room /\ Handles(Due([T EXCEPT !.timeout = NULL]))
    /\ UNCHANGED <<over, enabled>>

\* All who wait hear it, in turn; who begins to wait meanwhile does not.
TransitionEnd ==
    /\ waits # <<>> /\ hears = <<>> /\ hears' = waits /\ Become([T EXCEPT !.waits = <<>>])
    /\ UNCHANGED <<over, enabled>>
Tell ==
    /\ hears # <<>> /\ hears' = Tail(hears) /\ Become(Heard(T, Head(hears)))
    /\ UNCHANGED <<over, enabled>>

SetEnabled(b) ==
    /\ ~dead /\ enabled # b /\ enabled' = b /\ Handles(T) /\ UNCHANGED over

Destroy ==
    /\ ~dead /\ Room
    /\ Handles(Hide([T EXCEPT !.timeout = NULL], "gone")) /\ UNCHANGED <<over, enabled>>

Next ==
    \/ MouseEnter \/ MouseLeave \/ Click \/ Timeout \/ TransitionEnd \/ Tell \/ Destroy
    \/ \E b \in BOOLEAN : SetEnabled(b)

Spec == Init /\ [][Next]_tipVars

-----------------------------------------------------------------------------
AtRest == timeout = NULL /\ waits = <<>> /\ hears = <<>>

\* When nothing is pending any more, a tip that was left has gone, and so has one
\* that was destroyed, unless the pointer came back before it was.
LeftIsGone == AtRest /\ (~over \/ dead) /\ ~caught => ~attached

\* ... and one whose element is hovered is there, unless the pointer came back
\* while it was fading out, or while it was disabled.
HoveredIsShown == AtRest /\ over /\ ~dead /\ ~odd => attached /\ shown
=============================================================================
